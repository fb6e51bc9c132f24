------------------------------- MODULE MCApi --------------------------------
(* The API over a registry of up to three agents. *)
EXTENDS Api, TLC

CONSTANTS
  review,             \* "code-review", in the vocabulary
  phrase,             \* "Code Review", another way to write it
  alias,              \* "review", a synonym of it
  opened, openedNorm, \* "pr_opened", in the vocabulary, and "pr-opened"
  reviewer,           \* a role
  x, y, z,            \* words
  talk,               \* a kind of conversation
  long                \* more than 256 bytes

MCTerms == {review, phrase, alias, opened, openedNorm, reviewer}
MCNormal == [t \in MCTerms |-> CASE t = phrase -> review [] t = opened -> openedNorm [] OTHER -> t]
MCSynonym == alias :> review
MCWordsOf == [t \in MCTerms |-> CASE t = reviewer -> {z}
                                   [] t \in {opened, openedNorm} -> {x, y, z}
                                   [] OTHER -> {x, y}]
MCWeight == x :> 7 @@ y :> 2 @@ z :> 1

Card(intents, role, trusted, words, kinds, afters) ==
  [intents |-> intents, role |-> role, trusted |-> trusted, words |-> words,
   kinds |-> kinds, afters |-> afters]

MCCards == {
  Card({review}, NoRole, TRUE, {x, y}, {talk}, {}), Card({review}, reviewer, FALSE, {x}, {}, {1}),
  Card({alias}, NoRole, FALSE, {}, {}, {}), Card({}, alias, FALSE, {y}, {talk}, {}),
  Card({opened}, reviewer, FALSE, {z}, {}, {}),
  Card({}, NoRole, TRUE, {x, y, z}, {}, {1}), Card({}, NoRole, FALSE, {x, y, z}, {}, {})}

Query(i, k, a) == [intent |-> i, kind |-> k, after |-> a]

MCQueries == {Query(t, Unset, Unset) : t \in MCTerms} \cup {
  Query(Unset, talk, Unset), Query(Unset, Unset, 1), Query(Unset, talk, 1), Query(reviewer, talk, 1),
  Query(Unset, Unset, Unset), Query(long, Unset, Unset), Query(review, Unset, long)}

MCSetups == {[git |-> TRUE, auth |-> TRUE], [git |-> FALSE, auth |-> FALSE]}

\* Agent 3 under its card's other address.
MCTrimSuffix == 4 :> 3 @@ [n \in {1, 2, 3} |-> n]
=============================================================================
