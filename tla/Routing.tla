------------------------------ MODULE Routing -------------------------------
(***************************************************************************)
(* Which agents a capability query is answered with                        *)
(* (internal/store/match.go and bm25.go): four tiers, each tried only when *)
(* the one before found nothing, over one registry.  Operators alone: Api  *)
(* is the module of the requests that use them.                            *)
(*                                                                         *)
(* Terms are model values: what normalizeIntent makes of each is a         *)
(* function.  Of Okapi BM25 the order of the floating-point additions is   *)
(* kept and the formula is not: a word weighs the same in every agent      *)
(* whose text has it, and a sum is rounded after every addition.           *)
(***************************************************************************)
EXTENDS Naturals, FiniteSets, SequencesExt

CONSTANTS
  Names,      \* agent names, numbered in their alphabetical order
  Cards,      \* what a registry may say of an agent: intents, role, trusted, words, kinds, afters
  Missing,    \* the registry has no such agent
  NoRole,     \* an agent declares no role
  Terms,      \* intents, roles and whatever else is asked for
  Normal,     \* normalizeIntent
  Synonym,    \* intentSynonyms
  WordsOf,    \* the words a term is tokenized into
  Weight,     \* what a word adds to the score of an agent whose text has it
  Digits,     \* bound: a score keeps this many binary digits
  BM25TopN    \* how many agents tier 4 returns at most

ASSUME NamesAssumption == Names \subseteq Nat /\ IsFiniteSet(Names) /\ Missing \notin Cards
ASSUME CardsAssumption == \A c \in Cards : c.trusted \in BOOLEAN
ASSUME TermsAssumption ==
  /\ Normal \in [Terms -> Terms]
  /\ \A t \in Terms : Normal[Normal[t]] = Normal[t]
  /\ DOMAIN Synonym \subseteq {Normal[t] : t \in Terms}
  /\ NoRole \notin Terms
ASSUME WordsAssumption ==
  \A t \in Terms : IsFiniteSet(WordsOf[t]) /\ \A w \in WordsOf[t] : Weight[w] \in Nat
ASSUME LimitsAssumption == Digits \in Nat /\ BM25TopN \in Nat

Registries == [Names -> Cards \cup {Missing}]

-----------------------------------------------------------------------------
(* match.go *)

Agents(reg) == {n \in Names : reg[n] # Missing}

Declaring(reg, terms) == {n \in Agents(reg) : reg[n].intents \cap terms # {}}

\* matchByIntentSet, of the terms themselves ...
MatchExact(reg, terms) == Declaring(reg, terms)

\* ... and of what they are synonyms of.
MatchSynonyms(reg, terms) ==
  Declaring(reg, {Synonym[t] : t \in terms \cap DOMAIN Synonym})

MatchByRole(reg, terms) == {n \in Agents(reg) : reg[n].role \in terms}

\* canonicalRank, then the name.
Before(reg, m, n) ==
  IF reg[m].trusted # reg[n].trusted THEN reg[m].trusted ELSE m < n

\* sort.SliceStable, by a total order.
Arranged(names, order) ==
  CHOOSE s \in SetToSeqs(names) : \A i, j \in 1..Len(s) : i < j => <<s[i], s[j]>> \in order

RankAgents(reg, names) ==
  Arranged(names, {p \in names \X names : Before(reg, p[1], p[2])})

-----------------------------------------------------------------------------
(* bm25.go *)

\* A sum, cut to the digits a float holds.
Plus(x, y) ==
  LET limit == 2^Digits
      unit == IF x + y < limit THEN 1 ELSE IF x + y < 2 * limit THEN 2 ELSE 4
  IN  ((x + y) \div unit) * unit

AddUp(words) ==
  LET sum[i \in 0..Len(words)] == IF i = 0 THEN 0 ELSE Plus(Weight[words[i]], sum[i - 1])
  IN  sum[Len(words)]

\* Go ranges over the set of query words in any order, anew for every agent.
Scores(words) == {AddUp(s) : s \in SetToSeqs(words)}

\* By falling score; agents that score alike stand by Before.
Outscores(reg, score, hits) ==
  {p \in hits \X hits : \/ score[p[1]] > score[p[2]]
                        \/ score[p[1]] = score[p[2]] /\ Before(reg, p[1], p[2])}

Cut(ranked) == SubSeq(ranked, 1, IF Len(ranked) > BM25TopN THEN BM25TopN ELSE Len(ranked))

\* Agents that have a word of the query, as they may have been scored: all the
\* answers the order of the additions may give.
Bm25Fallback(reg, raw) ==
  LET words == UNION {WordsOf[t] : t \in raw}
      hits == {n \in Agents(reg) : reg[n].words \cap words # {}}
      scorings == {score \in [hits -> UNION {Scores(reg[n].words \cap words) : n \in hits}] :
                     \A n \in hits : score[n] \in Scores(reg[n].words \cap words)}
  IN  {Cut(Arranged(hits, Outscores(reg, score, hits))) : score \in scorings}

\* Mutant: a synonym's agents are added to those of the term itself.
Tiers_Diluted(reg, terms) ==
  <<MatchExact(reg, terms) \cup MatchSynonyms(reg, terms),
    MatchSynonyms(reg, terms), MatchByRole(reg, terms)>>

\* What tiers 1 to 3 find.
Tiers(reg, terms) ==
  <<MatchExact(reg, terms), MatchSynonyms(reg, terms), MatchByRole(reg, terms)>>

Least(numbers) == CHOOSE i \in numbers : \A j \in numbers : i <= j

\* The tiers that find something.
Found(reg, terms) == {i \in 1..3 : Tiers(reg, terms)[i] # {}}

\* findByCapability: the first of them answers.
FindByCapability(reg, raw) ==
  LET terms == {Normal[t] : t \in raw}
  IN  IF Found(reg, terms) = {} THEN Bm25Fallback(reg, raw)
      ELSE {RankAgents(reg, Tiers(reg, terms)[Least(Found(reg, terms))])}

-----------------------------------------------------------------------------
(* What an answer is measured against. *)

\* How an agent relates to terms, by itself: 1 declares one, 2 declares what one
\* is a synonym of, 3 has one for a role.
Relations(reg, terms, n) == {i \in 1..3 :
  \/ i = 1 /\ \E t \in terms : t \in reg[n].intents
  \/ i = 2 /\ \E t \in terms \cap DOMAIN Synonym : Synonym[t] \in reg[n].intents
  \/ i = 3 /\ reg[n].role \in terms}

\* The closest of these, or 4.
Relation(reg, raw, n) ==
  LET relations == Relations(reg, {Normal[t] : t \in raw}, n)
  IN  IF relations = {} THEN 4 ELSE Least(relations)

Closest(reg, raw) ==
  {n \in Agents(reg) : \A m \in Agents(reg) : Relation(reg, raw, n) <= Relation(reg, raw, m)}

Resolved(reg, raw) == \E n \in Agents(reg) : Relation(reg, raw, n) < 4
=============================================================================
