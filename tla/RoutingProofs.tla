--------------------------- MODULE RoutingProofs ----------------------------
(***************************************************************************)
(* Proofs about Routing, for every registry, vocabulary and query: a       *)
(* ranking is an arrangement of what it ranks, tiers 1 to 3 answer with    *)
(* the closest agents in order, and tier 4 with the best scored ones.      *)
(***************************************************************************)
EXTENDS Routing, FiniteSetTheorems, SequenceTheorems, TLAPS

-----------------------------------------------------------------------------
(* Rankings. *)

\* Of two members of names, one comes first, and the order has no cycles.
TotalOrder(order, names) ==
  /\ order \subseteq names \X names
  /\ \A x \in names : <<x, x>> \notin order
  /\ \A x, y, z \in names : <<x, y>> \in order /\ <<y, z>> \in order => <<x, z>> \in order
  /\ \A x, y \in names : x # y => <<x, y>> \in order \/ <<y, x>> \in order

\* A finite set can be written down in a total order: everyone stands where as
\* many stand ahead of it as come before it.
LEMMA ArrangementExists ==
  ASSUME NEW names, NEW order, IsFiniteSet(names), TotalOrder(order, names)
  PROVE  \E s \in SetToSeqs(names) : \A i, j \in 1..Len(s) : i < j => <<s[i], s[j]>> \in order
<1> DEFINE N == Cardinality(names)
           below(n) == {m \in names : <<m, n>> \in order}
           place == [n \in names |-> Cardinality(below(n)) + 1]
           s == [i \in 1..N |-> CHOOSE n \in names : place[n] = i]
<1>0. N \in Nat
  BY FS_CardinalityType
<1>1. \A n \in names : IsFiniteSet(below(n)) /\ Cardinality(below(n)) \in Nat
  BY FS_Subset, FS_CardinalityType
<1>2. ASSUME NEW n \in names PROVE place[n] \in 1..N
  <2>1. below(n) \in SUBSET (names \ {n})
    BY DEF TotalOrder
  <2>2. IsFiniteSet(names \ {n}) /\ Cardinality(names \ {n}) = N - 1
    BY FS_RemoveElement
  <2>3. Cardinality(below(n)) <= N - 1
    BY <2>1, <2>2, FS_Subset
  <2> HIDE DEF below
  <2> QED
    BY <1>0, <1>1, <2>3
<1>3. ASSUME NEW m \in names, NEW n \in names, <<m, n>> \in order PROVE place[m] < place[n]
  <2>1. below(m) \in SUBSET below(n) /\ m \in below(n) /\ m \notin below(m)
    BY <1>3 DEF TotalOrder
  <2>2. IsFiniteSet(below(n))
    BY <1>1
  <2>3. Cardinality(below(m)) <= Cardinality(below(n)) /\ Cardinality(below(m)) # Cardinality(below(n))
    BY <2>1, <2>2, FS_Subset
  <2> HIDE DEF below
  <2> QED
    BY <1>1, <2>3
<1> HIDE DEF below
<1>4. place \in Injection(names, 1..N)
  <2>1. place \in [names -> 1..N]
    BY <1>2
  <2>2. \A m, n \in names : m # n => place[m] # place[n]
    <3> TAKE m, n \in names
    <3> HAVE m # n
    <3>1. <<m, n>> \in order \/ <<n, m>> \in order
      BY DEF TotalOrder
    <3>2. place[m] \in Int /\ place[n] \in Int
      BY <2>1
    <3> HIDE DEF place
    <3> QED
      BY <1>3, <3>1, <3>2
  <2> QED
    BY <2>1, <2>2 DEF Injection, IsInjective
<1>5. place \in Surjection(names, 1..N)
  <2>1. IsFiniteSet(1..N) /\ Cardinality(1..N) = N
    BY <1>0, FS_Interval
  <2> HIDE DEF place
  <2> QED
    BY <1>4, <2>1, FS_Injection
<1>6. \A i \in 1..N : s[i] \in names /\ place[s[i]] = i
  <2>1. \A i \in 1..N : \E n \in names : place[n] = i
    BY <1>5 DEF Surjection
  <2> HIDE DEF place
  <2> QED
    BY <2>1
<1>7. s \in [1..N -> names] /\ \A i, j \in 1..N : i # j => s[i] # s[j]
  <2> HIDE DEF place
  <2> QED
    BY <1>6
<1>8. s \in SetToSeqs(names)
  BY <1>7 DEF SetToSeqs
<1>9. Len(s) = N
  <2> HIDE DEF place
  <2> QED BY <1>0
<1>10. \A i, j \in 1..N : i < j => <<s[i], s[j]>> \in order
  <2> TAKE i, j \in 1..N
  <2> HAVE i < j
  <2>1. s[i] \in names /\ s[j] \in names /\ place[s[i]] = i /\ place[s[j]] = j
    BY <1>6
  <2> HIDE DEF s, place
  <2>2. s[i] # s[j]
    BY <2>1
  <2>3. ~(<<s[j], s[i]>> \in order)
    BY <1>3, <2>1
  <2> QED
    BY <2>1, <2>2, <2>3 DEF TotalOrder
<1> HIDE DEF s
<1> QED
  BY <1>8, <1>9, <1>10

\* An arrangement is a sequence of all the names, each once.
LEMMA SeqsFacts ==
  ASSUME NEW names, IsFiniteSet(names), NEW s \in SetToSeqs(names)
  PROVE  /\ Len(s) = Cardinality(names) /\ Len(s) \in Nat
         /\ s \in [1..Len(s) -> names] /\ s \in Seq(names)
         /\ \A i, j \in 1..Len(s) : s[i] = s[j] => i = j
         /\ ToSet(s) = names
         /\ IsInjective(s)
<1> DEFINE N == Cardinality(names)
<1>0. N \in Nat
  BY FS_CardinalityType
<1>1. s \in [1..N -> names] /\ \A i, j \in 1..N : i # j => s[i] # s[j]
  BY DEF SetToSeqs
<1>2. Len(s) = N /\ s \in Seq(names)
  BY <1>0, <1>1
<1>3. s \in Injection(1..N, names)
  BY <1>1 DEF Injection, IsInjective
<1>4. IsFiniteSet(1..N) /\ Cardinality(1..N) = N
  BY <1>0, FS_Interval
<1>5. s \in Surjection(1..N, names)
  BY <1>3, <1>4, FS_Injection
<1>6. ToSet(s) = names
  BY <1>1, <1>5 DEF Surjection, ToSet
<1> QED
  BY <1>0, <1>1, <1>2, <1>3, <1>6 DEF Injection

\* What is arranged by a total order stands in that order, all of it.
LEMMA ArrangedFacts ==
  ASSUME NEW names, NEW order, IsFiniteSet(names), TotalOrder(order, names)
  PROVE  LET s == Arranged(names, order)
         IN  /\ s \in SetToSeqs(names)
             /\ \A i, j \in 1..Len(s) : i < j => <<s[i], s[j]>> \in order
BY ArrangementExists DEF Arranged

-----------------------------------------------------------------------------
(* The tiers. *)

\* The least of some numbers up to 3 is one of them.
LEMMA LeastFacts ==
  ASSUME NEW S \in SUBSET (1..3), S # {}
  PROVE  Least(S) \in S /\ \A j \in S : Least(S) <= j
<1>1. PICK i \in S : \A j \in S : i <= j
  <2>1. S \subseteq {1, 2, 3}
    OBVIOUS
  <2>2. CASE 1 \in S
    BY <2>1, <2>2
  <2>3. CASE 1 \notin S /\ 2 \in S
    BY <2>1, <2>3
  <2>4. CASE 1 \notin S /\ 2 \notin S
    <3>1. S = {3}
      BY <2>1, <2>4
    <3> QED BY <3>1
  <2> QED BY <2>2, <2>3, <2>4
<1> QED BY <1>1 DEF Least

\* An agent is in a tier exactly when it has that relation to the terms.
LEMMA TierFacts ==
  ASSUME NEW reg \in Registries, NEW terms, NEW n \in Agents(reg), NEW i \in 1..3
  PROVE  n \in Tiers(reg, terms)[i] <=> i \in Relations(reg, terms, n)
<1>1. CASE i = 1
  <2>1. Tiers(reg, terms)[i] = MatchExact(reg, terms)
    BY <1>1 DEF Tiers
  <2> QED BY <1>1, <2>1 DEF Relations, MatchExact, Declaring
<1>2. CASE i = 2
  <2>1. Tiers(reg, terms)[i] = MatchSynonyms(reg, terms)
    BY <1>2 DEF Tiers
  <2> QED BY <1>2, <2>1 DEF Relations, MatchSynonyms, Declaring
<1>3. CASE i = 3
  <2>1. Tiers(reg, terms)[i] = MatchByRole(reg, terms)
    BY <1>3 DEF Tiers
  <2> QED BY <1>3, <2>1 DEF Relations, MatchByRole
<1> QED BY <1>1, <1>2, <1>3

\* Tiers name agents of the registry.
LEMMA TierAgents ==
  ASSUME NEW reg \in Registries, NEW terms, NEW i \in 1..3
  PROVE  Tiers(reg, terms)[i] \subseteq Agents(reg)
BY DEF Tiers, MatchExact, MatchSynonyms, MatchByRole, Declaring

\* The relation of an agent is the first tier that has it, or none has.
LEMMA RelationFacts ==
  ASSUME NEW reg \in Registries, NEW raw \in SUBSET Terms, NEW n \in Agents(reg)
  PROVE  LET terms == {Normal[t] : t \in raw}
             r == Relation(reg, raw, n)
         IN  /\ r \in 1..4
             /\ r < 4 => n \in Tiers(reg, terms)[r]
             /\ \A i \in 1..3 : n \in Tiers(reg, terms)[i] => r <= i
<1> DEFINE terms == {Normal[t] : t \in raw}
           R == Relations(reg, terms, n)
<1>1. R \in SUBSET (1..3)
  BY DEF Relations
<1>2. Relation(reg, raw, n) = IF R = {} THEN 4 ELSE Least(R)
  BY DEF Relation
<1>3. \A i \in 1..3 : n \in Tiers(reg, terms)[i] <=> i \in R
  BY TierFacts
<1> HIDE DEF R
<1>4. CASE R = {}
  <2>1. Relation(reg, raw, n) = 4
    BY <1>2, <1>4
  <2> QED BY <2>1, <1>3, <1>4
<1>5. CASE R # {}
  <2>1. Least(R) \in R /\ \A j \in R : Least(R) <= j
    BY <1>1, <1>5, LeastFacts
  <2>2. Relation(reg, raw, n) = Least(R)
    BY <1>2, <1>5
  <2>3. Least(R) \in 1..3
    BY <2>1, <1>1
  <2>4. n \in Tiers(reg, terms)[Least(R)]
    BY <2>1, <2>3, <1>3
  <2>5. \A i \in 1..3 : n \in Tiers(reg, terms)[i] => Least(R) <= i
    BY <2>1, <1>3
  <2> HIDE DEF terms
  <2> QED BY <2>2, <2>3, <2>4, <2>5 DEF terms
<1> QED BY <1>4, <1>5

\* When an agent of the registry is related to a query, the answer is one, and
\* it ranks the closest agents and no other: an exact match is not diluted by
\* synonyms, nor a synonym by roles, nor any of them by the score of a text.
THEOREM AnswerIsClosest ==
  ASSUME NEW reg \in Registries, NEW raw \in SUBSET Terms, Resolved(reg, raw)
  PROVE  FindByCapability(reg, raw) = {RankAgents(reg, Closest(reg, raw))}
<1> DEFINE terms == {Normal[t] : t \in raw}
           first == Least(Found(reg, terms))
           Rel(n) == Relation(reg, raw, n)
           tier(i) == Tiers(reg, terms)[i]
<1>1. ASSUME NEW n \in Agents(reg)
      PROVE  /\ Rel(n) \in 1..4
             /\ Rel(n) < 4 => n \in tier(Rel(n))
             /\ \A i \in 1..3 : n \in tier(i) => Rel(n) <= i
  BY RelationFacts
<1>2. \A i \in 1..3 : tier(i) \subseteq Agents(reg)
  BY TierAgents
<1>3. Found(reg, terms) = {i \in 1..3 : tier(i) # {}}
  BY DEF Found
<1>4. PICK near \in Agents(reg) : Rel(near) < 4
  BY DEF Resolved
<1>5. FindByCapability(reg, raw) =
        IF Found(reg, terms) = {} THEN Bm25Fallback(reg, raw) ELSE {RankAgents(reg, tier(first))}
  BY DEF FindByCapability
<1>6. Closest(reg, raw) = {n \in Agents(reg) : \A m \in Agents(reg) : Rel(n) <= Rel(m)}
  BY DEF Closest
<1> HIDE DEF Rel, tier
<1>7. Rel(near) \in Found(reg, terms)
  <2>1. Rel(near) \in 1..3 /\ near \in tier(Rel(near))
    BY <1>1, <1>4
  <2> QED BY <1>3, <2>1
<1>8. first \in 1..3 /\ tier(first) # {} /\ \A j \in Found(reg, terms) : first <= j
  <2>1. Found(reg, terms) \in SUBSET (1..3)
    BY <1>3
  <2>2. first \in Found(reg, terms) /\ \A j \in Found(reg, terms) : first <= j
    BY <1>7, <2>1, LeastFacts
  <2> QED BY <1>3, <2>2
<1> HIDE DEF first
<1>9. \A n \in Agents(reg) : first <= Rel(n)
  <2> TAKE n \in Agents(reg)
  <2>1. Rel(n) \in 1..4 /\ (Rel(n) < 4 => n \in tier(Rel(n)))
    BY <1>1
  <2>2. CASE Rel(n) = 4
    BY <1>8, <2>2
  <2>3. CASE Rel(n) # 4
    <3>1. Rel(n) \in 1..3 /\ n \in tier(Rel(n))
      BY <2>1, <2>3
    <3>2. Rel(n) \in Found(reg, terms)
      BY <1>3, <3>1
    <3> QED BY <1>8, <3>2
  <2> QED BY <2>2, <2>3
<1>10. \A n \in tier(first) : n \in Agents(reg) /\ Rel(n) = first
  <2> TAKE n \in tier(first)
  <2>1. n \in Agents(reg)
    BY <1>2, <1>8
  <2>2. Rel(n) \in 1..4 /\ Rel(n) <= first /\ first <= Rel(n)
    BY <1>1, <1>8, <1>9, <2>1
  <2> QED BY <1>8, <2>1, <2>2
<1>11. \A n \in Agents(reg) : Rel(n) = first => n \in tier(first)
  <2> SUFFICES ASSUME NEW n \in Agents(reg), Rel(n) = first
               PROVE  n \in tier(first)
    OBVIOUS
  <2>1. Rel(n) < 4
    BY <1>8
  <2> QED BY <1>1, <2>1
<1>12. tier(first) = Closest(reg, raw)
  <2>1. PICK m \in tier(first) : TRUE
    BY <1>8
  <2>2. m \in Agents(reg) /\ Rel(m) = first
    BY <1>10, <2>1
  <2>3. ASSUME NEW n \in Agents(reg)
        PROVE  n \in tier(first) <=> \A k \in Agents(reg) : Rel(n) <= Rel(k)
    <3>1. CASE n \in tier(first)
      BY <1>9, <1>10, <3>1
    <3>2. CASE n \notin tier(first)
      <4>1. Rel(n) # first /\ first <= Rel(n) /\ Rel(n) \in 1..4
        BY <1>1, <1>9, <1>11, <3>2
      <4>2. ~(Rel(n) <= Rel(m))
        BY <1>8, <2>2, <4>1
      <4> QED BY <2>2, <3>2, <4>2
    <3> QED BY <3>1, <3>2
  <2> QED BY <1>6, <1>10, <2>3
<1> QED BY <1>5, <1>7, <1>12

\* Trusted agents come first, and names decide between two of a kind: Before
\* orders the agents of a registry totally.
LEMMA BeforeOrder ==
  ASSUME NEW reg \in Registries, NEW names \in SUBSET Agents(reg)
  PROVE  TotalOrder({p \in names \X names : Before(reg, p[1], p[2])}, names)
<1> DEFINE T(n) == reg[n].trusted
           order == {p \in names \X names : Before(reg, p[1], p[2])}
<1>1. \A n \in names : n \in Nat /\ T(n) \in BOOLEAN
  BY NamesAssumption, CardsAssumption DEF Agents, Registries
<1>2. \A m, n \in names : Before(reg, m, n) <=> (T(m) /\ ~T(n)) \/ ((T(m) <=> T(n)) /\ m < n)
  BY <1>1, Zenon DEF Before
<1>3. \A m, n \in names : <<m, n>> \in order <=> (T(m) /\ ~T(n)) \/ ((T(m) <=> T(n)) /\ m < n)
  <2> TAKE m, n \in names
  <2>1. <<m, n>> \in order <=> Before(reg, m, n)
    OBVIOUS
  <2> QED BY <1>2, <2>1, Zenon
<1>4. order \subseteq names \X names
  OBVIOUS
<1>5. TotalOrder(order, names)
  <2> HIDE DEF T, order
  <2>1. \A x \in names : <<x, x>> \notin order
    BY <1>1, <1>3
  <2>2. \A x, y, z \in names : <<x, y>> \in order /\ <<y, z>> \in order => <<x, z>> \in order
    BY <1>1, <1>3
  <2>3. \A x, y \in names : x # y => <<x, y>> \in order \/ <<y, x>> \in order
    BY <1>1, <1>3
  <2> QED
    BY <1>4, <2>1, <2>2, <2>3 DEF TotalOrder
<1> QED
  BY <1>5

\* A registry's agents are finitely many.
LEMMA AgentsFinite ==
  ASSUME NEW reg \in Registries, NEW names \in SUBSET Agents(reg)
  PROVE  IsFiniteSet(names) /\ names \in SUBSET Names
BY NamesAssumption, FS_Subset DEF Agents

\* rankAgents loses nobody and invents nobody, and leaves them in the order of
\* canonicalRank and name.
THEOREM RankAgentsRanks ==
  ASSUME NEW reg \in Registries, NEW names \in SUBSET Agents(reg)
  PROVE  LET ranked == RankAgents(reg, names)
         IN  /\ ToSet(ranked) = names
             /\ IsInjective(ranked)
             /\ \A i, j \in 1..Len(ranked) : i < j => Before(reg, ranked[i], ranked[j])
<1> DEFINE order == {p \in names \X names : Before(reg, p[1], p[2])}
           s == Arranged(names, order)
<1>1. TotalOrder(order, names) /\ IsFiniteSet(names)
  BY BeforeOrder, AgentsFinite
<1>2. s \in SetToSeqs(names) /\ \A i, j \in 1..Len(s) : i < j => <<s[i], s[j]>> \in order
  <2> HIDE DEF order
  <2> QED BY <1>1, ArrangedFacts
<1>3. ToSet(s) = names /\ IsInjective(s)
  BY <1>1, <1>2, SeqsFacts
<1>4. RankAgents(reg, names) = s
  BY DEF RankAgents
<1>5. \A i, j \in 1..Len(s) : i < j => Before(reg, s[i], s[j])
  <2> HIDE DEF s
  <2> QED BY <1>2
<1> HIDE DEF s
<1> QED
  BY <1>3, <1>4, <1>5

-----------------------------------------------------------------------------
(* Scores. *)

\* A statement about numbers that fails fails first somewhere: at 0, or right
\* after a number it holds of.
LEMMA FirstFailure ==
  ASSUME NEW Fails \in SUBSET Nat, Fails # {}
  PROVE  \E k \in Fails : k = 0 \/ (k - 1 \in Nat /\ k - 1 \notin Fails)
<1>1. PICK k \in Fails : \A y \in Fails : ~(<<y, k>> \in OpToRel(<, Nat))
  BY NatLessThanWellFounded, WFMin, Zenon
<1>2. \A y \in Fails : ~(y < k)
  BY <1>1 DEF OpToRel
<1> QED
  BY <1>2

\* Cutting a sum to its digits leaves a natural number.
LEMMA PlusType == \A x, y \in Nat : Plus(x, y) \in Nat
<1> TAKE x, y \in Nat
<1> DEFINE limit == 2^Digits
           unit == IF x + y < limit THEN 1 ELSE IF x + y < 2 * limit THEN 2 ELSE 4
<1>1. Plus(x, y) = ((x + y) \div unit) * unit
  BY DEF Plus
<1>2. unit = 1 \/ unit = 2 \/ unit = 4
  OBVIOUS
<1>3. x + y \in Nat
  OBVIOUS
<1> HIDE DEF unit
<1> QED
  BY <1>1, <1>2, <1>3

\* The sum of the weights of words is a number, in whatever order they are added.
LEMMA AddUpType ==
  ASSUME NEW words, NEW s \in Seq(words), \A w \in words : Weight[w] \in Nat
  PROVE  AddUp(s) \in Nat
<1> DEFINE Next(i, f) == IF i = 0 THEN 0 ELSE Plus(Weight[s[i]], f[i - 1])
           Sums(f, n) == f = [i \in 0..n |-> Next(i, f)]
           sum == CHOOSE f : Sums(f, Len(s))
<1>0. Len(s) \in Nat /\ \A i \in 1..Len(s) : Weight[s[i]] \in Nat
  OBVIOUS
\* The recursion has a solution up to every length.
<1>1. \A n \in 0..Len(s) : \E f : Sums(f, n)
  <2> DEFINE Fails == {n \in 0..Len(s) : ~\E f : Sums(f, n)}
  <2>1. SUFFICES ASSUME Fails # {} PROVE FALSE
    OBVIOUS
  <2>2. Fails \in SUBSET Nat
    BY <1>0
  <2>3. PICK k \in Fails : k = 0 \/ (k - 1 \in Nat /\ k - 1 \notin Fails)
    <3> HIDE DEF Fails
    <3> QED BY <2>1, <2>2, FirstFailure
  <2>4. k \in 0..Len(s)
    OBVIOUS
  <2>5. CASE k = 0
    <3> DEFINE f == [i \in 0..0 |-> 0]
    <3>1. Sums(f, 0)
      OBVIOUS
    <3> HIDE DEF Sums
    <3> QED BY <2>5, <3>1
  <2>6. CASE k # 0
    <3>1. k - 1 \in 0..Len(s) /\ k - 1 \notin Fails
      BY <1>0, <2>3, <2>4, <2>6
    <3>2. PICK f : Sums(f, k - 1)
      BY <3>1
    <3> DEFINE g == [i \in 0..k |-> IF i = k THEN Plus(Weight[s[k]], f[k - 1]) ELSE f[i]]
    <3>3. \A i \in 0..k : g[i] = Next(i, g)
      <4> TAKE i \in 0..k
      <4>1. CASE i = k
        <5>1. g[k] = Plus(Weight[s[k]], f[k - 1])
          BY <2>4
        <5>2. g[k - 1] = f[k - 1]
          BY <2>4, <2>6
        <5> HIDE DEF g
        <5> QED BY <4>1, <5>1, <5>2, <2>6
      <4>2. CASE i # k
        <5>1. i \in 0..(k - 1) /\ g[i] = f[i]
          BY <2>4, <4>2
        <5>2. f[i] = Next(i, f)
          BY <3>2, <5>1
        <5>3. i # 0 => g[i - 1] = f[i - 1]
          BY <2>4, <4>2
        <5> HIDE DEF g
        <5> QED BY <5>1, <5>2, <5>3
      <4> QED BY <4>1, <4>2
    <3>4. g = [i \in 0..k |-> g[i]]
      OBVIOUS
    <3>5. Sums(g, k)
      <4> HIDE DEF g, Next
      <4> QED BY <3>3, <3>4
    <3> HIDE DEF Sums, g
    <3> QED BY <3>5
  <2> QED BY <2>5, <2>6
<1>2. Sums(sum, Len(s))
  <2> HIDE DEF Sums
  <2>1. \E f : Sums(f, Len(s))
    BY <1>0, <1>1
  <2> QED BY <2>1
<1>3. AddUp(s) = sum[Len(s)]
  BY DEF AddUp
<1> HIDE DEF sum
<1>4. \A i \in 0..Len(s) : sum[i] = Next(i, sum)
  <2> HIDE DEF Next
  <2> QED BY <1>2
\* Each partial sum is a number, the first and then the next.
<1>5. \A i \in 0..Len(s) : sum[i] \in Nat
  <2> DEFINE Fails == {i \in 0..Len(s) : sum[i] \notin Nat}
  <2>1. SUFFICES ASSUME Fails # {} PROVE FALSE
    OBVIOUS
  <2>2. Fails \in SUBSET Nat
    BY <1>0
  <2>3. PICK k \in Fails : k = 0 \/ (k - 1 \in Nat /\ k - 1 \notin Fails)
    <3> HIDE DEF Fails
    <3> QED BY <2>1, <2>2, FirstFailure
  <2>4. k \in 0..Len(s) /\ sum[k] \notin Nat
    OBVIOUS
  <2>5. CASE k = 0
    BY <1>4, <2>4, <2>5
  <2>6. CASE k # 0
    <3>1. k - 1 \in 0..Len(s) /\ k \in 1..Len(s)
      BY <1>0, <2>4, <2>6
    <3>2. sum[k - 1] \in Nat
      BY <2>3, <2>6, <3>1
    <3>3. sum[k] = Plus(Weight[s[k]], sum[k - 1])
      BY <1>4, <2>4, <2>6
    <3> QED BY <1>0, <2>4, <3>1, <3>2, <3>3, PlusType
  <2> QED BY <2>5, <2>6
<1> QED
  BY <1>0, <1>3, <1>5
-----------------------------------------------------------------------------
(* Tier 4. *)

\* Whatever the scores, falling score and Before order the hits totally.
LEMMA OutscoresOrder ==
  ASSUME NEW reg \in Registries, NEW hits \in SUBSET Agents(reg), NEW score \in [hits -> Nat]
  PROVE  TotalOrder(Outscores(reg, score, hits), hits)
<1> DEFINE before == {p \in hits \X hits : Before(reg, p[1], p[2])}
           order == Outscores(reg, score, hits)
<1>1. TotalOrder(before, hits)
  BY BeforeOrder
<1>2. \A m, n \in hits : <<m, n>> \in before <=> Before(reg, m, n)
  OBVIOUS
<1>3. \A m, n \in hits : <<m, n>> \in order <=>
        score[m] > score[n] \/ (score[m] = score[n] /\ <<m, n>> \in before)
  BY <1>2 DEF Outscores
<1>4. order \subseteq hits \X hits
  BY DEF Outscores
<1>5. TotalOrder(order, hits)
  <2>0. \A n \in hits : score[n] \in Nat
    OBVIOUS
  <2> HIDE DEF before, order
  <2>1. \A x \in hits : <<x, x>> \notin order
    <3> TAKE x \in hits
    <3>1. <<x, x>> \notin before
      BY <1>1 DEF TotalOrder
    <3> QED BY <1>3, <2>0, <3>1
  <2>2. \A x, y, z \in hits : <<x, y>> \in order /\ <<y, z>> \in order => <<x, z>> \in order
    <3> TAKE x, y, z \in hits
    <3>1. <<x, y>> \in before /\ <<y, z>> \in before => <<x, z>> \in before
      BY <1>1 DEF TotalOrder
    <3> QED BY <1>3, <2>0, <3>1
  <2>3. \A x, y \in hits : x # y => <<x, y>> \in order \/ <<y, x>> \in order
    <3> TAKE x, y \in hits
    <3>1. x # y => <<x, y>> \in before \/ <<y, x>> \in before
      BY <1>1 DEF TotalOrder
    <3> QED BY <1>3, <2>0, <3>1
  <2> QED
    BY <1>4, <2>1, <2>2, <2>3 DEF TotalOrder
<1> QED
  BY <1>5

\* The cut keeps the front of a ranking and no more than the limit.
LEMMA CutFacts ==
  ASSUME NEW names, IsFiniteSet(names), NEW s \in SetToSeqs(names)
  PROVE  LET c == Cut(s)
             k == IF Cardinality(names) > BM25TopN THEN BM25TopN ELSE Cardinality(names)
         IN  /\ Len(c) = k
             /\ k \in 0..Len(s)
             /\ DOMAIN c = 1..k
             /\ \A i \in 1..k : c[i] = s[i]
<1> DEFINE c == Cut(s)
           k == IF Cardinality(names) > BM25TopN THEN BM25TopN ELSE Cardinality(names)
<1>1. /\ Len(s) = Cardinality(names) /\ Len(s) \in Nat /\ s \in Seq(names)
      /\ s \in [1..Len(s) -> names]
  BY SeqsFacts
<1>2. c = SubSeq(s, 1, k)
  BY <1>1 DEF Cut
<1>3. k \in Nat /\ k <= Len(s)
  BY <1>1, LimitsAssumption
<1> HIDE DEF k
<1>4. \A i \in 1..k : s[i] \in names
  BY <1>1, <1>3
<1>5. /\ SubSeq(s, 1, k) \in Seq(names)
      /\ Len(SubSeq(s, 1, k)) = k
      /\ \A i \in 1..k : SubSeq(s, 1, k)[i] = s[i]
  <2>1. 1 \in Int /\ k \in Int
    BY <1>3
  <2>2. /\ SubSeq(s, 1, k) \in Seq(names)
        /\ Len(SubSeq(s, 1, k)) = IF 1 <= k THEN k - 1 + 1 ELSE 0
        /\ \A i \in 1 .. k - 1 + 1 : SubSeq(s, 1, k)[i] = s[1 + i - 1]
    BY <1>4, <2>1, SubSeqProperties
  <2>3. \A i \in 1..k : i \in 1 .. k - 1 + 1 /\ 1 + i - 1 = i
    BY <1>3
  <2>4. (IF 1 <= k THEN k - 1 + 1 ELSE 0) = k
    BY <1>3
  <2> QED
    BY <2>2, <2>3, <2>4
<1>6. c \in Seq(names) /\ Len(c) = k /\ \A i \in 1..k : c[i] = s[i]
  BY <1>2, <1>5
<1> HIDE DEF c
<1>7. DOMAIN c = 1..k
  BY <1>6
<1> QED
  BY <1>1, <1>3, <1>6, <1>7 DEF k, c

\* Every score an agent may get is a number.
LEMMA ScoresType ==
  ASSUME NEW words, IsFiniteSet(words), \A w \in words : Weight[w] \in Nat,
         NEW sum \in Scores(words)
  PROVE  sum \in Nat
<1>1. PICK s \in SetToSeqs(words) : sum = AddUp(s)
  BY DEF Scores
<1>2. s \in Seq(words)
  BY SeqsFacts
<1> QED
  BY <1>1, <1>2, AddUpType

\* Tier 4 answers with the best: for some scores the additions may give, its
\* agents all have a word of the query, each stands once and by its score, they
\* are as many as the limit allows, and nobody left out outscores one of them.
THEOREM FallbackIsTop ==
  ASSUME NEW reg \in Registries, NEW intent \in Terms, NEW answer \in Bm25Fallback(reg, {intent})
  PROVE  LET hits == {n \in Agents(reg) : reg[n].words \cap WordsOf[intent] # {}}
         IN  \E score \in [hits -> Nat] :
               /\ \A n \in hits : score[n] \in Scores(reg[n].words \cap WordsOf[intent])
               /\ Len(answer) = IF Cardinality(hits) > BM25TopN THEN BM25TopN ELSE Cardinality(hits)
               /\ Len(answer) <= BM25TopN
               /\ ToSet(answer) \subseteq hits
               /\ IsInjective(answer)
               /\ \A i, j \in 1..Len(answer) :
                    i < j => <<answer[i], answer[j]>> \in Outscores(reg, score, hits)
               /\ \A n \in ToSet(answer), m \in hits \ ToSet(answer) :
                    <<n, m>> \in Outscores(reg, score, hits)
<1> DEFINE words == UNION {WordsOf[t] : t \in {intent}}
           hits == {n \in Agents(reg) : reg[n].words \cap words # {}}
           Possible(n) == Scores(reg[n].words \cap words)
<1>1. words = WordsOf[intent]
  OBVIOUS
<1>2. PICK score \in [hits -> UNION {Possible(n) : n \in hits}] :
        /\ \A n \in hits : score[n] \in Possible(n)
        /\ answer = Cut(Arranged(hits, Outscores(reg, score, hits)))
  <2>1. Bm25Fallback(reg, {intent}) =
          {Cut(Arranged(hits, Outscores(reg, score, hits))) : score \in
             {score \in [hits -> UNION {Possible(n) : n \in hits}] : \A n \in hits : score[n] \in Possible(n)}}
    BY DEF Bm25Fallback
  <2> HIDE DEF hits, Possible
  <2> QED BY <2>1
<1>3. hits \in SUBSET Agents(reg) /\ IsFiniteSet(hits)
  <2>1. hits \in SUBSET Agents(reg)
    OBVIOUS
  <2> HIDE DEF hits
  <2> QED BY <2>1, AgentsFinite
<1>4. ASSUME NEW n \in hits PROVE score[n] \in Nat
  <2>1. IsFiniteSet(reg[n].words \cap words)
    <3>1. IsFiniteSet(words) /\ reg[n].words \cap words \in SUBSET words
      BY <1>1, WordsAssumption
    <3> HIDE DEF words
    <3> QED BY <3>1, FS_Subset
  <2>2. \A w \in reg[n].words \cap words : Weight[w] \in Nat
    BY <1>1, WordsAssumption
  <2>3. score[n] \in Scores(reg[n].words \cap words)
    BY <1>2
  <2> QED
    BY <2>1, <2>2, <2>3, ScoresType
<1> DEFINE order == Outscores(reg, score, hits)
           s == Arranged(hits, order)
<1>5. score \in [hits -> Nat]
  <2> HIDE DEF hits, Possible
  <2> QED BY <1>2, <1>4
<1> HIDE DEF hits
<1>6. TotalOrder(order, hits)
  BY <1>3, <1>5, OutscoresOrder
<1> HIDE DEF order
<1>7. s \in SetToSeqs(hits) /\ \A i, j \in 1..Len(s) : i < j => <<s[i], s[j]>> \in order
  BY <1>3, <1>6, ArrangedFacts
<1> HIDE DEF s
<1>8. /\ Len(s) \in Nat /\ s \in [1..Len(s) -> hits] /\ ToSet(s) = hits
      /\ \A i, j \in 1..Len(s) : s[i] = s[j] => i = j
  BY <1>3, <1>7, SeqsFacts
<1> DEFINE k == IF Cardinality(hits) > BM25TopN THEN BM25TopN ELSE Cardinality(hits)
<1>9. /\ Len(answer) = k /\ k \in 0..Len(s) /\ DOMAIN answer = 1..k
      /\ \A i \in 1..k : answer[i] = s[i]
  <2>1. answer = Cut(s)
    BY <1>2 DEF s, order
  <2> QED BY <1>3, <1>7, <2>1, CutFacts
<1>10. k <= BM25TopN
  <2>1. Cardinality(hits) \in Nat
    BY <1>3, FS_CardinalityType
  <2> QED BY <2>1, LimitsAssumption
<1> HIDE DEF k
<1>11. \A i \in 1..k : i \in 1..Len(s)
  BY <1>8, <1>9
<1>12. ToSet(answer) \subseteq hits
  BY <1>8, <1>9, <1>11 DEF ToSet
<1>13. IsInjective(answer)
  BY <1>8, <1>9, <1>11 DEF IsInjective
<1>14. \A i, j \in 1..k : i < j => <<answer[i], answer[j]>> \in order
  BY <1>7, <1>9, <1>11
<1>15. ASSUME NEW n \in ToSet(answer), NEW m \in hits \ ToSet(answer)
       PROVE  <<n, m>> \in order
  <2>1. PICK i \in 1..k : n = s[i]
    BY <1>9 DEF ToSet
  <2>2. PICK j \in 1..Len(s) : m = s[j]
    BY <1>8 DEF ToSet
  <2>3. j \notin 1..k
    BY <1>9, <1>15, <2>2 DEF ToSet
  <2>4. i < j
    BY <1>8, <1>9, <2>1, <2>2, <2>3
  <2> QED
    BY <1>7, <1>11, <2>1, <2>2, <2>4
<1> HIDE DEF words
<1> QED
  BY <1>1, <1>2, <1>5, <1>9, <1>10, <1>12, <1>13, <1>14, <1>15 DEF order, hits, k

\* A query no agent of the registry is related to is left to tier 4.
LEMMA Unrelated ==
  ASSUME NEW reg \in Registries, NEW raw \in SUBSET Terms, ~Resolved(reg, raw)
  PROVE  FindByCapability(reg, raw) = Bm25Fallback(reg, raw)
<1> DEFINE terms == {Normal[t] : t \in raw}
<1>1. ASSUME NEW i \in 1..3, Tiers(reg, terms)[i] # {} PROVE FALSE
  <2>1. PICK n \in Tiers(reg, terms)[i] : TRUE
    BY <1>1
  <2>2. n \in Agents(reg)
    BY <2>1, TierAgents
  <2>3. Relation(reg, raw, n) \in 1..4 /\ Relation(reg, raw, n) <= i
    BY <2>1, <2>2, RelationFacts
  <2> HIDE DEF terms
  <2> QED
    BY <2>2, <2>3 DEF Resolved
<1>2. Found(reg, terms) = {}
  BY <1>1 DEF Found
<1> QED
  BY <1>2 DEF FindByCapability

\* What tiers 1 to 3 resolve is answered with the closest agents, all of them,
\* each once and in their rank.
THEOREM ClosestInRank ==
  ASSUME NEW reg \in Registries, NEW raw \in SUBSET Terms, Resolved(reg, raw),
         NEW answer \in FindByCapability(reg, raw)
  PROVE  /\ ToSet(answer) = Closest(reg, raw)
         /\ IsInjective(answer)
         /\ \A i, j \in 1..Len(answer) : i < j => Before(reg, answer[i], answer[j])
<1>1. answer = RankAgents(reg, Closest(reg, raw))
  BY AnswerIsClosest
<1>2. Closest(reg, raw) \in SUBSET Agents(reg)
  BY DEF Closest
<1> QED
  BY <1>1, <1>2, RankAgentsRanks
=============================================================================
