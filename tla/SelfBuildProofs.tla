-------------------------- MODULE SelfBuildProofs ---------------------------
(***************************************************************************)
(* Proofs about SelfBuild, for any agents, windows, registries and mixes   *)
(* of mechanisms: what the rate limit, the directory of proposals and the  *)
(* drift reports promise whatever the interleaving of polls, reloads,      *)
(* failing writes, time and restarts.                                      *)
(***************************************************************************)
EXTENDS SelfBuild, SequenceTheorems, TLAPS

USE DEF disk

\* No two agents have one file name: what Kept needs of sanitizeName.
NamesApart == \A a, b \in Agents : FileName[a] = FileName[b] => a = b

\* What TypeOK says of the two goroutines.
Watches == [pc : {"idle", "event", "mark"}, next : 1..(MaxEvents + 1),
            upto : 0..MaxEvents, had : 0..MaxEvents]
Analyses == [pc : {"idle", "lookup", "write"}, todo : SUBSET Pairs, drift : SUBSET Pairs]

-----------------------------------------------------------------------------
(* Facts about the helpers. *)

\* Growing older stays within the window and brings zero to one.
LEMMA OlderType ==
  \A n \in 0..Window : Older(n) \in 0..Window /\ Older(n) >= n /\ 0 \in 0..Window /\ Window \in 0..Window
BY BoundsAssumption DEF Older

\* One grows older at least as fast as what is younger.
LEMMA OlderMonotone == \A m, n \in 0..Window : m <= n => Older(m) <= Older(n)
BY BoundsAssumption DEF Older

\* A goroutine that rests is of its type.
LEMMA RestingType ==
  /\ Resting \in Watches /\ NoAnalysis \in Analyses
  /\ \A n \in 0..MaxEvents : [Resting EXCEPT !.had = n] \in Watches
BY BoundsAssumption DEF Resting, NoAnalysis, Watches, Analyses

\* The watcher's next event.
LEMMA NextEventMoves ==
  ASSUME watch \in Watches, NextEvent
  PROVE  watch' = [pc |-> "event", next |-> watch.next + 1, upto |-> watch.upto, had |-> watch.had]
<1> DEFINE w == [watch EXCEPT !.pc = "event"]
<1>1. w = [pc |-> "event", next |-> watch.next, upto |-> watch.upto, had |-> watch.had]
  BY DEF Watches
<1>2. watch' = [w EXCEPT !.next = @ + 1]
  BY DEF NextEvent
<1> QED
  BY <1>1, <1>2

\* A lookup takes one pair off the list, and may add it to the drift.
LEMMA LookUpMoves ==
  ASSUME usage \in Analyses, LookUp
  PROVE  \E p \in usage.todo :
           usage' = [pc |-> "lookup", todo |-> usage.todo \ {p},
                     drift |-> IF p \in registry THEN usage.drift ELSE usage.drift \cup {p}]
<1> PICK p \in usage.todo :
      usage' = [usage EXCEPT !.todo = usage.todo \ {p},
                             !.drift = IF p \in registry THEN usage.drift ELSE usage.drift \cup {p}]
  BY DEF LookUp, Registered
<1> DEFINE t == usage.todo \ {p}
           d == IF p \in registry THEN usage.drift ELSE usage.drift \cup {p}
           u == [usage EXCEPT !.todo = t]
<1>1. u = [pc |-> "lookup", todo |-> t, drift |-> usage.drift]
  BY DEF LookUp, Analyses
<1>2. usage' = [u EXCEPT !.drift = d]
  OBVIOUS
<1> QED
  BY <1>1, <1>2

\* Writing a proposal leaves the directory well typed.
LEMMA PutType ==
  ASSUME TypeOK, NEW p \in Proposals, Put(p)
  PROVE  /\ today' \in [FileNames -> written' \cup {NoFile}]
         /\ written' \subseteq Proposals
         /\ lost' \subseteq written'
<1>1. FileName[p.agent] \in FileNames
  BY NamesAssumption DEF Proposals
<1>2. today' \in [FileNames -> written' \cup {NoFile}] /\ written' \subseteq Proposals
  BY <1>1 DEF Put, TypeOK
<1> QED
  BY <1>1, <1>2 DEF Put, TypeOK

-----------------------------------------------------------------------------
(* The inductive invariant, one conjunct at a time. *)

\* The state before anything runs satisfies all of it.
LEMMA IInvInit == Init => IInv
<1> SUFFICES ASSUME Init PROVE IInv
  OBVIOUS
<1>0. stream \in Seq(Agents \cup {NoAgent}) /\ Len(stream) = 0
  BY DEF Init
<1>a. age = [a \in Agents |-> Window] /\ gap = [a \in Agents |-> Window]
  BY Zenon DEF Init
<1>b. watch = Resting /\ usage = NoAnalysis /\ served = NothingServed
  BY Zenon DEF Init
<1>c. /\ mix \in Mixes /\ registry \in Registries /\ written = {} /\ lost = {}
      /\ today = [n \in FileNames |-> NoFile] /\ parity \in BOOLEAN
  BY Zenon DEF Init
<1>d. age \in [Agents -> 0..Window] /\ gap \in [Agents -> 0..Window]
  BY <1>a, BoundsAssumption
<1>e. today \in [FileNames -> written \cup {NoFile}]
  BY <1>c
<1>f. served \in [observed : SUBSET Pairs, registries : SUBSET Registries]
  BY <1>b DEF NothingServed
<1>1. TypeOK
  BY <1>0, <1>b, <1>c, <1>d, <1>e, <1>f, BoundsAssumption, RestingType DEF TypeOK, Watches, Analyses
<1>2. Watching /\ Analysing /\ DriftExact
  BY DEF Init, Watching, Analysing, DriftExact, Resting, NoAnalysis, NothingServed
<1>3. Aging
  <2>1. \A a \in Agents : age[a] = Window /\ gap[a] = Window
    BY <1>a
  <2>2. Window <= Window
    BY BoundsAssumption
  <2> QED
    BY <2>1, <2>2 DEF Aging
<1> QED
  BY <1>1, <1>2, <1>3 DEF IInv

\* Every step keeps the types.
LEMMA TypeStep == IInv /\ [Next]_vars => TypeOK'
<1> SUFFICES ASSUME IInv, [Next]_vars PROVE TypeOK'
  OBVIOUS
<1>m. mix' = mix
  BY DEF Next, vars
<1> USE <1>m, BoundsAssumption, PairsAssumption DEF IInv, TypeOK, Watches, Analyses
<1>1. CASE Edit
  BY <1>1, AppendProperties DEF Edit
<1>2. CASE HotReload
  BY <1>2 DEF HotReload
<1>3. CASE Tick
  BY <1>3, OlderType DEF Tick
<1>4. CASE Restart
  BY <1>4, OlderType, RestingType DEF Restart, NothingServed
<1>5. CASE Poll
  BY <1>5, RestingType DEF Poll, First
<1>6. CASE Skip
  BY <1>6, NextEventMoves DEF Skip, AtEvent
<1>7. CASE Propose
  <2> DEFINE p == [source |-> "watch", agent |-> Agent, about |-> {<<Agent, watch.next>>}]
  <2>1. p \in Proposals
    BY <1>7 DEF Propose, AtEvent, Events, Proposals
  <2>2. Put(p)
    BY <1>7 DEF Propose
  <2> HIDE DEF p
  <2>3. UNCHANGED <<stream, registry, age, usage, served, parity>> /\ watch' \in Watches
    BY <1>7 DEF Propose
  <2>4. gap' \in [Agents -> 0..Window]
    BY <1>7, OlderType DEF Propose
  <2> QED
    BY <1>7, <2>1, <2>2, <2>3, <2>4, PutType DEF Propose
<1>8. CASE ProposeFails
  BY <1>8, NextEventMoves DEF ProposeFails, AtEvent
<1>9. CASE MarkSeen
  BY <1>9, OlderType, NextEventMoves DEF MarkSeen, Watching
<1>10. CASE EventsDone
  BY <1>10, RestingType DEF EventsDone
<1>11. CASE Fetch
  BY <1>11 DEF Fetch
<1>12. CASE LookUp
  <2>1. UNCHANGED <<stream, registry, disk, age, watch, gap, served, parity>> /\ usage.pc = "lookup"
    BY <1>12 DEF LookUp
  <2>2. PICK p \in usage.todo :
          usage' = [pc |-> "lookup", todo |-> usage.todo \ {p},
                    drift |-> IF p \in registry THEN usage.drift ELSE usage.drift \cup {p}]
    BY <1>12, LookUpMoves
  <2> QED
    BY <2>1, <2>2
<1>13. CASE LookedUp
  BY <1>13 DEF LookedUp
<1>14. CASE Report
  <2> PICK a \in Agents :
         /\ usage' = [usage EXCEPT !.drift = usage.drift \ DriftOf(a)]
         /\ \/ Put([source |-> "usage", agent |-> a, about |-> DriftOf(a)])
            \/ UNCHANGED disk
    BY <1>14 DEF Report
  <2>1. UNCHANGED <<stream, registry, age, watch, gap, served, parity>>
    BY <1>14 DEF Report
  <2>2. [source |-> "usage", agent |-> a, about |-> DriftOf(a)] \in Proposals
    BY DEF DriftOf, Proposals
  <2>3. usage' \in Analyses
    BY DEF DriftOf
  <2> QED
    BY <2>1, <2>2, <2>3, PutType
<1>15. CASE Reported
  BY <1>15, RestingType DEF Reported, NothingServed
<1>16. CASE Inspect
  <2> PICK a \in Agents : Put([source |-> "inspect", agent |-> a, about |-> {}])
    BY <1>16 DEF Inspect
  <2>1. [source |-> "inspect", agent |-> a, about |-> {}] \in Proposals
    BY DEF Proposals
  <2> QED
    BY <1>16, <2>1, PutType DEF Inspect
<1>17. CASE UNCHANGED vars
  BY <1>17 DEF vars
<1> QED
  BY <1>1, <1>2, <1>3, <1>4, <1>5, <1>6, <1>7, <1>8, <1>9, <1>10, <1>11, <1>12, <1>13, <1>14, <1>15, <1>16, <1>17 DEF Next, WatchStep, UsageStep

\* The watcher stays at events it was given: the stream only grows.
LEMMA WatchingStep == IInv /\ [Next]_vars => Watching'
<1> SUFFICES ASSUME IInv, [Next]_vars PROVE Watching'
  OBVIOUS
<1> USE BoundsAssumption DEF IInv, TypeOK, Watching, Watches
<1>1. CASE Edit
  BY <1>1, AppendProperties DEF Edit, Agent
<1>2. CASE HotReload
  BY <1>2 DEF HotReload, Agent
<1>3. CASE Tick
  BY <1>3 DEF Tick, Agent
<1>4. CASE Restart
  BY <1>4 DEF Restart, Resting
<1>5. CASE Poll
  BY <1>5 DEF Poll
<1>6. CASE Skip
  BY <1>6, NextEventMoves DEF Skip, AtEvent
<1>7. CASE Propose
  BY <1>7 DEF Propose, AtEvent, Agent
<1>8. CASE ProposeFails
  BY <1>8, NextEventMoves DEF ProposeFails, AtEvent
<1>9. CASE MarkSeen
  BY <1>9, NextEventMoves DEF MarkSeen
<1>10. CASE EventsDone
  BY <1>10 DEF EventsDone, Resting
<1>11. CASE Fetch
  BY <1>11 DEF Fetch, Agent
<1>12. CASE LookUp
  BY <1>12 DEF LookUp, Agent
<1>13. CASE LookedUp
  BY <1>13 DEF LookedUp, Agent
<1>14. CASE Report
  BY <1>14 DEF Report, Agent
<1>15. CASE Reported
  BY <1>15 DEF Reported, Agent
<1>16. CASE Inspect
  BY <1>16 DEF Inspect, Agent
<1>17. CASE UNCHANGED vars
  BY <1>17 DEF vars, Agent
<1> QED
  BY <1>1, <1>2, <1>3, <1>4, <1>5, <1>6, <1>7, <1>8, <1>9, <1>10, <1>11, <1>12, <1>13, <1>14, <1>15, <1>16, <1>17 DEF Next, WatchStep, UsageStep

\* lastSeen is set when the proposal is on disk, and both age alike.
LEMMA AgingStep == IInv /\ [Next]_vars => Aging'
<1> SUFFICES ASSUME IInv, [Next]_vars PROVE Aging'
  OBVIOUS
<1> USE BoundsAssumption DEF IInv, TypeOK, Watching, Aging, Watches
<1>1. CASE Edit
  BY <1>1, AppendProperties DEF Edit, Marking, Agent
<1>2. CASE HotReload
  BY <1>2 DEF HotReload, Marking, Agent
<1>3. CASE Tick
  <2>1. \A a \in Agents : age[a] <= gap[a] => age'[a] <= gap'[a]
    BY <1>3, OlderMonotone DEF Tick
  <2> QED
    BY <1>3, <2>1 DEF Tick, Marking, Agent
<1>4. CASE Restart
  BY <1>4, OlderType DEF Restart
<1>5. CASE Poll
  BY <1>5 DEF Poll, Marking, Agent
<1>6. CASE Skip
  BY <1>6, NextEventMoves DEF Skip, AtEvent, Marking, Agent
<1>7. CASE Propose
  BY <1>7 DEF Propose, AtEvent, Marking, Agent
<1>8. CASE ProposeFails
  BY <1>8, NextEventMoves DEF ProposeFails, AtEvent, Marking, Agent
<1>9. CASE MarkSeen
  <2>1. \A a \in Agents : age'[a] = IF a = Agent THEN 0 ELSE age[a]
    BY <1>9 DEF MarkSeen
  <2>2. \A a \in Agents : a # Agent => age[a] <= gap[a]
    BY <1>9 DEF MarkSeen, Marking
  <2> QED
    BY <1>9, <2>1, <2>2 DEF MarkSeen
<1>10. CASE EventsDone
  BY <1>10 DEF EventsDone, Resting, Marking, Agent
<1>11. CASE Fetch
  BY <1>11 DEF Fetch, Marking, Agent
<1>12. CASE LookUp
  BY <1>12 DEF LookUp, Marking, Agent
<1>13. CASE LookedUp
  BY <1>13 DEF LookedUp, Marking, Agent
<1>14. CASE Report
  BY <1>14 DEF Report, Marking, Agent
<1>15. CASE Reported
  BY <1>15 DEF Reported, Marking, Agent
<1>16. CASE Inspect
  BY <1>16 DEF Inspect, Marking, Agent
<1>17. CASE UNCHANGED vars
  BY <1>17 DEF vars, Marking, Agent
<1> QED
  BY <1>1, <1>2, <1>3, <1>4, <1>5, <1>6, <1>7, <1>8, <1>9, <1>10, <1>11, <1>12, <1>13, <1>14, <1>15, <1>16, <1>17 DEF Next, WatchStep, UsageStep

\* Each lookup goes by a registry of the analysis; hot reloads only add to them.
LEMMA DriftStep == IInv /\ [Next]_vars => (Analysing /\ DriftExact)'
<1> SUFFICES ASSUME IInv, [Next]_vars PROVE (Analysing /\ DriftExact)'
  OBVIOUS
<1>m. mix' = mix
  BY DEF Next, vars
<1> USE <1>m DEF IInv, TypeOK, Analysing, DriftExact, Analyses
<1>1. CASE Edit
  BY <1>1 DEF Edit
<1>2. CASE HotReload
  BY <1>2 DEF HotReload
<1>3. CASE Tick
  BY <1>3 DEF Tick
<1>4. CASE Restart
  BY <1>4 DEF Restart, NoAnalysis, NothingServed
<1>5. CASE Poll
  BY <1>5 DEF Poll
<1>6. CASE Skip
  BY <1>6 DEF Skip
<1>7. CASE Propose
  BY <1>7 DEF Propose
<1>8. CASE ProposeFails
  BY <1>8 DEF ProposeFails
<1>9. CASE MarkSeen
  BY <1>9 DEF MarkSeen
<1>10. CASE EventsDone
  BY <1>10 DEF EventsDone
<1>11. CASE Fetch
  BY <1>11 DEF Fetch
<1>12. CASE LookUp
  <2>1. UNCHANGED <<stream, registry, disk, age, watch, gap, served, parity>> /\ usage.pc = "lookup"
    BY <1>12 DEF LookUp
  <2>2. PICK p \in usage.todo :
          usage' = [pc |-> "lookup", todo |-> usage.todo \ {p},
                    drift |-> IF p \in registry THEN usage.drift ELSE usage.drift \cup {p}]
    BY <1>12, LookUpMoves
  <2> QED
    BY <2>1, <2>2
<1>13. CASE LookedUp
  BY <1>13 DEF LookedUp
<1>14. CASE Report
  BY <1>14 DEF Report, DriftOf
<1>15. CASE Reported
  BY <1>15 DEF Reported, NoAnalysis, NothingServed
<1>16. CASE Inspect
  BY <1>16 DEF Inspect
<1>17. CASE UNCHANGED vars
  BY <1>17 DEF vars
<1> QED
  BY <1>1, <1>2, <1>3, <1>4, <1>5, <1>6, <1>7, <1>8, <1>9, <1>10, <1>11, <1>12, <1>13, <1>14, <1>15, <1>16, <1>17 DEF Next, WatchStep, UsageStep

\* IInv is inductive.
LEMMA IInvStep == IInv /\ [Next]_vars => IInv'
BY TypeStep, WatchingStep, AgingStep, DriftStep DEF IInv

\* The inductive invariant holds in every reachable state.
THEOREM Invariance == Spec => []IInv
BY IInvInit, IInvStep, PTL DEF Spec

\* Every variable keeps its type: no event is handled twice, and what is on
\* disk today was written.
THEOREM TypeCorrect == Spec => []TypeOK
<1>1. IInv => TypeOK
  BY DEF IInv
<1> QED
  BY <1>1, Invariance, PTL

\* A drift report names only observed pairs that some registry served during
\* the analysis lacks, and all those that each of them lacks.
THEOREM DriftExactHolds == Spec => []DriftExact
<1>1. IInv => DriftExact
  BY DEF IInv
<1> QED
  BY <1>1, Invariance, PTL

\* The watcher writes for an agent at most once per window, however long its
\* steps take and whichever writes fail.
THEOREM RateLimitedHolds == Spec => RateLimited
<1> DEFINE Limited == \A a \in Agents : gap'[a] = 0 /\ gap[a] # 0 => gap[a] >= Window
<1>1. IInv /\ [Next]_vars => [Limited]_vars
  <2> SUFFICES ASSUME IInv, [Next]_vars, NEW a \in Agents, gap'[a] = 0, gap[a] # 0
               PROVE  gap[a] >= Window
    OBVIOUS
  <2> USE BoundsAssumption DEF IInv, TypeOK
  <2>1. CASE Tick
    <3>1. gap'[a] = Older(gap[a])
      BY <2>1 DEF Tick
    <3>2. Older(gap[a]) >= gap[a]
      BY OlderType
    <3> QED
      BY <3>1, <3>2
  <2>2. CASE Restart
    BY <2>2 DEF Restart
  <2>3. CASE Propose
    <3>1. a = Agent /\ age[a] >= Window /\ watch.pc = "event"
      BY <2>3 DEF Propose, AtEvent, Fresh
    <3>2. age[a] <= gap[a]
      BY <3>1 DEF Aging, Marking
    <3> QED
      BY <3>1, <3>2
  <2>4. CASE UNCHANGED gap
    BY <2>4
  <2> QED
    BY <2>1, <2>2, <2>3, <2>4
       DEF Next, WatchStep, UsageStep, Edit, HotReload, Poll, Skip, ProposeFails, MarkSeen,
           EventsDone, Fetch, LookUp, LookedUp, Report, Reported, Inspect, vars
<1> QED
  BY <1>1, Invariance, PTL DEF Spec, RateLimited

-----------------------------------------------------------------------------
(* The directory of proposals, where file names tell the agents apart. *)

\* An agent's file of this second means that lastSeen is of this second too, or
\* about to be: so the watcher, alone, finds no file in its way.
LEMMA PostingStep ==
  ASSUME NamesApart, IInv, Posting, Kept, [Next]_vars
  PROVE  (Posting /\ Kept)'
<1>m. mix' = mix
  BY DEF Next, vars
<1> SUFFICES ASSUME mix = {"watch"}
             PROVE  /\ lost' = {}
                    /\ \A a \in Agents : today'[FileName[a]] = NoFile \/ age'[a] = 0 \/ Marking(a)'
  BY <1>m DEF Posting, Kept
<1>0. lost = {} /\ \A a \in Agents : today[FileName[a]] = NoFile \/ age[a] = 0 \/ Marking(a)
  BY DEF Posting, Kept
<1> USE <1>0, <1>m, NamesAssumption, BoundsAssumption DEF IInv, TypeOK
<1>1. CASE Edit
  <2>1. \A a \in Agents : Marking(a) => Marking(a)'
    BY <1>1, AppendProperties DEF Edit, Marking, Agent, Watching, Watches
  <2> QED
    BY <1>1, <2>1 DEF Edit
<1>2. CASE Tick \/ Restart
  BY <1>2 DEF Tick, Restart
<1>3. CASE Poll \/ Skip \/ ProposeFails \/ EventsDone
  <2>1. \A a \in Agents : ~Marking(a)
    BY <1>3 DEF Poll, Skip, ProposeFails, EventsDone, AtEvent, Marking
  <2> QED
    BY <1>3, <2>1 DEF Poll, Skip, ProposeFails, EventsDone
<1>4. CASE Propose
  <2> DEFINE p == [source |-> "watch", agent |-> Agent, about |-> {<<Agent, watch.next>>}]
  <2>1. /\ Agent \in Agents /\ age[Agent] >= Window /\ watch.pc = "event" /\ Put(p)
        /\ watch' = [watch EXCEPT !.pc = "mark"] /\ UNCHANGED <<stream, age>>
    BY <1>4 DEF Propose, AtEvent, Fresh
  <2>2. \A a \in Agents : ~Marking(a)
    BY <2>1 DEF Marking
  <2>3. today[FileName[Agent]] = NoFile
    BY <2>1, <2>2
  <2>4. p.agent = Agent
    OBVIOUS
  <2>5. \A b \in Agents : b = Agent => Marking(b)'
    BY <2>1 DEF Marking, Agent
  <2> HIDE DEF p
  <2>6. lost' = {}
    BY <2>1, <2>3, <2>4 DEF Put
  <2>7. \A a \in Agents \ {Agent} : today'[FileName[a]] = today[FileName[a]]
    BY <2>1, <2>4 DEF Put, NamesApart
  <2> QED
    BY <2>1, <2>2, <2>5, <2>6, <2>7
<1>5. CASE MarkSeen
  <2>1. \A a \in Agents : age'[a] = 0 \/ (age'[a] = age[a] /\ ~Marking(a))
    BY <1>5 DEF MarkSeen, Marking
  <2> QED
    BY <1>5, <2>1 DEF MarkSeen
<1>6. CASE HotReload \/ Fetch \/ LookUp \/ LookedUp \/ Reported \/ UNCHANGED vars
  BY <1>6 DEF HotReload, Fetch, LookUp, LookedUp, Reported, vars, Marking, Agent
<1>7. CASE Report \/ Inspect
  BY <1>7 DEF Report, Inspect, Analysing
<1> QED
  BY <1>1, <1>2, <1>3, <1>4, <1>5, <1>6, <1>7 DEF Next, WatchStep, UsageStep

\* The watcher alone replaces no proposal that is on disk.
THEOREM KeptHolds == NamesApart => (Spec => []Kept)
<1> SUFFICES ASSUME NamesApart PROVE Spec => []Kept
  OBVIOUS
<1>1. Init => Posting /\ Kept
  BY NamesAssumption DEF Init, Posting, Kept
<1>2. IInv /\ Posting /\ Kept /\ [Next]_vars => (Posting /\ Kept)'
  BY PostingStep
<1> QED
  BY <1>1, <1>2, Invariance, PTL DEF Spec

-----------------------------------------------------------------------------
(* What an agent's turn rests on. *)

\* Proposals are never taken back from the history.
LEMMA ProposedStays ==
  ASSUME [Next]_vars, NEW a, Proposed(a)
  PROVE  Proposed(a)'
<1>1. written \subseteq written'
  BY DEF Next, WatchStep, UsageStep, Edit, HotReload, Tick, Restart, Poll, Skip, Propose,
         ProposeFails, MarkSeen, EventsDone, Fetch, LookUp, LookedUp, Report, Reported,
         Inspect, Put, vars
<1> QED
  BY <1>1 DEF Proposed

\* An agent becomes held back only by markSeen, which follows a write that
\* succeeded, and time and restarts only let go of it.
LEMMA HeldBackStep ==
  ASSUME IInv, HeldBack, [Next]_vars
  PROVE  HeldBack'
<1> SUFFICES ASSUME NEW a \in Agents, ~Fresh(a)' \/ Marking(a)'
             PROVE  Proposed(a)'
  BY DEF HeldBack
<1> USE BoundsAssumption DEF IInv, TypeOK, Watching, Watches
<1>h. ~Fresh(a) \/ Marking(a) => Proposed(a)'
  BY ProposedStays DEF HeldBack
<1>1. CASE Edit
  BY <1>1, <1>h, AppendProperties DEF Edit, Marking, Agent, Fresh
<1>2. CASE Tick
  <2>1. age'[a] = Older(age[a]) /\ Older(age[a]) >= age[a]
    BY <1>2, OlderType DEF Tick
  <2> QED
    BY <1>2, <1>h, <2>1 DEF Tick, Marking, Agent, Fresh
<1>3. CASE Restart
  BY <1>3 DEF Restart, Resting, Marking, Fresh
<1>4. CASE Skip \/ ProposeFails
  BY <1>4, <1>h, NextEventMoves DEF Skip, ProposeFails, Marking, Fresh
<1>5. CASE Propose
  <2>1. CASE a = Agent
    <3>1. [source |-> "watch", agent |-> a, about |-> {<<Agent, watch.next>>}] \in written'
      BY <1>5, <2>1 DEF Propose, Put
    <3> QED
      BY <3>1 DEF Proposed
  <2>2. CASE a # Agent
    BY <1>5, <1>h, <2>2 DEF Propose, Marking, Agent, Fresh
  <2> QED
    BY <2>1, <2>2
<1>6. CASE MarkSeen
  <2>1. watch'.pc = "event" /\ watch.pc = "mark"
    BY <1>6, NextEventMoves DEF MarkSeen
  <2>2. CASE a = Agent
    BY <1>h, <2>1, <2>2 DEF Marking
  <2>3. CASE a # Agent
    <3>1. age'[a] = age[a]
      BY <1>6, <2>3 DEF MarkSeen
    <3> QED
      BY <1>h, <2>1, <3>1 DEF Marking, Fresh
  <2> QED
    BY <2>2, <2>3
<1>7. CASE Poll \/ EventsDone
  BY <1>7, <1>h DEF Poll, EventsDone, Resting, Marking, Fresh
<1>8. CASE HotReload \/ UsageStep \/ Inspect \/ UNCHANGED vars
  BY <1>8, <1>h DEF HotReload, UsageStep, Fetch, LookUp, LookedUp, Report, Reported, Inspect,
                    vars, Marking, Agent, Fresh
<1> QED
  BY <1>1, <1>2, <1>3, <1>4, <1>5, <1>6, <1>7, <1>8 DEF Next, WatchStep

\* Whoever the watcher holds back has a proposal that was written, whatever
\* failed, however long it took and however often the daemon was restarted.
THEOREM HeldBackHolds == Spec => []HeldBack
<1>1. Init => HeldBack
  <2> SUFFICES ASSUME Init PROVE HeldBack
    OBVIOUS
  <2>1. \A a \in Agents : age[a] = Window
    BY DEF Init
  <2>2. watch.pc = "idle"
    BY DEF Init, Resting
  <2> QED
    BY <2>1, <2>2, BoundsAssumption DEF HeldBack, Fresh, Marking
<1>2. IInv /\ HeldBack /\ [Next]_vars => HeldBack'
  BY HeldBackStep
<1> QED
  BY <1>1, <1>2, Invariance, PTL DEF Spec

\* At an event of an agent without a proposal the watcher writes one or fails to:
\* it neither skips the event nor abandons the batch there.
LEMMA EventTried ==
  ASSUME IInv, HeldBack, [Next]_vars, NEW a \in Agents,
         AtEvent, Agent = a, ~Proposed(a), watch' # watch, parity' = parity
  PROVE  Propose \/ ProposeFails
<1>1. Fresh(a)
  BY DEF HeldBack
<1>2. ~Skip
  BY <1>1 DEF Skip
<1>3. ~Poll /\ ~MarkSeen
  BY DEF AtEvent, Poll, MarkSeen
<1>4. ~EventsDone
  BY DEF AtEvent, EventsDone, IInv, TypeOK
<1>5. ~Restart
  BY DEF Restart, IInv, TypeOK
<1>6. ~(Edit \/ HotReload \/ Tick \/ UsageStep \/ Inspect \/ UNCHANGED vars)
  BY DEF Edit, HotReload, Tick, UsageStep, Fetch, LookUp, LookedUp, Report, Reported, Inspect, vars
<1> QED
  BY <1>2, <1>3, <1>4, <1>5, <1>6 DEF Next, WatchStep

\* A watcher at rest is set going by a poll alone, with all the events there are.
LEMMA PollBegins ==
  ASSUME [Next]_vars, Redelivers, watch.pc = "idle", watch'.pc # "idle"
  PROVE  watch'.next = 1 /\ watch'.upto = Len(stream)
<1>1. Poll
  BY DEF Next, WatchStep, UsageStep, Edit, HotReload, Tick, Restart, Resting, Skip, Propose,
         ProposeFails, MarkSeen, AtEvent, EventsDone, Fetch, LookUp, LookedUp, Report, Reported,
         Inspect, vars
<1> QED
  BY <1>1 DEF Poll, First

\* An edited agent that has no proposal is tried at each of its events, in each
\* poll, until a write succeeds.
THEOREM NothingPassedOverHolds == Spec => NothingPassedOver
<1> DEFINE Tried ==
      /\ \A a \in Agents :
           AtEvent /\ Agent = a /\ ~Proposed(a) /\ watch' # watch /\ parity' = parity =>
             Propose \/ ProposeFails
      /\ Redelivers /\ watch.pc = "idle" /\ watch'.pc # "idle" =>
           watch'.next = 1 /\ watch'.upto = Len(stream)
<1>1. IInv /\ HeldBack /\ [Next]_vars => [Tried]_vars
  BY EventTried, PollBegins
<1> QED
  BY <1>1, Invariance, HeldBackHolds, PTL DEF Spec, NothingPassedOver
=============================================================================
