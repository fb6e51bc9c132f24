--------------------------- MODULE GitStoreProofs ---------------------------
(***************************************************************************)
(* Proofs about GitStore, for every set of commits, directories and        *)
(* callers of Reload: type correctness, the inductive invariant IInv, the  *)
(* two safety invariants it implies, and the refinement of SnapshotStore.  *)
(***************************************************************************)
EXTENDS GitStore, TLAPS

USE DEF Procs, InSync, Heads

-----------------------------------------------------------------------------
(* Facts about the helpers. *)

\* Bump stays within the bound and never leaves the naturals.
LEMMA BumpType ==
  \A n \in 0..FailureCap : Bump(n) \in 0..FailureCap
BY FailureCapAssumption DEF Bump

\* The failure count may start at 0: the bound is a natural number.
LEMMA ZeroType == 0 \in 0..FailureCap
BY FailureCapAssumption

\* Removing a directory touches that directory alone.
LEMMA RemovedFacts ==
  ASSUME NEW files \in [Dirs -> Heads \cup {Absent, Empty}], NEW d \in Dirs \cup {NoDir}
  PROVE  /\ Removed(files, d) \in [Dirs -> Heads \cup {Absent, Empty}]
         /\ \A e \in Dirs : e # d => Removed(files, d)[e] = files[e]
BY DirsAssumption DEF Removed

-----------------------------------------------------------------------------
(* Type correctness. *)

\* The state before the first NewGitStore is well typed.
LEMMA TypeInit == Init => TypeOK
BY ZeroType, FaultsAssumption DEF Init, TypeOK

\* Leaving syncNow keeps the goroutine's own variables and the lock well typed.
LEMMA ReturnType ==
  ASSUME TypeOK, NEW p \in Procs, NEW f \in BOOLEAN, Return(p, f)
  PROVE  /\ syncRunMu' \in Procs \cup {Nobody}
         /\ pc' \in [Procs -> InSync \cup {"off", "idle", "lock", "record", "exited"}]
         /\ failed' \in [Procs -> BOOLEAN]
         /\ sha' \in [Procs -> Heads]
         /\ dir' \in [Procs -> Dirs \cup {NoDir}]
         /\ streak' \in 0..FailureCap
BY BumpType, ZeroType DEF TypeOK, Return, Go

\* A sync that fails keeps every variable well typed.
LEMMA FailType ==
  ASSUME TypeOK, NEW p \in Procs, Fail(p)
  PROVE  TypeOK'
<1>1. Return(p, TRUE)
  BY DEF Fail
<1>2. fs' \in [Dirs -> Heads \cup {Absent, Empty}]
  BY RemovedFacts DEF Fail, TypeOK
<1> QED
  BY <1>1, <1>2, ReturnType DEF Fail, TypeOK, process, served

\* A process that ends, by OpenFails or Kill, leaves a well-typed state.
LEMMA GoneType ==
  ASSUME TypeOK, Gone
  PROVE  TypeOK'
BY ZeroType DEF TypeOK, Gone

\* Every step keeps the types.  Progress is needed where a clone is written to
\* or read from: the goroutine must own a directory there.
LEMMA TypeStep == TypeOK /\ Progress /\ [Next]_vars => TypeOK'
<1> SUFFICES ASSUME TypeOK, Progress, [Next]_vars PROVE TypeOK'
  OBVIOUS
<1> USE DEF process, served, locals, history
<1>1. CASE Push
  BY <1>1 DEF Push, TypeOK
<1>2. CASE SetFault
  BY <1>2 DEF SetFault, TypeOK
<1>3. CASE NewGitStore
  BY <1>3 DEF NewGitStore, StaleRemoved, Go, TypeOK
<1>4. CASE Opened
  BY <1>4, ZeroType DEF Opened, TypeOK
<1>5. CASE OpenFails
  BY <1>5, GoneType DEF OpenFails
<1>6. CASE Tick
  BY <1>6 DEF Tick, Go, TypeOK
<1>7. CASE LoopExits
  BY <1>7 DEF LoopExits, Go, TypeOK
<1>8. CASE Close
  BY <1>8 DEF Close, TypeOK
<1>9. CASE TakeDir
  BY <1>9 DEF TakeDir, TypeOK
<1>10. CASE Closed
  BY <1>10, RemovedFacts DEF Closed, TypeOK
<1>11. CASE Kill
  BY <1>11, GoneType DEF Kill
<1>12. ASSUME NEW r \in Reloaders, Reload(r) PROVE TypeOK'
  BY <1>12 DEF Reload, Go, TypeOK
<1>13. ASSUME NEW p \in Procs, Lock(p) PROVE TypeOK'
  <2>1. CASE Unused = {} /\ Fail(p)
    BY <2>1, FailType
  <2>2. CASE ~(Unused = {} /\ Fail(p))
    <3> PICK d \in Unused :
          /\ syncRunMu' = p
          /\ Go(p, "lsremote")
          /\ fs' = [fs EXCEPT ![d] = Empty]
          /\ dir' = [dir EXCEPT ![p] = d]
          /\ UNCHANGED <<origin, fault, process, served, failures, sha, failed, history>>
      BY <1>13, <2>2 DEF Lock
    <3> QED
      BY DEF Unused, Go, TypeOK
  <2> QED BY <2>1, <2>2
<1>14. ASSUME NEW p \in Procs, SyncStep(p) PROVE TypeOK'
  <2>1. CASE LsRemote(p)
    BY <2>1, RemovedFacts DEF LsRemote, Go, TypeOK
  <2>2. CASE Unchanged(p)
    BY <2>2, ReturnType DEF Unchanged, TypeOK
  <2>3. CASE Changed(p)
    <3>1. CASE Unused = {} /\ Fail(p)
      BY <3>1, FailType
    <3>2. CASE ~(Unused = {} /\ Fail(p))
      <4> PICK d \in Unused :
            /\ Go(p, "clone")
            /\ fs' = [fs EXCEPT ![d] = Empty]
            /\ dir' = [dir EXCEPT ![p] = d]
            /\ UNCHANGED <<origin, fault, process, served, syncRunMu, failures, sha, failed, history>>
        BY <2>3, <3>2 DEF Changed
      <4> QED
        BY DEF Unused, Go, TypeOK
    <3> QED BY <3>1, <3>2
  <2>4. CASE Clone(p)
    BY <2>4 DEF Clone, Go, TypeOK
  <2>5. CASE RevParse(p)
    BY <2>5 DEF RevParse, Go, TypeOK
  <2>6. CASE Build(p)
    BY <2>6 DEF Build, Go, TypeOK
  <2>7. CASE Swap(p)
    BY <2>7 DEF Swap, Progress, Cloned, Go, TypeOK
  <2>8. CASE RemoveOld(p)
    BY <2>8, ReturnType, RemovedFacts DEF RemoveOld, TypeOK
  <2>9. CASE RecordSync(p)
    <3>1. failures' \in 0..FailureCap
      BY <2>9, BumpType, ZeroType DEF RecordSync, TypeOK
    <3> QED
      BY <2>9, <3>1 DEF RecordSync, Go, TypeOK
  <2>10. CASE LsRemoteFails(p) \/ CloneFails(p) \/ RevParseFails(p) \/ BuildFails(p)
    BY <2>10, FailType DEF LsRemoteFails, CloneFails, RevParseFails, BuildFails
  <2> QED
    BY <1>14, <2>1, <2>2, <2>3, <2>4, <2>5, <2>6, <2>7, <2>8, <2>9, <2>10 DEF SyncStep
<1>15. CASE UNCHANGED vars
  BY <1>15 DEF vars, TypeOK
<1> QED
  BY <1>1, <1>2, <1>3, <1>4, <1>5, <1>6, <1>7, <1>8, <1>9, <1>10, <1>11, <1>12,
     <1>13, <1>14, <1>15 DEF Next

-----------------------------------------------------------------------------
(* The inductive invariant, one conjunct at a time. *)

\* syncRunMu admits one sync at a time, and no step leaves it but by Return.
LEMMA OneSyncStep == IInv /\ [Next]_vars => OneSync'
<1> SUFFICES ASSUME IInv, [Next]_vars PROVE OneSync'
  OBVIOUS
<1> USE ProcsAssumption DEF IInv, TypeOK, OneSync, Starting, process, served, locals, history
<1>1. CASE Push
  BY <1>1 DEF Push
<1>2. CASE SetFault
  BY <1>2 DEF SetFault
<1>3. CASE NewGitStore
  BY <1>3 DEF NewGitStore, StaleRemoved, Go
<1>4. CASE Opened
  BY <1>4 DEF Opened
<1>5. CASE OpenFails
  BY <1>5 DEF OpenFails, Gone
<1>6. CASE Tick
  BY <1>6 DEF Tick, Go
<1>7. CASE LoopExits
  BY <1>7 DEF LoopExits, Go
<1>8. CASE Close
  BY <1>8 DEF Close
<1>9. CASE TakeDir
  BY <1>9 DEF TakeDir
<1>10. CASE Closed
  BY <1>10 DEF Closed, Removed
<1>11. CASE Kill
  BY <1>11 DEF Kill, Gone
<1>12. ASSUME NEW r \in Reloaders, Reload(r) PROVE OneSync'
  BY <1>12 DEF Reload, Go
<1>13. ASSUME NEW p \in Procs, Fail(p), pc[p] \in {"lock", "lsremote", "compare", "clone", "revparse", "build"}, pc[p] = "lock" => syncRunMu = Nobody
      PROVE OneSync'
  BY <1>13 DEF Fail, Return, Go, Removed
<1>14. ASSUME NEW p \in Procs, Lock(p) PROVE OneSync'
  <2>1. CASE Unused = {} /\ Fail(p)
    BY <2>1, <1>14, <1>13 DEF Lock
  <2>2. CASE ~(Unused = {} /\ Fail(p))
    BY <2>2, <1>14 DEF Lock, Go, Unused
  <2> QED BY <2>1, <2>2
<1>15. ASSUME NEW p \in Procs, SyncStep(p) PROVE OneSync'
  <2>1. CASE LsRemote(p)
    BY <2>1 DEF LsRemote, Go, Removed
  <2>2. CASE Unchanged(p)
    BY <2>2 DEF Unchanged, Return, Go
  <2>3. CASE Clone(p)
    BY <2>3 DEF Clone, Go
  <2>4. CASE RevParse(p)
    BY <2>4 DEF RevParse, Go
  <2>5. CASE Build(p)
    BY <2>5 DEF Build, Go
  <2>6. CASE Swap(p)
    BY <2>6 DEF Swap, Go
  <2>7. CASE RemoveOld(p)
    BY <2>7 DEF RemoveOld, Return, Go, Removed
  <2>8. CASE RecordSync(p)
    BY <2>8 DEF RecordSync, Go
  <2>9. CASE Changed(p)
    <3>1. CASE Unused = {} /\ Fail(p)
      BY <3>1, <2>9, <1>13 DEF Changed
    <3>2. CASE ~(Unused = {} /\ Fail(p))
      BY <3>2, <2>9 DEF Changed, Go, Unused
    <3> QED BY <3>1, <3>2
  <2>10. CASE LsRemoteFails(p) \/ CloneFails(p) \/ RevParseFails(p) \/ BuildFails(p)
    BY <2>10, <1>13 DEF LsRemoteFails, CloneFails, RevParseFails, BuildFails
  <2> QED
    BY <1>15, <2>1, <2>2, <2>3, <2>4, <2>5, <2>6, <2>7, <2>8, <2>9, <2>10 DEF SyncStep
<1>16. CASE UNCHANGED vars
  BY <1>16 DEF vars
<1> QED
  BY <1>1, <1>2, <1>3, <1>4, <1>5, <1>6, <1>7, <1>8, <1>9, <1>10, <1>11, <1>12, <1>13, <1>14, <1>15, <1>16 DEF Next

\* Only the first sync runs while NewGitStore is on its way.
LEMMA StartingStep == IInv /\ [Next]_vars => Starting'
<1> SUFFICES ASSUME IInv, [Next]_vars PROVE Starting'
  OBVIOUS
<1> USE ProcsAssumption DEF IInv, TypeOK, Starting, Serving, process, served, locals, history
<1>1. CASE Push
  BY <1>1 DEF Push
<1>2. CASE SetFault
  BY <1>2 DEF SetFault
<1>3. CASE NewGitStore
  BY <1>3 DEF NewGitStore, StaleRemoved, Go
<1>4. CASE Opened
  BY <1>4 DEF Opened
<1>5. CASE OpenFails
  BY <1>5 DEF OpenFails, Gone
<1>6. CASE Tick
  BY <1>6 DEF Tick, Go
<1>7. CASE LoopExits
  BY <1>7 DEF LoopExits, Go
<1>8. CASE Close
  BY <1>8 DEF Close
<1>9. CASE TakeDir
  BY <1>9 DEF TakeDir
<1>10. CASE Closed
  BY <1>10 DEF Closed, Removed
<1>11. CASE Kill
  BY <1>11 DEF Kill, Gone
<1>12. ASSUME NEW r \in Reloaders, Reload(r) PROVE Starting'
  BY <1>12 DEF Reload, Go
<1>13. ASSUME NEW p \in Procs, Fail(p), pc[p] \in {"lock", "lsremote", "compare", "clone", "revparse", "build"}, pc[p] = "lock" => syncRunMu = Nobody
      PROVE Starting'
  BY <1>13 DEF Fail, Return, Go, Removed
<1>14. ASSUME NEW p \in Procs, Lock(p) PROVE Starting'
  <2>1. CASE Unused = {} /\ Fail(p)
    BY <2>1, <1>14, <1>13 DEF Lock
  <2>2. CASE ~(Unused = {} /\ Fail(p))
    BY <2>2, <1>14 DEF Lock, Go, Unused
  <2> QED BY <2>1, <2>2
<1>15. ASSUME NEW p \in Procs, SyncStep(p) PROVE Starting'
  <2>1. CASE LsRemote(p)
    BY <2>1 DEF LsRemote, Go, Removed
  <2>2. CASE Unchanged(p)
    BY <2>2 DEF Unchanged, Return, Go
  <2>3. CASE Clone(p)
    BY <2>3 DEF Clone, Go
  <2>4. CASE RevParse(p)
    BY <2>4 DEF RevParse, Go
  <2>5. CASE Build(p)
    BY <2>5 DEF Build, Go
  <2>6. CASE Swap(p)
    BY <2>6 DEF Swap, Go
  <2>7. CASE RemoveOld(p)
    BY <2>7 DEF RemoveOld, Return, Go, Removed
  <2>8. CASE RecordSync(p)
    BY <2>8 DEF RecordSync, Go
  <2>9. CASE Changed(p)
    <3>1. CASE Unused = {} /\ Fail(p)
      BY <3>1, <2>9, <1>13 DEF Changed
    <3>2. CASE ~(Unused = {} /\ Fail(p))
      BY <3>2, <2>9 DEF Changed, Go, Unused
    <3> QED BY <3>1, <3>2
  <2>10. CASE LsRemoteFails(p) \/ CloneFails(p) \/ RevParseFails(p) \/ BuildFails(p)
    BY <2>10, <1>13 DEF LsRemoteFails, CloneFails, RevParseFails, BuildFails
  <2> QED
    BY <1>15, <2>1, <2>2, <2>3, <2>4, <2>5, <2>6, <2>7, <2>8, <2>9, <2>10 DEF SyncStep
<1>16. CASE UNCHANGED vars
  BY <1>16 DEF vars
<1> QED
  BY <1>1, <1>2, <1>3, <1>4, <1>5, <1>6, <1>7, <1>8, <1>9, <1>10, <1>11, <1>12, <1>13, <1>14, <1>15, <1>16 DEF Next

\* No step takes the served clone away or replaces it by something else: every
\* directory that is removed or written to is another one.
LEMMA ServingStep == IInv /\ [Next]_vars => Serving'
<1> SUFFICES ASSUME IInv, [Next]_vars PROVE Serving'
  OBVIOUS
<1> USE ProcsAssumption DEF IInv, TypeOK, OneSync, Starting, Serving, Progress, Cloned, process, served, locals, history
<1>1. CASE Push
  BY <1>1, CommitsAssumption, DirsAssumption DEF Push
<1>2. CASE SetFault
  BY <1>2, CommitsAssumption, DirsAssumption DEF SetFault
<1>3. CASE NewGitStore
  BY <1>3, CommitsAssumption, DirsAssumption DEF NewGitStore, StaleRemoved, Go
<1>4. CASE Opened
  BY <1>4, CommitsAssumption, DirsAssumption DEF Opened
<1>5. CASE OpenFails
  BY <1>5, CommitsAssumption, DirsAssumption DEF OpenFails, Gone
<1>6. CASE Tick
  BY <1>6, CommitsAssumption, DirsAssumption DEF Tick, Go
<1>7. CASE LoopExits
  BY <1>7, CommitsAssumption, DirsAssumption DEF LoopExits, Go
<1>8. CASE Close
  BY <1>8, CommitsAssumption, DirsAssumption DEF Close
<1>9. CASE TakeDir
  BY <1>9, CommitsAssumption, DirsAssumption DEF TakeDir
<1>10. CASE Closed
  BY <1>10, CommitsAssumption, DirsAssumption DEF Closed, Removed
<1>11. CASE Kill
  BY <1>11, CommitsAssumption, DirsAssumption DEF Kill, Gone
<1>12. ASSUME NEW r \in Reloaders, Reload(r) PROVE Serving'
  BY <1>12, CommitsAssumption, DirsAssumption DEF Reload, Go
<1>13. ASSUME NEW p \in Procs, Fail(p), pc[p] \in {"lock", "lsremote", "compare", "clone", "revparse", "build"}, pc[p] = "lock" => syncRunMu = Nobody
      PROVE Serving'
  BY <1>13, CommitsAssumption, DirsAssumption DEF Fail, Return, Go, Removed
<1>14. ASSUME NEW p \in Procs, Lock(p) PROVE Serving'
  <2>1. CASE Unused = {} /\ Fail(p)
    BY <2>1, <1>14, <1>13 DEF Lock
  <2>2. CASE ~(Unused = {} /\ Fail(p))
    BY <2>2, <1>14, CommitsAssumption, DirsAssumption DEF Lock, Go, Unused
  <2> QED BY <2>1, <2>2
<1>15. ASSUME NEW p \in Procs, SyncStep(p) PROVE Serving'
  <2>1. CASE LsRemote(p)
    BY <2>1, CommitsAssumption, DirsAssumption DEF LsRemote, Go, Removed
  <2>2. CASE Unchanged(p)
    BY <2>2, CommitsAssumption, DirsAssumption DEF Unchanged, Return, Go
  <2>3. CASE Clone(p)
    BY <2>3, CommitsAssumption, DirsAssumption DEF Clone, Go
  <2>4. CASE RevParse(p)
    BY <2>4, CommitsAssumption, DirsAssumption DEF RevParse, Go
  <2>5. CASE Build(p)
    BY <2>5, CommitsAssumption, DirsAssumption DEF Build, Go
  <2>6. CASE Swap(p)
    BY <2>6, CommitsAssumption, DirsAssumption DEF Swap, Go
  <2>7. CASE RemoveOld(p)
    BY <2>7, CommitsAssumption, DirsAssumption DEF RemoveOld, Return, Go, Removed
  <2>8. CASE RecordSync(p)
    BY <2>8, CommitsAssumption, DirsAssumption DEF RecordSync, Go
  <2>9. CASE Changed(p)
    <3>1. CASE Unused = {} /\ Fail(p)
      BY <3>1, <2>9, <1>13 DEF Changed
    <3>2. CASE ~(Unused = {} /\ Fail(p))
      BY <3>2, <2>9, CommitsAssumption, DirsAssumption DEF Changed, Go, Unused
    <3> QED BY <3>1, <3>2
  <2>10. CASE LsRemoteFails(p) \/ CloneFails(p) \/ RevParseFails(p) \/ BuildFails(p)
    BY <2>10, <1>13 DEF LsRemoteFails, CloneFails, RevParseFails, BuildFails
  <2> QED
    BY <1>15, <2>1, <2>2, <2>3, <2>4, <2>5, <2>6, <2>7, <2>8, <2>9, <2>10 DEF SyncStep
<1>16. CASE UNCHANGED vars
  BY <1>16 DEF vars
<1> QED
  BY <1>1, <1>2, <1>3, <1>4, <1>5, <1>6, <1>7, <1>8, <1>9, <1>10, <1>11, <1>12, <1>13, <1>14, <1>15, <1>16 DEF Next

\* What a sync has established at a label stays true while others step, and
\* each of its own steps establishes what the next label needs.
LEMMA ProgressStep == IInv /\ [Next]_vars => Progress'
<1> SUFFICES ASSUME IInv, [Next]_vars PROVE Progress'
  OBVIOUS
<1> USE ProcsAssumption DEF IInv, TypeOK, OneSync, Starting, Serving, Progress, Cloned, process, served, locals, history
<1>1. CASE Push
  BY <1>1, CommitsAssumption, DirsAssumption DEF Push
<1>2. CASE SetFault
  BY <1>2, CommitsAssumption, DirsAssumption DEF SetFault
<1>3. CASE NewGitStore
  BY <1>3, CommitsAssumption, DirsAssumption DEF NewGitStore, StaleRemoved, Go
<1>4. CASE Opened
  BY <1>4, CommitsAssumption, DirsAssumption DEF Opened
<1>5. CASE OpenFails
  BY <1>5, CommitsAssumption, DirsAssumption DEF OpenFails, Gone
<1>6. CASE Tick
  BY <1>6, CommitsAssumption, DirsAssumption DEF Tick, Go
<1>7. CASE LoopExits
  BY <1>7, CommitsAssumption, DirsAssumption DEF LoopExits, Go
<1>8. CASE Close
  BY <1>8, CommitsAssumption, DirsAssumption DEF Close
<1>9. CASE TakeDir
  BY <1>9, CommitsAssumption, DirsAssumption DEF TakeDir
<1>10. CASE Closed
  BY <1>10, CommitsAssumption, DirsAssumption DEF Closed, Removed
<1>11. CASE Kill
  BY <1>11, CommitsAssumption, DirsAssumption DEF Kill, Gone
<1>12. ASSUME NEW r \in Reloaders, Reload(r) PROVE Progress'
  BY <1>12, CommitsAssumption, DirsAssumption DEF Reload, Go
<1>13. ASSUME NEW p \in Procs, Fail(p), pc[p] \in {"lock", "lsremote", "compare", "clone", "revparse", "build"}, pc[p] = "lock" => syncRunMu = Nobody
      PROVE Progress'
  BY <1>13, CommitsAssumption, DirsAssumption DEF Fail, Return, Go, Removed
<1>14. ASSUME NEW p \in Procs, Lock(p) PROVE Progress'
  <2>1. CASE Unused = {} /\ Fail(p)
    BY <2>1, <1>14, <1>13 DEF Lock
  <2>2. CASE ~(Unused = {} /\ Fail(p))
    BY <2>2, <1>14, CommitsAssumption, DirsAssumption DEF Lock, Go, Unused
  <2> QED BY <2>1, <2>2
<1>15. ASSUME NEW p \in Procs, SyncStep(p) PROVE Progress'
  <2>1. CASE LsRemote(p)
    BY <2>1, CommitsAssumption, DirsAssumption DEF LsRemote, Go, Removed
  <2>2. CASE Unchanged(p)
    BY <2>2, CommitsAssumption, DirsAssumption DEF Unchanged, Return, Go
  <2>3. CASE Clone(p)
    BY <2>3, CommitsAssumption, DirsAssumption DEF Clone, Go
  <2>4. CASE RevParse(p)
    BY <2>4, CommitsAssumption, DirsAssumption DEF RevParse, Go
  <2>5. CASE Build(p)
    BY <2>5, CommitsAssumption, DirsAssumption DEF Build, Go
  <2>6. CASE Swap(p)
    BY <2>6, CommitsAssumption, DirsAssumption DEF Swap, Go
  <2>7. CASE RemoveOld(p)
    BY <2>7, CommitsAssumption, DirsAssumption DEF RemoveOld, Return, Go, Removed
  <2>8. CASE RecordSync(p)
    BY <2>8, CommitsAssumption, DirsAssumption DEF RecordSync, Go
  <2>9. CASE Changed(p)
    <3>1. CASE Unused = {} /\ Fail(p)
      BY <3>1, <2>9, <1>13 DEF Changed
    <3>2. CASE ~(Unused = {} /\ Fail(p))
      BY <3>2, <2>9, CommitsAssumption, DirsAssumption DEF Changed, Go, Unused
    <3> QED BY <3>1, <3>2
  <2>10. CASE LsRemoteFails(p) \/ CloneFails(p) \/ RevParseFails(p) \/ BuildFails(p)
    BY <2>10, <1>13 DEF LsRemoteFails, CloneFails, RevParseFails, BuildFails
  <2> QED
    BY <1>15, <2>1, <2>2, <2>3, <2>4, <2>5, <2>6, <2>7, <2>8, <2>9, <2>10 DEF SyncStep
<1>16. CASE UNCHANGED vars
  BY <1>16 DEF vars
<1> QED
  BY <1>1, <1>2, <1>3, <1>4, <1>5, <1>6, <1>7, <1>8, <1>9, <1>10, <1>11, <1>12, <1>13, <1>14, <1>15, <1>16 DEF Next

\* What a sync knows of origin grows with each push and is handed on by Swap.
LEMMA KnowledgeStep == IInv /\ [Next]_vars => Knowledge'
<1> SUFFICES ASSUME IInv, [Next]_vars PROVE Knowledge'
  OBVIOUS
<1> USE ProcsAssumption DEF IInv, TypeOK, OneSync, Starting, Serving, Progress, Cloned, Knowledge, process, served, locals, history
<1>1. CASE Push
  BY <1>1, CommitsAssumption, DirsAssumption DEF Push
<1>2. CASE SetFault
  BY <1>2, CommitsAssumption, DirsAssumption DEF SetFault
<1>3. CASE NewGitStore
  BY <1>3, CommitsAssumption, DirsAssumption DEF NewGitStore, StaleRemoved, Go
<1>4. CASE Opened
  BY <1>4, CommitsAssumption, DirsAssumption DEF Opened
<1>5. CASE OpenFails
  BY <1>5, CommitsAssumption, DirsAssumption DEF OpenFails, Gone
<1>6. CASE Tick
  BY <1>6, CommitsAssumption, DirsAssumption DEF Tick, Go
<1>7. CASE LoopExits
  BY <1>7, CommitsAssumption, DirsAssumption DEF LoopExits, Go
<1>8. CASE Close
  BY <1>8, CommitsAssumption, DirsAssumption DEF Close
<1>9. CASE TakeDir
  BY <1>9, CommitsAssumption, DirsAssumption DEF TakeDir
<1>10. CASE Closed
  BY <1>10, CommitsAssumption, DirsAssumption DEF Closed, Removed
<1>11. CASE Kill
  BY <1>11, CommitsAssumption, DirsAssumption DEF Kill, Gone
<1>12. ASSUME NEW r \in Reloaders, Reload(r) PROVE Knowledge'
  BY <1>12, CommitsAssumption, DirsAssumption DEF Reload, Go
<1>13. ASSUME NEW p \in Procs, Fail(p), pc[p] \in {"lock", "lsremote", "compare", "clone", "revparse", "build"}, pc[p] = "lock" => syncRunMu = Nobody
      PROVE Knowledge'
  BY <1>13, CommitsAssumption, DirsAssumption DEF Fail, Return, Go, Removed
<1>14. ASSUME NEW p \in Procs, Lock(p) PROVE Knowledge'
  <2>1. CASE Unused = {} /\ Fail(p)
    BY <2>1, <1>14, <1>13 DEF Lock
  <2>2. CASE ~(Unused = {} /\ Fail(p))
    BY <2>2, <1>14, CommitsAssumption, DirsAssumption DEF Lock, Go, Unused
  <2> QED BY <2>1, <2>2
<1>15. ASSUME NEW p \in Procs, SyncStep(p) PROVE Knowledge'
  <2>1. CASE LsRemote(p)
    BY <2>1, CommitsAssumption, DirsAssumption DEF LsRemote, Go, Removed
  <2>2. CASE Unchanged(p)
    BY <2>2, CommitsAssumption, DirsAssumption DEF Unchanged, Return, Go
  <2>3. CASE Clone(p)
    BY <2>3, CommitsAssumption, DirsAssumption DEF Clone, Go
  <2>4. CASE RevParse(p)
    BY <2>4, CommitsAssumption, DirsAssumption DEF RevParse, Go
  <2>5. CASE Build(p)
    BY <2>5, CommitsAssumption, DirsAssumption DEF Build, Go
  <2>6. CASE Swap(p)
    BY <2>6, CommitsAssumption, DirsAssumption DEF Swap, Go
  <2>7. CASE RemoveOld(p)
    BY <2>7, CommitsAssumption, DirsAssumption DEF RemoveOld, Return, Go, Removed
  <2>8. CASE RecordSync(p)
    BY <2>8, CommitsAssumption, DirsAssumption DEF RecordSync, Go
  <2>9. CASE Changed(p)
    <3>1. CASE Unused = {} /\ Fail(p)
      BY <3>1, <2>9, <1>13 DEF Changed
    <3>2. CASE ~(Unused = {} /\ Fail(p))
      BY <3>2, <2>9, CommitsAssumption, DirsAssumption DEF Changed, Go, Unused
    <3> QED BY <3>1, <3>2
  <2>10. CASE LsRemoteFails(p) \/ CloneFails(p) \/ RevParseFails(p) \/ BuildFails(p)
    BY <2>10, <1>13 DEF LsRemoteFails, CloneFails, RevParseFails, BuildFails
  <2> QED
    BY <1>15, <2>1, <2>2, <2>3, <2>4, <2>5, <2>6, <2>7, <2>8, <2>9, <2>10 DEF SyncStep
<1>16. CASE UNCHANGED vars
  BY <1>16 DEF vars
<1> QED
  BY <1>1, <1>2, <1>3, <1>4, <1>5, <1>6, <1>7, <1>8, <1>9, <1>10, <1>11, <1>12, <1>13, <1>14, <1>15, <1>16 DEF Next

\* The inductive invariant holds before the first NewGitStore.
LEMMA IInvInit == Init => IInv
<1> SUFFICES ASSUME Init PROVE IInv
  OBVIOUS
<1>1. TypeOK
  BY TypeInit
<1>2. OneSync /\ Starting /\ Progress
  BY ProcsAssumption DEF Init, OneSync, Starting, Progress, Cloned
<1>3. Serving /\ Knowledge
  BY DEF Init, Serving, Knowledge, Cloned
<1> QED
  BY <1>1, <1>2, <1>3 DEF IInv

\* The inductive invariant is kept by every step.
LEMMA IInvStep == IInv /\ [Next]_vars => IInv'
BY TypeStep, OneSyncStep, StartingStep, ServingStep, ProgressStep, KnowledgeStep DEF IInv

-----------------------------------------------------------------------------
(* The theorems. *)

\* IInv holds in every state: at most one sync runs, and what a sync has
\* established of its clone and of origin stays true until it is done.
THEOREM Invariance == Spec => []IInv
BY IInvInit, IInvStep, PTL DEF Spec

\* The state of the store never leaves its types; in particular curSHA is
\* never the content of a directory that holds no clone.
THEOREM TypeCorrect == Spec => []TypeOK
<1>1. IInv => TypeOK
  BY DEF IInv
<1> QED
  BY <1>1, Invariance, PTL

\* The snapshot, the SHA and the directory served always belong together, and
\* an open store always serves a valid commit (syncNow, NewGitStore, Close).
THEOREM ServedIntactHolds == Spec => []ServedIntact
<1>1. IInv => ServedIntact
  BY DEF IInv, TypeOK, Serving, ServedIntact
<1> QED
  BY <1>1, Invariance, PTL

\* Whenever a sync has succeeded, the snapshot served is a commit origin had
\* during that sync, however many callers reload at once (syncRunMu).
THEOREM ReloadFreshHolds == Spec => []ReloadFresh
<1>1. IInv => ReloadFresh
  BY DEF IInv, Knowledge, Progress, ReloadFresh
<1> QED
  BY <1>1, Invariance, PTL

-----------------------------------------------------------------------------
(* Refinement: every step of the store is a step of SnapshotStore. *)

\* Initial states of the store are initial states of the abstract one.
LEMMA AbstractInit == Init => Abstract!Init
BY DEF Init, Abstract!Init

\* Only five kinds of step touch origin, snap or since.
LEMMA AbstractStep == IInv /\ [Next]_vars => [Abstract!Next]_Abstract!vars
<1> SUFFICES ASSUME IInv, [Next]_vars
             PROVE  Abstract!Next \/ UNCHANGED Abstract!vars
  OBVIOUS
<1> USE DEF Abstract!vars, process, served, locals, history
<1>1. CASE Push
  BY <1>1 DEF Push, Abstract!Next, Abstract!Publish
<1>2. ASSUME Gone PROVE Abstract!Next
  BY <1>2 DEF Gone, Abstract!Next, Abstract!Stop
<1>3. ASSUME NEW p \in Procs, Unchanged(p) PROVE Abstract!Next
  \* What is served is still at origin: a refresh that confirms it.
  <2>0. snap \in Valid \cup {NoCommit}
    BY DEF IInv, TypeOK
  <2>1. snap' \in since \cap Valid
    BY <1>3, <2>0 DEF Unchanged, IInv, Serving, Progress, Knowledge
  <2>2. since' \in SUBSET since /\ {snap', origin} \subseteq since'
    BY <1>3 DEF Unchanged, IInv, Serving, Progress, Knowledge
  <2> QED
    BY <1>3, <2>1, <2>2 DEF Unchanged, Abstract!Next, Abstract!Refresh
<1>4. ASSUME NEW p \in Procs, Swap(p) PROVE Abstract!Next
  <2>1. snap' = sha[p] /\ sha[p] \in Valid
    BY <1>4 DEF Swap, IInv, Progress
  <2>2. sha[p] \in seen[p] /\ origin \in seen[p] /\ seen[p] \subseteq since
    BY <1>4 DEF Swap, IInv, Knowledge, Cloned
  <2> QED
    BY <1>4, <2>1, <2>2 DEF Swap, Abstract!Next, Abstract!Refresh
<1>5. ASSUME NEW p \in Procs, Fail(p) PROVE UNCHANGED Abstract!vars
  BY <1>5 DEF Fail
<1>6. ASSUME NEW p \in Procs, Lock(p) \/ SyncStep(p)
      PROVE  Abstract!Next \/ UNCHANGED Abstract!vars
  <2>1. CASE Lock(p) \/ Changed(p)
    BY <2>1, <1>5 DEF Lock, Changed
  <2>2. CASE LsRemoteFails(p) \/ CloneFails(p) \/ RevParseFails(p) \/ BuildFails(p)
    BY <2>2, <1>5 DEF LsRemoteFails, CloneFails, RevParseFails, BuildFails
  <2>3. CASE LsRemote(p) \/ Clone(p) \/ RevParse(p) \/ Build(p)
    BY <2>3 DEF LsRemote, Clone, RevParse, Build
  <2>4. CASE RemoveOld(p) \/ RecordSync(p)
    BY <2>4 DEF RemoveOld, RecordSync
  <2> QED
    BY <1>3, <1>4, <1>6, <2>1, <2>2, <2>3, <2>4 DEF SyncStep
<1>7. CASE SetFault \/ NewGitStore \/ Opened \/ Tick \/ LoopExits \/ Close \/ TakeDir \/ Closed
  BY <1>7 DEF SetFault, NewGitStore, Opened, Tick, LoopExits, Close, TakeDir, Closed
<1>8. ASSUME NEW r \in Reloaders, Reload(r) PROVE UNCHANGED Abstract!vars
  BY <1>8 DEF Reload
<1>9. CASE UNCHANGED vars
  BY <1>9 DEF vars
<1> QED
  BY <1>1, <1>2, <1>6, <1>7, <1>8, <1>9 DEF Next, OpenFails, Kill

\* GitStore implements SnapshotStore: readers only ever see whole, valid
\* snapshots, and never one that origin had left before the one they saw last
\* was found there.
THEOREM Refinement == Spec => ImplementsSnapshotStore
<1>1. Init => Abstract!Init
  BY AbstractInit
<1>2. IInv /\ [Next]_vars => [Abstract!Next]_Abstract!vars
  BY AbstractStep
<1> QED
  BY <1>1, <1>2, Invariance, PTL DEF Spec, ImplementsSnapshotStore, Abstract!Spec

-----------------------------------------------------------------------------
(* The daemon runs the poll loop alone: nothing calls Reload. *)

\* A sync that has returned is the only one, and its outcome is the last the
\* streak counts; without one the count is the streak.
Counted ==
  /\ \A p \in Procs : pc[p] = "record" => streak = IF failed[p] THEN Bump(failures) ELSE 0
  /\ (\A p \in Procs : pc[p] # "record") => failures = streak

\* Once Close has taken the directory there is nobody left to swap.
LoopGone == life \in {"removing", "closed"} => pc["poll"] = "exited" /\ curDir = NoDir

\* Before the first NewGitStore nothing is counted and nothing is closed.
LEMMA SoloInit == Init => Counted /\ LoopGone
BY DEF Init, Counted, LoopGone, Bump

\* Without callers of Reload the count follows the streak and a loop that has
\* exited stays so, until the process ends.
LEMMA SoloStep ==
  ASSUME Reloaders = {}, IInv, Counted, LoopGone, [Next]_vars
  PROVE  (Counted /\ LoopGone)'
<1> DEFINE Solo == Counted /\ LoopGone
<1> SUFFICES Solo'
  OBVIOUS
<1> USE ProcsAssumption DEF IInv, TypeOK, OneSync, Starting, InSync, Procs, Counted, LoopGone, process, served, locals, history
<1>1. CASE Push
  BY <1>1 DEF Push
<1>2. CASE SetFault
  BY <1>2 DEF SetFault
<1>3. CASE NewGitStore
  BY <1>3 DEF NewGitStore, StaleRemoved, Go
<1>4. CASE Opened
  BY <1>4 DEF Opened
<1>5. CASE OpenFails
  BY <1>5 DEF OpenFails, Gone
<1>6. CASE Tick
  BY <1>6 DEF Tick, Go
<1>7. CASE LoopExits
  BY <1>7 DEF LoopExits, Go
<1>8. CASE Close
  BY <1>8 DEF Close
<1>9. CASE TakeDir
  BY <1>9 DEF TakeDir
<1>10. CASE Closed
  BY <1>10 DEF Closed, Removed
<1>11. CASE Kill
  BY <1>11 DEF Kill, Gone
<1>12. ASSUME NEW r \in Reloaders, Reload(r) PROVE Solo'
  BY <1>12
<1>13. ASSUME NEW p \in Procs, NEW f \in BOOLEAN, Return(p, f), UNCHANGED <<failures, life, curDir>>,
              pc[p] \in InSync \cup {"lock"}
       PROVE  Solo'
  <2>1. \A q \in Procs : pc[q] # "record"
    BY <1>13
  <2>2. failures = streak
    BY <2>1
  <2>3. LoopGone'
    BY <1>13 DEF Return, Go
  <2>4. pc'[p] = "record" /\ failed'[p] = f /\ \A q \in Procs \ {p} : pc'[q] # "record"
    BY <1>13, <2>1 DEF Return, Go
  <2>5. Counted'
    BY <1>13, <2>2, <2>4 DEF Return, Bump
  <2> QED BY <2>3, <2>5
<1>14. ASSUME NEW p \in Procs, Fail(p), pc[p] \in InSync \cup {"lock"} PROVE Solo'
  BY <1>14, <1>13 DEF Fail
<1>15. ASSUME NEW p \in Procs, Lock(p) PROVE Solo'
  <2>1. CASE Unused = {} /\ Fail(p)
    BY <2>1, <1>15, <1>14 DEF Lock
  <2>2. CASE ~(Unused = {} /\ Fail(p))
    BY <2>2, <1>15 DEF Lock, Go, Unused
  <2> QED BY <2>1, <2>2
<1>16. ASSUME NEW p \in Procs, SyncStep(p) PROVE Solo'
  <2>1. CASE LsRemote(p)
    BY <2>1 DEF LsRemote, Go, Removed
  <2>2. CASE Unchanged(p)
    BY <2>2, <1>13 DEF Unchanged
  <2>3. CASE Clone(p)
    BY <2>3 DEF Clone, Go
  <2>4. CASE RevParse(p)
    BY <2>4 DEF RevParse, Go
  <2>5. CASE Build(p)
    BY <2>5 DEF Build, Go
  <2>6. CASE Swap(p)
    BY <2>6 DEF Swap, Go
  <2>7. CASE RemoveOld(p)
    BY <2>7, <1>13 DEF RemoveOld
  <2>8. CASE RecordSync(p)
    BY <2>8 DEF RecordSync, Go, Bump
  <2>9. CASE Changed(p)
    <3>1. CASE Unused = {} /\ Fail(p)
      BY <3>1, <2>9, <1>14 DEF Changed
    <3>2. CASE ~(Unused = {} /\ Fail(p))
      BY <3>2, <2>9 DEF Changed, Go, Unused
    <3> QED BY <3>1, <3>2
  <2>10. CASE LsRemoteFails(p) \/ CloneFails(p) \/ RevParseFails(p) \/ BuildFails(p)
    BY <2>10, <1>14 DEF LsRemoteFails, CloneFails, RevParseFails, BuildFails
  <2> QED
    BY <1>16, <2>1, <2>2, <2>3, <2>4, <2>5, <2>6, <2>7, <2>8, <2>9, <2>10 DEF SyncStep
<1>17. CASE UNCHANGED vars
  BY <1>17 DEF vars
<1> QED
  BY <1>1, <1>2, <1>3, <1>4, <1>5, <1>6, <1>7, <1>8, <1>9, <1>10, <1>11, <1>12, <1>15, <1>16, <1>17 DEF Next

\* Where nothing calls Reload, as in the daemon, the failure count readyz looks
\* at is the number of failed syncs since the last success (recordSync).
THEOREM StatusTrue == ASSUME Reloaders = {} PROVE Spec => []StatusAtRest
<1>1. Counted /\ LoopGone => StatusAtRest
  BY DEF Counted, StatusAtRest
<1>2. IInv /\ Counted /\ LoopGone /\ [Next]_vars => (Counted /\ LoopGone)'
  BY SoloStep
<1> QED
  BY <1>1, <1>2, SoloInit, Invariance, PTL DEF Spec

\* Where nothing calls Reload, no clone is swapped in once Close has taken the
\* served directory (Close waits for pollLoop).
THEOREM NothingAfterClose == ASSUME Reloaders = {} PROVE Spec => []ClosedClean
<1>1. Counted /\ LoopGone => ClosedClean
  BY DEF LoopGone, ClosedClean
<1>2. IInv /\ Counted /\ LoopGone /\ [Next]_vars => (Counted /\ LoopGone)'
  BY SoloStep
<1> QED
  BY <1>1, <1>2, SoloInit, Invariance, PTL DEF Spec
-----------------------------------------------------------------------------
(* Where directories can be removed, none is left behind. *)

\* A new directory belongs to the sync that made it, and every other one keeps
\* its owner.
LEMMA OwnedMake ==
  ASSUME IInv, Owned, NEW p \in Procs, dir[p] = NoDir, NEW d \in Dirs, d \in Unused,
         fs' = [fs EXCEPT ![d] = Empty], dir' = [dir EXCEPT ![p] = d],
         NEW l \in {"lsremote", "clone"}, Go(p, l), UNCHANGED <<life, curDir, closing>>
  PROVE  Owned'
<1>1. dir'[p] = d /\ \A q \in Procs : q # p => dir'[q] = dir[q]
  BY DEF IInv, TypeOK
<1>2. Existing' \subseteq Existing \cup {d}
  BY DEF Existing, IInv, TypeOK
<1>3. \A e \in Existing : e = dir[p] => FALSE
  BY DirsAssumption DEF Existing
<1>4. \A e \in Existing' : (\E q \in Procs : e = dir[q]) => \E q \in Procs : e = dir'[q]
  BY <1>1, <1>2, <1>3
<1>5. \A q \in Procs : pc'[q] = "compare" => q # p /\ pc[q] = "compare"
  BY DEF Go, IInv, TypeOK
<1> QED
  BY <1>1, <1>2, <1>4, <1>5 DEF Owned

\* A sync that lets go of its directory has removed it.
LEMMA OwnedDrop ==
  ASSUME IInv, Owned, fault # "norm", NEW p \in Procs, fs' = Removed(fs, dir[p]),
         dir' = [dir EXCEPT ![p] = NoDir], NEW l, Go(p, l), UNCHANGED <<life, curDir, closing>>
  PROVE  Owned'
<1>1. dir'[p] = NoDir /\ \A q \in Procs : q # p => dir'[q] = dir[q]
  BY DEF IInv, TypeOK
<1>2. Existing' = Existing \ {dir[p]}
  BY DirsAssumption DEF Existing, Removed, IInv, TypeOK
<1>3. \A e \in Existing' : (\E q \in Procs : e = dir[q]) => \E q \in Procs : e = dir'[q]
  BY <1>1, <1>2
<1>4. \A q \in Procs : pc'[q] = "compare" => q = p \/ pc[q] = "compare"
  BY DEF Go, IInv, TypeOK
<1> QED
  BY <1>1, <1>2, <1>3, <1>4 DEF Owned

\* A sync that fails removes what it has made.
LEMMA OwnedFail ==
  ASSUME IInv, Owned, fault # "norm", NEW p \in Procs, Fail(p)
  PROVE  Owned'
BY OwnedDrop DEF Fail, Return, process, served

\* A step that touches no directory and brings nobody to "compare" changes no
\* owner.
LEMMA OwnedKeep ==
  ASSUME IInv, Owned, UNCHANGED <<fs, life, curDir, closing, dir>>,
         \A q \in Procs : pc'[q] = "compare" => pc[q] = "compare"
  PROVE  Owned'
BY DEF Owned, Existing

\* No step of a process that can remove directories leaves one without an
\* owner: a scratch directory, a failed clone, the clone a swap replaced, the
\* clone Close took, or what a killed process left.
LEMMA OwnedStep ==
  ASSUME IInv, Owned, fault # "norm", [Next]_vars
  PROVE  Owned'
<1> USE DEF process, served, locals, history
<1>0. pc \in [Procs -> InSync \cup {"off", "idle", "lock", "record", "exited"}]
  BY DEF IInv, TypeOK
<1>1. CASE Push
  BY <1>1, OwnedKeep DEF Push
<1>2. CASE SetFault
  BY <1>2, OwnedKeep DEF SetFault
<1>3. CASE NewGitStore
  <2>1. Existing' = {}
    BY <1>3 DEF NewGitStore, StaleRemoved, Existing
  <2>2. \A p \in Procs : pc'[p] # "compare"
    BY <1>3, <1>0, ProcsAssumption DEF NewGitStore, Go, IInv, Starting
  <2>3. closing' = NoDir
    BY <1>3 DEF NewGitStore, IInv, Starting
  <2> QED
    BY <2>1, <2>2, <2>3 DEF Owned
<1>4. CASE Opened
  <2>1. closing = NoDir
    BY <1>4 DEF Opened, IInv, Starting, Owned
  <2>2. life # "down"
    BY <1>4 DEF Opened, IInv, Starting
  <2>3. \A p \in Procs : pc'[p] # "compare"
    BY <1>4 DEF Opened
  <2> QED
    BY <1>4, <2>1, <2>2, <2>3 DEF Opened, Owned, Existing
<1>5. CASE Gone
  BY <1>5 DEF Gone, Owned
<1>6. CASE Tick
  BY <1>6, <1>0, OwnedKeep DEF Tick, Go
<1>7. CASE LoopExits
  BY <1>7, <1>0, OwnedKeep DEF LoopExits, Go
<1>8. CASE Close
  BY <1>8 DEF Close, Owned, Existing
<1>9. CASE TakeDir
  \* The served clone changes hands: Close owned nothing before.
  <2>1. closing = NoDir /\ life # "down"
    BY <1>9 DEF TakeDir, Owned
  <2>2. Existing' = Existing /\ UNCHANGED <<pc, dir>> /\ closing' = curDir /\ life' = "removing"
    BY <1>9 DEF TakeDir, Existing
  <2>3. \A d \in Existing : d # closing
    BY <2>1, DirsAssumption DEF Existing
  <2> QED
    BY <2>1, <2>2, <2>3 DEF Owned
<1>10. CASE Closed
  <2>1. Existing' = Existing \ {closing} /\ UNCHANGED <<curDir, pc, dir>>
        /\ closing' = NoDir /\ life # "down"
    BY <1>10, DirsAssumption DEF Closed, Existing, Removed, IInv, TypeOK
  <2> QED
    BY <2>1 DEF Owned
<1>11. ASSUME NEW r \in Reloaders, Reload(r) PROVE Owned'
  BY <1>11, <1>0, OwnedKeep DEF Reload, Go
<1>12. ASSUME NEW p \in Procs, Lock(p) PROVE Owned'
  <2>1. CASE Unused = {} /\ Fail(p)
    BY <2>1, OwnedFail
  <2>2. CASE ~(Unused = {} /\ Fail(p))
    <3>1. dir[p] = NoDir
      BY <1>12 DEF Lock, IInv, OneSync
    <3>2. PICK d \in Unused :
            /\ Go(p, "lsremote")
            /\ fs' = [fs EXCEPT ![d] = Empty]
            /\ dir' = [dir EXCEPT ![p] = d]
            /\ UNCHANGED <<process, served>>
      BY <1>12, <2>2 DEF Lock
    <3>3. d \in Dirs
      BY <3>2 DEF Unused
    <3> QED
      BY <3>1, <3>2, <3>3, OwnedMake
  <2> QED BY <2>1, <2>2
<1>13. ASSUME NEW p \in Procs, SyncStep(p) PROVE Owned'
  <2>1. CASE LsRemote(p)
    BY <2>1, OwnedDrop DEF LsRemote
  <2>2. CASE Unchanged(p)
    <3>1. dir[p] = NoDir
      BY <2>2 DEF Unchanged, Owned
    <3>2. dir' = dir
      BY <2>2, <3>1 DEF Unchanged, Return, IInv, TypeOK
    <3> QED
      BY <2>2, <3>2, <1>0, OwnedKeep DEF Unchanged, Return, Go
  <2>3. CASE Changed(p)
    <3>1. CASE Unused = {} /\ Fail(p)
      BY <3>1, OwnedFail
    <3>2. CASE ~(Unused = {} /\ Fail(p))
      <4>1. dir[p] = NoDir
        BY <2>3 DEF Changed, Owned
      <4>2. PICK d \in Unused :
              /\ Go(p, "clone")
              /\ fs' = [fs EXCEPT ![d] = Empty]
              /\ dir' = [dir EXCEPT ![p] = d]
              /\ UNCHANGED <<process, served>>
        BY <2>3, <3>2 DEF Changed
      <4>3. d \in Dirs
        BY <4>2 DEF Unused
      <4> QED
        BY <4>1, <4>2, <4>3, OwnedMake
    <3> QED BY <3>1, <3>2
  <2>4. CASE Clone(p)
    <3>1. dir[p] \in Dirs /\ dir[p] # NoDir
      BY <2>4 DEF Clone, IInv, TypeOK, Progress, Cloned
    <3>2. Existing' \subseteq Existing \cup {dir[p]}
      BY <2>4 DEF Clone, Existing, IInv, TypeOK
    <3>3. \A q \in Procs : pc'[q] = "compare" => pc[q] = "compare"
      BY <2>4, <1>0 DEF Clone, Go
    <3> QED
      BY <2>4, <3>2, <3>3 DEF Clone, Owned
  <2>5. CASE RevParse(p)
    BY <2>5, <1>0, OwnedKeep DEF RevParse, Go
  <2>6. CASE Build(p)
    BY <2>6, <1>0, OwnedKeep DEF Build, Go
  <2>7. CASE Swap(p)
    \* The sync hands its clone over and gets the one it replaces.
    <3>1. dir'[p] = curDir /\ curDir' = dir[p] /\ \A q \in Procs : q # p => dir'[q] = dir[q]
      BY <2>7 DEF Swap, IInv, TypeOK
    <3>2. \A q \in Procs : pc'[q] = "compare" => q # p /\ pc[q] = "compare"
      BY <2>7, <1>0 DEF Swap, Go
    <3>3. Existing' = Existing /\ UNCHANGED <<life, closing>>
      BY <2>7 DEF Swap, Existing
    <3>4. \A d \in Existing : d = curDir \/ (\E q \in Procs : d = dir[q])
            => d = curDir' \/ (\E q \in Procs : d = dir'[q])
      BY <3>1
    <3> QED
      BY <3>1, <3>2, <3>3, <3>4 DEF Owned
  <2>8. CASE RemoveOld(p)
    BY <2>8, OwnedDrop DEF RemoveOld, Return
  <2>9. CASE RecordSync(p)
    BY <2>9, <1>0, OwnedKeep DEF RecordSync, Go
  <2>10. CASE LsRemoteFails(p) \/ CloneFails(p) \/ RevParseFails(p) \/ BuildFails(p)
    BY <2>10, OwnedFail DEF LsRemoteFails, CloneFails, RevParseFails, BuildFails
  <2> QED
    BY <1>13, <2>1, <2>2, <2>3, <2>4, <2>5, <2>6, <2>7, <2>8, <2>9, <2>10 DEF SyncStep
<1>14. CASE UNCHANGED vars
  BY <1>14, OwnedKeep DEF vars
<1> QED
  BY <1>1, <1>2, <1>3, <1>4, <1>5, <1>6, <1>7, <1>8, <1>9, <1>10, <1>11, <1>12, <1>13,
     <1>14 DEF Next, OpenFails, Kill

\* Before the first NewGitStore there is no directory.
LEMMA OwnedInit == Init => Owned
BY DEF Init, Owned

\* An open store between two syncs owns the served clone and no other.
LEMMA OwnedClean == IInv /\ Owned => CacheClean
<1> SUFFICES ASSUME IInv, Owned, life = "serving", syncRunMu = Nobody
             PROVE  Existing = {curDir}
  BY DEF CacheClean
<1>1. \A p \in Procs : dir[p] = NoDir
  BY ProcsAssumption DEF IInv, OneSync
<1>2. curDir \in Existing
  BY DirsAssumption, CommitsAssumption DEF IInv, TypeOK, Serving, Existing
<1>3. \A d \in Existing : d # NoDir
  BY DirsAssumption DEF Existing
<1>4. closing = NoDir
  BY DEF Owned
<1> QED
  BY <1>1, <1>2, <1>3, <1>4 DEF Owned

\* As long as directories can be removed, an open store at rest has the clone it
\* serves in its cache directory and nothing else, after whatever failures,
\* kills and restarts (removeDir, removeStaleDirs, Close).
THEOREM CacheCleanHolds == Spec /\ [](fault # "norm") => []CacheClean
<1>1. IInv /\ Owned /\ fault # "norm" /\ [Next]_vars => Owned'
  BY OwnedStep
<1> QED
  BY <1>1, OwnedInit, OwnedClean, Invariance, PTL DEF Spec
=============================================================================
