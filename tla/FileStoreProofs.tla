-------------------------- MODULE FileStoreProofs ---------------------------
(***************************************************************************)
(* Proofs about FileStore, for every set of files, entries, values and     *)
(* callers of Reload: the inductive invariant IInv, what is served is      *)
(* valid, and the refinement of ObservedRegistry.                          *)
(***************************************************************************)
EXTENDS FileStore, TLAPS

USE DEF Procs, At, files

\* A job while it loads, waits or rests; what TypeOK says of each.
Jobs == [pc : {"off", "idle", "lock", "vocab", "list", "read"},
         vocab : Vocabularies \cup {Unread},
         view : [Files -> Entries \cup {Gone, Unread}]]

-----------------------------------------------------------------------------
(* Facts about the helpers. *)

\* The vocabulary a load goes by is one, and has been read.
LEMMA MergeType ==
  ASSUME NEW v \in Vocabularies
  PROVE  Merge(v) \in Vocabularies
BY EntriesAssumption DEF Merge, Vocabularies

\* Nothing that marks an unread vocabulary is one.
LEMMA UnreadVocab == Unread \notin Vocabularies
BY MarkersAssumption DEF Vocabularies

\* A job that has ended holds nothing.
LEMMA NoJobType == NoJob \in Jobs /\ [NoJob EXCEPT !.pc = "idle"] \in Jobs
BY DEF NoJob, Blank, Jobs

\* A job that has read nothing is sound, wherever it is before "list".
LEMMA SoundBlank ==
  ASSUME NEW pc \in {"off", "idle", "lock", "vocab"}
  PROVE  Sound([pc |-> pc, vocab |-> Unread, view |-> Blank])
<1> DEFINE j == [pc |-> pc, vocab |-> Unread, view |-> Blank]
<1>1. Keeping(j) = {} /\ \A f \in Files : j.view[f] \notin Broken
  BY EntriesAssumption DEF Keeping, Blank
<1> QED
  BY <1>1 DEF Sound

\* A job that has ended is sound.
LEMMA SoundNoJob == Sound(NoJob) /\ Sound([NoJob EXCEPT !.pc = "idle"])
<1>1. NoJob = [pc |-> "off", vocab |-> Unread, view |-> Blank]
  BY DEF NoJob
<1>2. [NoJob EXCEPT !.pc = "idle"] = [pc |-> "idle", vocab |-> Unread, view |-> Blank]
  BY DEF NoJob
<1> QED
  BY <1>1, <1>2, SoundBlank

\* A job that goes on to a label before "list" stays sound.
LEMMA SoundMoves ==
  ASSUME NEW j \in Jobs, Sound(j), j.pc \in {"off", "idle", "lock", "vocab"},
         NEW pc \in {"off", "idle", "lock", "vocab"}
  PROVE  Sound([j EXCEPT !.pc = pc])
<1>1. [j EXCEPT !.pc = pc] = [pc |-> pc, vocab |-> Unread, view |-> Blank]
  BY DEF Sound, Jobs
<1> QED
  BY <1>1, SoundBlank

\* The vocabulary that ReadVocab finds has a type.
LEMMA VocabRead ==
  ASSUME TypeOK, HasVocab => vocabFile # Bad
  PROVE  (IF HasVocab THEN vocabFile ELSE Open) \in Vocabularies
BY SwitchAssumption DEF TypeOK, Vocabularies

-----------------------------------------------------------------------------
(* The inductive invariant, one conjunct at a time. *)

\* The state before NewFileStore satisfies all of it.
LEMMA IInvInit == Init => IInv
<1> SUFFICES ASSUME Init PROVE IInv
  OBVIOUS
<1>1. TypeOK
  BY NoJobType DEF Init, TypeOK, NoSnapshot, Vocabularies, Jobs
<1>2. Locking
  BY ProcsAssumption DEF Init, Locking, NoJob, Holding
<1>3. Reading
  BY SoundNoJob DEF Init, Reading
<1>4. ServedValid
  BY DEF Init, ServedValid, NoSnapshot
<1> QED
  BY <1>1, <1>2, <1>3, <1>4 DEF IInv

\* Every step keeps the types; a vocabulary that is swapped in has been read.
LEMMA TypeStep == IInv /\ [Next]_vars => TypeOK'
<1> SUFFICES ASSUME IInv, [Next]_vars PROVE TypeOK'
  OBVIOUS
<1> USE NoJobType DEF IInv, TypeOK, Jobs
<1>1. CASE EditEntry
  <2>1. disk' \in [Files -> Entries \cup {Gone}]
    BY <1>1 DEF EditEntry
  <2> QED
    BY <1>1, <2>1 DEF EditEntry, Notify
<1>2. CASE EditVocab
  BY <1>2 DEF EditVocab, Notify
<1>12. CASE LoseDir \/ FindDir
  BY <1>12 DEF LoseDir, FindDir
<1>3. CASE Start
  BY <1>3 DEF Start
<1>4. CASE Watch
  BY <1>4 DEF Watch, Sources
<1>5. CASE Event
  BY <1>5 DEF Event, Goto, Sources
<1>6. CASE Close
  BY <1>6 DEF Close
<1>7. ASSUME NEW r \in Reloaders, Reload(r) PROVE TypeOK'
  BY <1>7 DEF Reload, Goto
<1>8. ASSUME NEW p \in Procs, job[p].pc \in Holding, Abort(p) PROVE TypeOK'
  BY <1>8 DEF Abort
<1>9. ASSUME NEW p \in Procs, Lock(p) PROVE TypeOK'
  BY <1>9 DEF Lock, Goto
<1>10. ASSUME NEW p \in Procs, LoadStep(p) PROVE TypeOK'
  <2>1. CASE ReadVocab(p)
    BY <2>1, VocabRead, MergeType DEF ReadVocab
  <2>2. CASE ListDir(p)
    BY <2>2 DEF ListDir
  <2>3. CASE ReadEntry(p)
    BY <2>3 DEF ReadEntry
  <2>4. CASE Swap(p)
    <3>1. Loaded(p) \subseteq Entries
      BY DEF Loaded
    <3>2. job[p].vocab \in Vocabularies
      BY <2>4 DEF Swap, Reading, Sound
    <3> QED
      BY <2>4, <3>1, <3>2 DEF Swap
  <2>5. CASE ReadVocabFails(p) \/ ListDirFails(p) \/ ReadEntryFails(p) \/ ConflictsFound(p)
    BY <2>5, <1>8 DEF ReadVocabFails, ListDirFails, ReadEntryFails, ConflictsFound, Holding
  <2> QED
    BY <1>10, <2>1, <2>2, <2>3, <2>4, <2>5 DEF LoadStep
<1>11. CASE UNCHANGED vars
  BY <1>11 DEF vars
<1> QED
  BY <1>1, <1>2, <1>3, <1>4, <1>5, <1>6, <1>7, <1>8, <1>9, <1>10, <1>11, <1>12 DEF Next

\* The lock is taken when it is free and given back by who holds it.
LEMMA LockingStep == IInv /\ [Next]_vars => Locking'
<1> SUFFICES ASSUME IInv, [Next]_vars PROVE Locking'
  OBVIOUS
<1> USE ProcsAssumption DEF IInv, TypeOK, Locking, NoJob, Holding
<1>1. CASE EditEntry
  BY <1>1 DEF EditEntry, Notify
<1>2. CASE EditVocab
  BY <1>2 DEF EditVocab, Notify
<1>12. CASE LoseDir \/ FindDir
  BY <1>12 DEF LoseDir, FindDir
<1>3. CASE Start
  BY <1>3 DEF Start
<1>4. CASE Watch
  BY <1>4 DEF Watch
<1>5. CASE Event
  BY <1>5 DEF Event, Goto
<1>6. CASE Close
  BY <1>6 DEF Close
<1>7. ASSUME NEW r \in Reloaders, Reload(r) PROVE Locking'
  BY <1>7 DEF Reload, Goto
<1>8. ASSUME NEW p \in Procs, job[p].pc \in Holding, Abort(p) PROVE Locking'
  BY <1>8 DEF Abort
<1>9. ASSUME NEW p \in Procs, Lock(p) PROVE Locking'
  BY <1>9 DEF Lock, Goto
<1>10. ASSUME NEW p \in Procs, LoadStep(p) PROVE Locking'
  <2>1. CASE ReadVocab(p)
    BY <2>1 DEF ReadVocab
  <2>2. CASE ListDir(p)
    BY <2>2 DEF ListDir
  <2>3. CASE ReadEntry(p)
    BY <2>3 DEF ReadEntry
  <2>4. CASE Swap(p)
    BY <2>4 DEF Swap
  <2>5. CASE ReadVocabFails(p) \/ ListDirFails(p) \/ ReadEntryFails(p) \/ ConflictsFound(p)
    BY <2>5, <1>8 DEF ReadVocabFails, ListDirFails, ReadEntryFails, ConflictsFound, Holding
  <2> QED
    BY <1>10, <2>1, <2>2, <2>3, <2>4, <2>5 DEF LoadStep
<1>11. CASE UNCHANGED vars
  BY <1>11 DEF vars
<1> QED
  BY <1>1, <1>2, <1>3, <1>4, <1>5, <1>6, <1>7, <1>8, <1>9, <1>10, <1>11, <1>12 DEF Next

\* A load begins with nothing read, and reads neither a broken entry nor a
\* second one of an agent it has.
LEMMA ReadingStep == IInv /\ [Next]_vars => Reading'
<1> SUFFICES ASSUME IInv, [Next]_vars PROVE Reading'
  OBVIOUS
<1>0. /\ \A p \in Procs : job[p] \in Jobs /\ Sound(job[p])
      /\ job \in [Procs -> Jobs]
  BY DEF IInv, TypeOK, Reading, Jobs
<1>s. ASSUME NEW p \in Procs, NEW j, job' = [job EXCEPT ![p] = j], Sound(j) PROVE Reading'
  BY <1>0, <1>s DEF Reading
<1>m. ASSUME NEW p \in Procs, NEW pc \in {"off", "idle", "lock", "vocab"},
             job[p].pc \in {"off", "idle", "lock", "vocab"}, job' = [job EXCEPT ![p].pc = pc]
      PROVE  Reading'
  <2>1. job' = [job EXCEPT ![p] = [job[p] EXCEPT !.pc = pc]]
    BY <1>m
  <2>2. Sound([job[p] EXCEPT !.pc = pc])
    BY <1>m, <1>0, SoundMoves
  <2> QED
    BY <1>s, <2>1, <2>2
<1>1. CASE UNCHANGED job
  BY <1>1 DEF IInv, Reading
<1>2. CASE EditEntry \/ EditVocab \/ LoseDir \/ FindDir \/ Close
  BY <1>1, <1>2 DEF EditEntry, EditVocab, LoseDir, FindDir, Close
<1>3. CASE Start
  <2>1. job["main"].pc = "off"
    BY <1>3, ProcsAssumption, <1>0 DEF Start, IInv, TypeOK, Locking, Holding
  <2> QED
    BY <1>3, <1>m, <2>1 DEF Start
<1>4. CASE Watch
  <2>1. \A p \in Procs : job'[p] = NoJob \/ job'[p] = [NoJob EXCEPT !.pc = "idle"]
    BY <1>4, Zenon DEF Watch, NoJob
  <2> QED
    BY <2>1, SoundNoJob DEF Reading
<1>5. CASE Event
  BY <1>5, <1>1, <1>m DEF Event, Goto
<1>6. ASSUME NEW r \in Reloaders, Reload(r) PROVE Reading'
  BY <1>6, <1>m DEF Reload, Goto
<1>7. ASSUME NEW p \in Procs, Abort(p) PROVE Reading'
  BY <1>7, <1>s, SoundNoJob DEF Abort
<1>8. ASSUME NEW p \in Procs, Lock(p) PROVE Reading'
  BY <1>8, <1>m DEF Lock, Goto
<1>9. ASSUME NEW p \in Procs, LoadStep(p) PROVE Reading'
  <2>1. CASE ReadVocab(p)
    <3> DEFINE v == IF HasVocab THEN vocabFile ELSE Open
               w == IF p = "main" THEN Merge(v) ELSE v
               j == [pc |-> "list", vocab |-> w, view |-> Blank]
    <3>1. w \in Vocabularies
      BY <2>1, VocabRead, MergeType DEF ReadVocab, IInv
    <3>2. job[p].view = Blank
      BY <2>1, <1>0 DEF ReadVocab, Sound
    <3>3. Keeping(j) = {} /\ \A f \in Files : j.view[f] \notin Broken
      BY EntriesAssumption DEF Keeping, Blank
    <3>4. Sound(j)
      BY <3>1, <3>3, UnreadVocab DEF Sound
    <3>5. job' = [job EXCEPT ![p] = j]
      BY <2>1, <3>2 DEF ReadVocab
    <3> QED
      BY <1>s, <3>4, <3>5
  <2>2. CASE ListDir(p)
    <3> DEFINE u == [f \in Files |-> IF disk[f] = Gone THEN Gone ELSE Unread]
               j == [pc |-> "read", vocab |-> job[p].vocab, view |-> u]
    <3>1. job[p].vocab # Unread
      BY <2>2, <1>0 DEF ListDir, Sound
    <3>2. Keeping(j) = {} /\ \A f \in Files : j.view[f] \notin Broken
      BY EntriesAssumption DEF Keeping
    <3>3. Sound(j)
      BY <3>1, <3>2 DEF Sound
    <3>4. job' = [job EXCEPT ![p] = j]
      BY <2>2 DEF ListDir
    <3> QED
      BY <1>s, <3>3, <3>4
  <2>3. CASE ReadEntry(p)
    <3> PICK f \in Files :
          /\ job[p].view[f] = Unread
          /\ disk[f] \in Entries \ Broken
          /\ ~Duplicate(p, disk[f])
          /\ job' = [job EXCEPT ![p].view[f] = disk[f]]
      BY <2>3 DEF ReadEntry
    <3> DEFINE u == [job[p].view EXCEPT ![f] = disk[f]]
               j == [job[p] EXCEPT !.view = u]
    <3>1. j = [pc |-> "read", vocab |-> job[p].vocab, view |-> u] /\ job[p].pc = "read"
      BY <2>3, <1>0 DEF ReadEntry, Jobs
    <3>2. Sound(job[p]) /\ job[p].view \in [Files -> Entries \cup {Gone, Unread}]
      BY <1>0 DEF Jobs
    <3>3. \A g \in Files : u[g] = IF g = f THEN disk[f] ELSE job[p].view[g]
      BY <3>2
    <3>4. \A g \in Files : u[g] \notin Broken
      BY <3>2, <3>3 DEF Sound
    <3>5. Keeping(j) \ {f} \subseteq Keeping(job[p])
      BY <3>1, <3>3 DEF Keeping
    <3>6. \A g \in Keeping(job[p]) : job[p].view[g] \in Loaded(p)
      BY DEF Keeping, Loaded, Conflicting
    <3>7. ASSUME f \in Keeping(j), NEW g \in Keeping(j) \ {f}
          PROVE  NameOf[u[f]] # NameOf[u[g]]
      <4>1. Conflicts(disk[f], job[p].vocab) = {}
        BY <3>7, <3>1, <3>3 DEF Keeping
      <4>2. NameOf[job[p].view[g]] \in Names(Loaded(p))
        BY <3>5, <3>6, <3>7 DEF Names
      <4>3. u[f] = disk[f] /\ u[g] = job[p].view[g]
        BY <3>3, <3>7 DEF Keeping
      <4> QED
        BY <4>1, <4>2, <4>3 DEF Duplicate
    <3>8. \A g, h \in Keeping(j) : NameOf[u[g]] = NameOf[u[h]] => g = h
      <4> SUFFICES ASSUME NEW g \in Keeping(j), NEW h \in Keeping(j), NameOf[u[g]] = NameOf[u[h]], g # h
                   PROVE  FALSE
        OBVIOUS
      <4>1. g # f /\ h # f
        BY <3>7
      <4>2. u[g] = job[p].view[g] /\ u[h] = job[p].view[h]
        BY <3>3, <4>1 DEF Keeping
      <4> QED
        BY <3>2, <3>5, <4>1, <4>2 DEF Sound
    <3>9. Sound(j)
      BY <3>1, <3>2, <3>4, <3>8 DEF Sound
    <3>10. job' = [job EXCEPT ![p] = j]
      OBVIOUS
    <3> QED
      BY <1>s, <3>9, <3>10
  <2>4. CASE Swap(p)
    BY <2>4, <1>s, SoundNoJob DEF Swap
  <2>5. CASE ReadVocabFails(p) \/ ListDirFails(p) \/ ReadEntryFails(p) \/ ConflictsFound(p)
    BY <2>5, <1>7 DEF ReadVocabFails, ListDirFails, ReadEntryFails, ConflictsFound
  <2> QED
    BY <1>9, <2>1, <2>2, <2>3, <2>4, <2>5 DEF LoadStep
<1>10. CASE UNCHANGED vars
  BY <1>10, <1>1 DEF vars
<1> QED
  BY <1>2, <1>3, <1>4, <1>5, <1>6, <1>8, <1>9, <1>10 DEF Next

\* A load that has read all its files without a conflict makes a valid snapshot.
LEMMA ServedStep == IInv /\ [Next]_vars => ServedValid'
<1> SUFFICES ASSUME IInv, [Next]_vars PROVE ServedValid'
  OBVIOUS
<1> USE DEF IInv, ServedValid
<1>1. CASE EditEntry
  BY <1>1 DEF EditEntry, Notify
<1>2. CASE EditVocab
  BY <1>2 DEF EditVocab, Notify
<1>12. CASE LoseDir \/ FindDir
  BY <1>12 DEF LoseDir, FindDir
<1>3. CASE Start
  BY <1>3 DEF Start
<1>4. CASE Watch
  BY <1>4 DEF Watch
<1>5. CASE Event
  BY <1>5 DEF Event, Goto
<1>6. CASE Close
  BY <1>6 DEF Close
<1>7. ASSUME NEW r \in Reloaders, Reload(r) PROVE ServedValid'
  BY <1>7 DEF Reload, Goto
<1>8. ASSUME NEW p \in Procs, job[p].pc \in Holding, Abort(p) PROVE ServedValid'
  BY <1>8 DEF Abort
<1>9. ASSUME NEW p \in Procs, Lock(p) PROVE ServedValid'
  BY <1>9 DEF Lock, Goto
<1>10. ASSUME NEW p \in Procs, LoadStep(p) PROVE ServedValid'
  <2>1. CASE ReadVocab(p)
    BY <2>1 DEF ReadVocab
  <2>2. CASE ListDir(p)
    BY <2>2 DEF ListDir
  <2>3. CASE ReadEntry(p)
    BY <2>3 DEF ReadEntry
  <2>4. CASE Swap(p)
    <3>1. snap' = [agents |-> Loaded(p), vocab |-> job[p].vocab]
      BY <2>4 DEF Swap
    <3>2. \A e \in Loaded(p) : \E f \in Files : job[p].view[f] = e /\ e \in Entries /\ Conflicts(e, job[p].vocab) = {}
      BY DEF Loaded, Conflicting
    <3> QED
      BY <3>1, <3>2 DEF Reading, Sound, Keeping
  <2>5. CASE ReadVocabFails(p) \/ ListDirFails(p) \/ ReadEntryFails(p) \/ ConflictsFound(p)
    BY <2>5, <1>8 DEF ReadVocabFails, ListDirFails, ReadEntryFails, ConflictsFound, Holding
  <2> QED
    BY <1>10, <2>1, <2>2, <2>3, <2>4, <2>5 DEF LoadStep
<1>11. CASE UNCHANGED vars
  BY <1>11 DEF vars
<1> QED
  BY <1>1, <1>2, <1>3, <1>4, <1>5, <1>6, <1>7, <1>8, <1>9, <1>10, <1>11, <1>12 DEF Next

\* IInv is inductive.
LEMMA IInvStep == IInv /\ [Next]_vars => IInv'
BY TypeStep, LockingStep, ReadingStep, ServedStep DEF IInv

\* The inductive invariant holds in every reachable state.
THEOREM Invariance == Spec => []IInv
BY IInvInit, IInvStep, PTL DEF Spec

\* Every variable keeps its type, a load in progress included.
THEOREM TypeCorrect == Spec => []TypeOK
<1>1. IInv => TypeOK
  BY DEF IInv
<1> QED
  BY <1>1, Invariance, PTL

\* However edits fall between the steps of a load, what is served loads, has
\* one entry per agent and keeps to the vocabulary it is served with.
THEOREM ServedValidHolds == Spec => []ServedValid
<1>1. IInv => ServedValid
  BY DEF IInv
<1> QED
  BY <1>1, Invariance, PTL

-----------------------------------------------------------------------------
(* FileStore implements ObservedRegistry. *)

\* The state before NewFileStore is an initial state of the abstract store.
LEMMA AbstractInit == Init => Abstract!Init
BY SwitchAssumption, ProcsAssumption
   DEF Loading, Init, NoSnapshot, NoJob, Blank, Abstract!Init, Abstract!Blank

\* Every step is an edit, an observation, the end of a load, or nothing at all
\* to who only sees files, observations and snapshot.
LEMMA AbstractStep == IInv /\ [Next]_vars => [Abstract!Next]_Abstract!vars
<1> SUFFICES ASSUME IInv, [Next]_vars PROVE Abstract!Next \/ UNCHANGED Abstract!vars
  OBVIOUS
<1> USE DEF Abstract!vars, Abstract!Next
<1>0. /\ job \in [Procs -> Jobs] /\ Nobody \notin Procs
      /\ \A p \in Procs : Sound(job[p]) /\ (job[p].pc \in Holding <=> reloadMu = p)
      /\ reloadMu \in Procs \cup {Nobody}
  BY ProcsAssumption DEF IInv, TypeOK, Reading, Locking, Jobs, Procs
<1>1. ASSUME UNCHANGED <<files, snap, reloadMu, job>> PROVE UNCHANGED Abstract!vars
  BY <1>1 DEF Loading
<1>2. CASE EditEntry \/ EditVocab
  <2>1. UNCHANGED <<snap, reloadMu, job>>
    BY <1>2 DEF EditEntry, EditVocab
  <2>2. disk' \in [Files -> Entries \cup {Gone}] /\ vocabFile' \in (SUBSET Values) \cup {Bad}
    <3>1. TypeOK'
      BY TypeStep
    <3> QED
      BY <3>1 DEF TypeOK
  <2> QED
    BY <2>1, <2>2, SwitchAssumption DEF Loading, Abstract!Change
<1>3. CASE LoseDir \/ FindDir \/ Close
  <2>1. UNCHANGED <<disk, vocabFile, snap, reloadMu, job>>
    BY <1>3 DEF LoseDir, FindDir, Close
  <2> QED
    BY <2>1 DEF Loading
<1>4. ASSUME NEW p \in Procs, job[p].pc \notin Holding \cup {"read"}, NEW pc \in {"lock", "idle", "vocab"},
             job' = [job EXCEPT ![p].pc = pc], reloadMu' = reloadMu \/ (reloadMu = Nobody /\ reloadMu' = p),
             UNCHANGED <<files, snap>>
      PROVE  UNCHANGED Abstract!vars
  <2>1. job[p].view = Blank /\ job[p].vocab = Unread
    BY <1>4, <1>0 DEF Sound, Holding
  <2>2. reloadMu # p
    BY <1>4, <1>0
  <2>3. \A q \in Procs : job'[q].view = job[q].view /\ job'[q].vocab = job[q].vocab
    BY <1>4, <1>0 DEF Jobs
  <2>4. Loading'.view = Loading.view /\ Loading'.vocab = Loading.vocab
    BY <1>4, <1>0, <2>1, <2>2, <2>3 DEF Loading, NoJob
  <2> QED
    BY <1>4, <2>4
<1>5. CASE Start
  <2>1. job["main"].pc = "off" /\ reloadMu = Nobody
    BY <1>5, <1>0, ProcsAssumption DEF Start, IInv, Locking, Holding, NoJob
  <2> QED
    BY <1>5, <2>1, <1>4 DEF Start, Holding
<1>6. CASE Watch
  <2>1. reloadMu = Nobody
    BY <1>6, <1>0 DEF Watch, IInv, Locking, Holding, NoJob
  <2> QED
    BY <1>6, <2>1 DEF Watch, Loading
<1>7. CASE Event
  <2>1. ASSUME UNCHANGED job PROVE UNCHANGED Abstract!vars
    BY <1>7, <2>1, <1>1 DEF Event
  <2>2. ASSUME Goto("watch", "lock") PROVE UNCHANGED Abstract!vars
    BY <1>7, <2>2, <1>4 DEF Event, Goto, Holding
  <2> QED
    BY <1>7, <2>1, <2>2 DEF Event
<1>8. ASSUME NEW r \in Reloaders, Reload(r) PROVE UNCHANGED Abstract!vars
  BY <1>8, <1>4 DEF Reload, Goto, Holding
<1>9. ASSUME NEW p \in Procs, Lock(p) PROVE UNCHANGED Abstract!vars
  BY <1>9, <1>4 DEF Lock, Goto, Holding
<1>10. ASSUME NEW p \in Procs, Abort(p) PROVE Abstract!Next
  <2>1. Loading' = NoJob
    BY <1>10 DEF Abort, Loading
  <2> QED
    BY <1>10, <2>1 DEF Abort, Abstract!Forget, Abstract!Blank, NoJob, Blank
<1>11. ASSUME NEW p \in Procs, LoadStep(p) PROVE Abstract!Next
  <2>h. ASSUME job[p].pc \in Holding, NEW j, job' = [job EXCEPT ![p] = j], UNCHANGED reloadMu
        PROVE  Loading = job[p] /\ Loading' = j
    BY <2>h, <1>0 DEF Loading
  <2>o. ASSUME NEW F \in SUBSET {f \in Files : Loading.view[f] = Unread},
               Loading'.view = [f \in Files |-> IF f \in F THEN disk[f] ELSE Loading.view[f]],
               Loading'.vocab = Loading.vocab, UNCHANGED <<files, snap>>
        PROVE  Abstract!Next
    BY <2>o DEF Abstract!Observe
  <2>1. CASE ReadVocab(p)
    <3> DEFINE v == IF HasVocab THEN vocabFile ELSE Open
               w == IF p = "main" THEN Merge(v) ELSE v
    <3>1. job[p].view = Blank /\ job[p].vocab = Unread
      BY <2>1, <1>0 DEF ReadVocab, Sound
    <3>2. job' = [job EXCEPT ![p] = [pc |-> "list", vocab |-> w, view |-> job[p].view]]
      BY <2>1 DEF ReadVocab
    <3>3. Loading = job[p] /\ Loading' = [pc |-> "list", vocab |-> w, view |-> job[p].view]
      BY <2>1, <3>2, <2>h DEF ReadVocab, Holding
    <3>4. w \in {v, Extensions \cup (IF v = Open THEN {} ELSE v)}
      BY DEF Merge
    <3>5. v # Bad /\ v' = v
      BY <2>1, MarkersAssumption DEF ReadVocab
    <3>6. Loading'.view = Loading.view /\ Loading'.vocab = w /\ Loading.vocab = Unread
      BY <3>1, <3>3
    <3> HIDE DEF w
    <3> QED
      BY <2>1, <3>4, <3>5, <3>6 DEF ReadVocab, Abstract!ObserveVocab
  <2>2. CASE ListDir(p)
    <3> DEFINE u == [f \in Files |-> IF disk[f] = Gone THEN Gone ELSE Unread]
               F == {g \in Files : disk[g] = Gone}
    <3>1. job[p].view = Blank
      BY <2>2, <1>0 DEF ListDir, Sound
    <3>2. job' = [job EXCEPT ![p] = [pc |-> "read", vocab |-> job[p].vocab, view |-> u]]
      BY <2>2 DEF ListDir
    <3>3. Loading = job[p] /\ Loading' = [pc |-> "read", vocab |-> job[p].vocab, view |-> u]
      BY <2>2, <3>2, <2>h DEF ListDir, Holding
    <3>4. Loading.view = Blank /\ Loading'.view = u /\ Loading'.vocab = Loading.vocab
      BY <3>1, <3>3
    <3>5. u = [f \in Files |-> IF f \in F THEN disk[f] ELSE Blank[f]]
      BY DEF Blank
    <3>6. F \in SUBSET {f \in Files : Blank[f] = Unread}
      BY DEF Blank
    <3> HIDE DEF u, F
    <3> QED
      BY <2>2, <2>o, <3>4, <3>5, <3>6 DEF ListDir
  <2>3. CASE ReadEntry(p)
    <3> PICK f \in Files :
          /\ job[p].view[f] = Unread
          /\ job' = [job EXCEPT ![p].view[f] = disk[f]]
      BY <2>3 DEF ReadEntry
    <3> DEFINE u == [job[p].view EXCEPT ![f] = disk[f]]
    <3>1. job[p] \in Jobs /\ job[p].pc = "read"
      BY <2>3, <1>0 DEF ReadEntry
    <3>2. job' = [job EXCEPT ![p] = [job[p] EXCEPT !.view = u]]
      OBVIOUS
    <3>3. Loading = job[p] /\ Loading' = [job[p] EXCEPT !.view = u]
      BY <2>3, <3>1, <3>2, <2>h DEF ReadEntry, Holding
    <3>4. Loading'.view = u /\ Loading'.vocab = Loading.vocab
      BY <3>1, <3>3 DEF Jobs
    <3>5. u = [g \in Files |-> IF g \in {f} THEN disk[g] ELSE job[p].view[g]]
      BY <3>1 DEF Jobs
    <3>6. {f} \in SUBSET {g \in Files : Loading.view[g] = Unread}
      BY <3>3
    <3>7. u = [g \in Files |-> IF g \in {f} THEN disk[g] ELSE Loading.view[g]]
      BY <3>3, <3>5
    <3>8. UNCHANGED <<files, snap>>
      BY <2>3 DEF ReadEntry
    <3> HIDE DEF u
    <3> QED
      BY <2>o, <3>4, <3>6, <3>7, <3>8
  <2>4. CASE Swap(p)
    <3>1. job[p] \in Jobs /\ Sound(job[p]) /\ Loading = job[p] /\ Loading' = NoJob
      BY <2>4, <1>0 DEF Swap, Holding, Loading
    <3>2. job[p].vocab # Unread /\ \A f \in Files : job[p].view[f] # Unread
      BY <2>4, <3>1 DEF Swap, Sound, AllRead
    <3> DEFINE P == {f \in Files : job[p].view[f] # Gone}
    <3>3. P = {f \in Files : job[p].view[f] \in Entries}
      BY <3>1, <3>2, EntriesAssumption DEF Jobs
    <3>4. \A f \in P : Conflicts(job[p].view[f], job[p].vocab) = {}
      BY <2>4, <3>3 DEF Swap, Conflicting
    <3>5. P = Keeping(job[p])
      BY <3>3, <3>4 DEF Keeping
    <3>6. Loaded(p) = {job[p].view[f] : f \in P}
      BY <2>4, <3>3 DEF Swap, Loaded
    <3>7. \A f \in P : job[p].view[f] \in Entries \ Broken
      BY <3>1, <3>3 DEF Sound
    <3>8. job[p].vocab = Open \/ \A f \in P : Uses[job[p].view[f]] \subseteq job[p].vocab
      BY <3>4 DEF Conflicts
    <3>9. \A f, g \in P : NameOf[job[p].view[f]] = NameOf[job[p].view[g]] => f = g
      BY <3>1, <3>5 DEF Sound
    <3>10. Abstract!Present = P
      BY <3>1 DEF Abstract!Present
    <3>11. Abstract!Valid
      BY <3>1, <3>7, <3>8, <3>9, <3>10 DEF Abstract!Valid
    <3>12. snap' = [agents |-> {Loading.view[f] : f \in Abstract!Present}, vocab |-> Loading.vocab]
      BY <2>4, <3>1, <3>6, <3>10 DEF Swap
    <3> QED
      BY <2>4, <3>1, <3>2, <3>11, <3>12 DEF Swap, Abstract!Serve, Abstract!Blank, NoJob, Blank
  <2>5. CASE ReadVocabFails(p) \/ ListDirFails(p) \/ ReadEntryFails(p) \/ ConflictsFound(p)
    BY <2>5, <1>10 DEF ReadVocabFails, ListDirFails, ReadEntryFails, ConflictsFound
  <2> QED
    BY <1>11, <2>1, <2>2, <2>3, <2>4, <2>5 DEF LoadStep
<1>12. CASE UNCHANGED vars
  BY <1>12, <1>1 DEF vars
<1> QED
  BY <1>2, <1>3, <1>5, <1>6, <1>7, <1>8, <1>9, <1>11, <1>12 DEF Next

\* FileStore implements ObservedRegistry: a snapshot is one complete, valid
\* observation of the files, made after the snapshot before it was served.
THEOREM Refinement == Spec => ImplementsObservedRegistry
<1>1. Init => Abstract!Init
  BY AbstractInit
<1>2. IInv /\ [Next]_vars => [Abstract!Next]_Abstract!vars
  BY AbstractStep
<1> QED
  BY <1>1, <1>2, Invariance, PTL DEF Spec, ImplementsObservedRegistry, Abstract!Spec

-----------------------------------------------------------------------------
(* No edit is lost: an absolute --registry-dir and no extensions. *)

\* What of a state NoEditLost and Tracking look at, but for the loads.
Around == <<files, life, watched, pending, snap, missed>>

\* A load that has read nothing is not spoilt.
LEMMA UnspoiltBlank ==
  ASSUME NEW pc \in {"off", "idle", "lock", "vocab"}
  PROVE  Unspoilt([pc |-> pc, vocab |-> Unread, view |-> Blank])
BY DEF Unspoilt, Blank

\* Whoever has just taken the lock, or let go of it, has read nothing.
LEMMA UnspoiltMoves ==
  ASSUME NEW j \in Jobs, Sound(j), j.pc \in {"off", "idle", "lock", "vocab"}
  PROVE  Unspoilt(j)
<1>1. j = [pc |-> j.pc, vocab |-> Unread, view |-> Blank]
  BY DEF Sound, Jobs
<1> QED
  BY <1>1, UnspoiltBlank

\* What the merge with no extensions gives.
LEMMA NoExtensions ==
  ASSUME Extensions = {}, NEW v
  PROVE  Merge(v) = v
BY DEF Merge

\* A load fails only over what it read: if that is what is on disk, what is on
\* disk does not load.
LEMMA FailsForCause ==
  ASSUME IInv, NEW p \in Procs, Unspoilt(job[p]),
         ReadVocabFails(p) \/ ListDirFails(p) \/ ReadEntryFails(p) \/ ConflictsFound(p)
  PROVE  ~Loadable
<1> DEFINE j == job[p]
<1>0. j \in Jobs /\ Sound(j) /\ disk \in [Files -> Entries \cup {Gone}]
  BY DEF IInv, TypeOK, Reading, Jobs
<1>1. CASE ReadVocabFails(p)
  BY <1>1 DEF ReadVocabFails, Loadable
<1>l. CASE ListDirFails(p) \/ ~listable
  BY <1>l DEF ListDirFails, Loadable
<1>2. CASE ReadEntryFails(p) /\ listable
  <2>1. j.pc = "read"
    BY <1>2 DEF ReadEntryFails
  <2>2. PICK f \in Files :
          /\ j.view[f] = Unread
          /\ ~listable \/ disk[f] \in Broken \cup {Gone} \/ (disk[f] \in Entries \ Broken /\ Duplicate(p, disk[f]))
    BY <1>2 DEF ReadEntryFails
  <2>3. disk[f] # Gone
    BY <2>1, <2>2, EntriesAssumption DEF Unspoilt
  <2>4. disk[f] \in OnDisk
    BY <2>3 DEF OnDisk
  <2>5. CASE disk[f] \in Broken
    BY <2>4, <2>5 DEF Loadable
  <2>6. CASE Duplicate(p, disk[f])
    <3>1. NameOf[disk[f]] \in Names(Loaded(p))
      BY <2>6 DEF Duplicate
    <3>2. PICK g \in Files : j.view[g] \in Entries /\ NameOf[disk[f]] = NameOf[j.view[g]]
      BY <3>1 DEF Names, Loaded
    <3>3. disk[g] = j.view[g] /\ disk[g] # Gone /\ g # f
      BY <2>2, <3>2, EntriesAssumption DEF Unspoilt
    <3> QED
      BY <2>3, <3>2, <3>3 DEF Loadable
  <2> QED
    BY <1>2, <2>2, <2>3, <2>5, <2>6
<1>3. CASE ConflictsFound(p)
  <2>1. j.pc = "read" /\ j.vocab = Vocab
    BY <1>0, <1>3 DEF ConflictsFound, Sound, Unspoilt
  <2>2. PICK f \in Files : j.view[f] \in Entries /\ Conflicts(j.view[f], j.vocab) # {}
    BY <1>3 DEF ConflictsFound, Conflicting
  <2>3. disk[f] = j.view[f] /\ disk[f] # Gone
    BY <2>2, EntriesAssumption DEF Unspoilt
  <2>4. disk[f] \in OnDisk /\ Conflicts(disk[f], Vocab) # {}
    BY <2>1, <2>2, <2>3 DEF OnDisk
  <2> QED
    BY <2>4 DEF Loadable
<1> QED
  BY <1>1, <1>2, <1>3, <1>l

\* A load that succeeds serves what it read: if that is what is on disk, it
\* serves what is on disk.
LEMMA ServesWhatItRead ==
  ASSUME IInv, NEW p \in Procs, Unspoilt(job[p]), Swap(p)
  PROVE  snap' = Current
<1> DEFINE j == job[p]
<1>1. j.pc = "read" /\ j.vocab = Vocab
  BY DEF IInv, Reading, Swap, Sound, Unspoilt
<1>2. \A f \in Files : j.view[f] = disk[f]
  BY DEF Swap, AllRead, Unspoilt
<1>3. disk \in [Files -> Entries \cup {Gone}]
  BY DEF IInv, TypeOK
<1>4. Conflicting(p) = {} /\ snap' = [agents |-> Loaded(p), vocab |-> j.vocab]
  BY DEF Swap
<1>5. Loaded(p) = {j.view[f] : f \in {g \in Files : j.view[g] \in Entries}}
  BY <1>4 DEF Loaded
<1>6. Loaded(p) = OnDisk
  BY <1>2, <1>3, <1>5, EntriesAssumption DEF OnDisk
<1> QED
  BY <1>1, <1>4, <1>6 DEF Current

\* A step that touches neither the files nor what the watcher knows keeps
\* Tracking, if the load under way stays unspoilt and the lock is not taken from
\* the watcher.
LEMMA TrackingKeep ==
  ASSUME Tracking, UNCHANGED Around, Settled' => Settled,
         Settled /\ Unspoilt(Loading) => Unspoilt(Loading'),
         reloadMu' \in {"main", "watch"} \/ UNCHANGED reloadMu \/ reloadMu = Nobody,
         Nobody \notin {"main", "watch"}
  PROVE  Tracking'
<1>1. UNCHANGED <<Loadable, Current, Vocab>>
  BY DEF Around, Loadable, Current, Vocab, OnDisk
<1>2. Unspoilt(Loading') => Unspoilt(Loading)'
  BY DEF Around, Unspoilt, Vocab
<1> QED
  BY <1>1, <1>2 DEF Tracking, Around

\* An edit puts an event in the queue, or is missed.
LEMMA TrackingEdit ==
  ASSUME Tracking, NEW event \in Sources, Notify(event), UNCHANGED <<life, watched>>
  PROVE  Tracking'
<1>1. ~Settled'
  BY DEF Notify, Settled
<1>2. /\ pending' \subseteq Sources
      /\ life \notin {"open", "closed"} => pending' = {}
  BY DEF Notify, Tracking
<1>3. UNCHANGED Sources
  BY DEF Sources
<1> QED
  BY <1>1, <1>2, <1>3 DEF Tracking

\* Every step keeps Tracking.
LEMMA TrackingStep ==
  ASSUME ~RelativeDir, Extensions = {}, IInv, Tracking, [Next]_vars
  PROVE  Tracking'
<1> USE DEF Around
<1>0. /\ job \in [Procs -> Jobs] /\ Nobody \notin Procs
      /\ \A p \in Procs : job[p] \in Jobs /\ Sound(job[p]) /\ (job[p].pc \in Holding <=> reloadMu = p)
      /\ reloadMu \in Procs \cup {Nobody} /\ {"main", "watch"} \subseteq Procs
  BY ProcsAssumption DEF IInv, TypeOK, Reading, Locking, Jobs
<1>n. Unspoilt(NoJob) /\ Unspoilt(NoJob)'
  BY UnspoiltBlank DEF NoJob, Unspoilt, Blank
<1>h. \A p \in Procs : job[p].pc \in Holding => Loading = job[p]
  BY <1>0 DEF Loading
\* A step of a load between the lock and its end.
<1>l. ASSUME NEW p \in Procs, job[p].pc \in Holding, NEW j, j.pc \in Holding, job' = [job EXCEPT ![p] = j],
             Settled /\ Unspoilt(job[p]) => Unspoilt(j), UNCHANGED <<Around, reloadMu>>
      PROVE  Tracking'
  <2>1. Loading = job[p] /\ Loading' = j
    BY <1>l, <1>0, <1>h DEF Loading
  <2>2. Settled' => Settled
    BY <1>l, <1>0 DEF Settled, Holding
  <2> QED
    BY <1>l, <1>0, <2>1, <2>2, TrackingKeep
\* A step before the lock, of a goroutine that is not the watcher or is about to load.
<1>w. ASSUME NEW p \in Procs, job[p].pc \in {"off", "idle", "lock"}, NEW pc \in {"lock", "vocab"},
             job' = [job EXCEPT ![p].pc = pc], UNCHANGED Around,
             \/ p # "watch" /\ pc = "lock" /\ UNCHANGED reloadMu
             \/ pc = "vocab" /\ reloadMu = Nobody /\ reloadMu' = p
      PROVE  Tracking'
  <2>1. Unspoilt(Loading) => Unspoilt(Loading')
    <3>1. CASE reloadMu' = p
      <4>1. Loading' = [job[p] EXCEPT !.pc = pc]
        BY <1>w, <3>1, <1>0 DEF Loading
      <4>2. [job[p] EXCEPT !.pc = pc] = [pc |-> pc, vocab |-> Unread, view |-> Blank]
        BY <1>w, <1>0 DEF Sound, Jobs
      <4> QED
        BY <4>1, <4>2, UnspoiltBlank
    <3>2. CASE reloadMu' # p
      <4>1. reloadMu' = reloadMu /\ reloadMu # p
        BY <1>w, <3>2
      <4> QED
        BY <1>w, <1>0, <4>1 DEF Loading
    <3> QED BY <3>1, <3>2
  <2>2. CASE p # "watch"
    <3>1. Settled' = Settled
      BY <1>w, <2>2, <1>0 DEF Settled
    <3> QED
      BY <1>w, <1>0, <2>1, <3>1, TrackingKeep
  <2>3. CASE p = "watch"
    \* The watcher's load begins: whatever is on disk, it is yet to be read.
    <3>1. Loading' = [job[p] EXCEPT !.pc = pc] /\ reloadMu' = "watch"
      BY <1>w, <2>3, <1>0 DEF Loading
    <3>2. [job[p] EXCEPT !.pc = pc] = [pc |-> pc, vocab |-> Unread, view |-> Blank]
      BY <1>w, <1>0 DEF Sound, Jobs
    <3>3. Unspoilt(Loading)'
      BY <3>1, <3>2 DEF Unspoilt, Blank
    <3>4. UNCHANGED Sources
      BY DEF Sources
    <3> QED
      BY <1>w, <3>1, <3>3, <3>4 DEF Tracking
  <2> QED BY <2>2, <2>3
\* A load that ends has failed for cause or serves what is on disk.
<1>e. ASSUME NEW p \in Procs, job[p].pc \in Holding, reloadMu' = Nobody,
             NEW pc \in {"off", "idle"}, job' = [job EXCEPT ![p] = [NoJob EXCEPT !.pc = pc]],
             UNCHANGED <<files, watched, pending, missed>>,
             Settled' => Settled /\ (Unspoilt(job[p]) /\ (p \notin {"main", "watch"} => (Loadable => snap = Current))
                           => (Loadable => snap' = Current)),
             life' \notin {"open", "closed"} => watched = {} /\ pending = {}
      PROVE  Tracking'
  <2>1. Loading' = NoJob /\ Unspoilt(Loading)'
    BY <1>e, <1>n DEF Loading
  <2>2. Settled => Unspoilt(job[p])
    BY <1>e, <1>h DEF Tracking
  <2>3. UNCHANGED <<Loadable, Current, Sources>>
    BY <1>e DEF Loadable, Current, Vocab, OnDisk, Sources
  <2>4. Settled' => (Loadable => snap' = Current)
    BY <1>e, <1>0, <2>2 DEF Tracking
  <2> QED
    BY <1>e, <2>1, <2>3, <2>4 DEF Tracking
<1>1. CASE EditEntry
  BY <1>1, TrackingEdit DEF EditEntry, Sources
<1>2. CASE EditVocab
  BY <1>2, TrackingEdit DEF EditVocab, Sources
<1>3. CASE Start
  <2>1. job["main"].pc = "off" /\ life = "down" /\ watched = {} /\ pending = {}
    BY <1>3, <1>0, ProcsAssumption DEF Start, IInv, Locking, Holding, Tracking
  <2>2. Loading' = [job["main"] EXCEPT !.pc = "vocab"]
    BY <1>3, <1>0 DEF Start, Loading
  <2>3. [job["main"] EXCEPT !.pc = "vocab"] = [pc |-> "vocab", vocab |-> Unread, view |-> Blank]
    BY <1>0, <2>1 DEF Sound, Jobs
  <2>4. Unspoilt(Loading)'
    BY <2>2, <2>3 DEF Unspoilt, Blank
  <2> QED
    BY <1>3, <2>1, <2>4 DEF Start, Tracking
<1>4. CASE Watch
  <2>1. reloadMu = Nobody /\ watched = {} /\ pending = {}
    BY <1>4, <1>0 DEF Watch, IInv, Locking, Holding, NoJob, Tracking
  <2>2. Settled' => Settled
    BY <1>4 DEF Watch, Settled
  <2>3. Settled => (Loadable => snap = Current)
    BY <2>1, <1>0 DEF Tracking
  <2>4. Unspoilt(Loading)'
    BY <1>4, <2>1, <1>n DEF Watch, Loading
  <2>5. UNCHANGED <<Loadable, Current, Sources>>
    BY <1>4 DEF Watch, Loadable, Current, Vocab, OnDisk, Sources
  <2>6. watched' \subseteq Sources /\ pending' \subseteq watched'
    BY <1>4, <2>1 DEF Watch, Sources
  <2> QED
    BY <1>4, <2>2, <2>3, <2>4, <2>5, <2>6 DEF Watch, Tracking
<1>5. CASE Event
  <2>1. PICK e \in pending :
          /\ pending' = pending \ {e}
          /\ IF Relevant(e)
             THEN Goto("watch", "lock") /\ watched' \in {watched, watched \cup (Sources \ {"dir"})}
             ELSE UNCHANGED <<watched, job>>
    BY <1>5 DEF Event
  <2>2. e \in Sources
    BY DEF Tracking
  <2>3. Relevant(e)
    BY <2>2 DEF Relevant, Sources
  <2>4. At("watch", "lock")'
    BY <2>1, <2>3, <1>0 DEF Goto, Jobs
  <2>5. ~Settled' \/ life \notin {"open", "closed"}
    BY <1>5, <2>4 DEF Event, Settled
  <2>6. life \in {"open", "closed"}
    BY <2>1 DEF Tracking
  <2>7. /\ UNCHANGED Sources
        /\ pending' \subseteq Sources /\ watched' \subseteq Sources
    BY <2>1, <2>3 DEF Sources, Tracking
  <2> QED
    BY <1>5, <2>1, <2>3, <2>5, <2>6, <2>7 DEF Event, Tracking
<1>6. CASE Close
  <2>1. ~Settled' /\ life' = "closed"
    BY <1>6 DEF Close, Settled
  <2> QED
    BY <1>6, <2>1 DEF Close, Tracking
<1>7. ASSUME NEW r \in Reloaders, Reload(r) PROVE Tracking'
  BY <1>7, <1>w, ProcsAssumption DEF Reload, Goto
<1>8. ASSUME NEW p \in Procs, Lock(p) PROVE Tracking'
  BY <1>8, <1>w DEF Lock, Goto
<1>9. ASSUME NEW p \in Procs, ReadVocabFails(p) \/ ListDirFails(p) \/ ReadEntryFails(p) \/ ConflictsFound(p)
      PROVE  Tracking'
  <2>1. Abort(p) /\ job[p].pc \in Holding
    BY <1>9 DEF ReadVocabFails, ListDirFails, ReadEntryFails, ConflictsFound, Holding
  <2>2. Unspoilt(job[p]) => ~Loadable
    BY <1>9, FailsForCause
  <2>3. CASE p = "main"
    <3>1. life' = "down" /\ watched = {} /\ pending = {}
      BY <2>1, <2>3, <1>0 DEF Abort, IInv, Locking, Tracking
    <3>2. job' = [job EXCEPT ![p] = [NoJob EXCEPT !.pc = "off"]]
      BY <2>1, <2>3 DEF Abort, NoJob
    <3>3. ~Settled'
      BY <3>1 DEF Settled
    <3> QED
      BY <2>1, <3>1, <3>2, <3>3, <1>e DEF Abort
  <2>4. CASE p # "main"
    <3>1. Settled' => Settled
      BY <2>1, <2>4, <1>0 DEF Abort, Settled, Holding
    <3>2. life' \notin {"open", "closed"} => watched = {} /\ pending = {}
      BY <2>1, <2>4 DEF Abort, Tracking
    <3> QED
      BY <2>1, <2>2, <2>4, <3>1, <3>2, <1>e DEF Abort
  <2> QED BY <2>3, <2>4
<1>10. ASSUME NEW p \in Procs, Swap(p) PROVE Tracking'
  <2>1. job[p].pc \in Holding
    BY <1>10 DEF Swap, Holding
  <2>2. Unspoilt(job[p]) => snap' = Current
    BY <1>10, ServesWhatItRead
  <2>3. CASE p = "main"
    <3>1. life = "opening" /\ life' = "opened" /\ watched = {} /\ pending = {}
      BY <1>10, <2>1, <2>3, <1>0 DEF Swap, IInv, Locking, Tracking
    <3>2. Settled' => Settled
      BY <1>10, <3>1 DEF Swap, Settled
    <3>3. job' = [job EXCEPT ![p] = [NoJob EXCEPT !.pc = "off"]]
      BY <1>10, <2>3 DEF Swap, NoJob
    <3> QED
      BY <1>10, <2>1, <2>2, <3>1, <3>2, <3>3, <1>e DEF Swap
  <2>4. CASE p # "main"
    <3>1. Settled' => Settled
      BY <1>10, <2>1, <2>4, <1>0 DEF Swap, Settled, Holding
    <3>2. life' \notin {"open", "closed"} => watched = {} /\ pending = {}
      BY <1>10, <2>4 DEF Swap, Tracking
    <3> QED
      BY <1>10, <2>1, <2>2, <2>4, <3>1, <3>2, <1>e DEF Swap
  <2> QED BY <2>3, <2>4
<1>11. ASSUME NEW p \in Procs, ReadVocab(p) PROVE Tracking'
  <2> DEFINE v == IF HasVocab THEN vocabFile ELSE Open
             w == IF p = "main" THEN Merge(v) ELSE v
             j == [pc |-> "list", vocab |-> w, view |-> job[p].view]
  <2>1. job[p].view = Blank /\ job[p].pc = "vocab"
    BY <1>11, <1>0 DEF ReadVocab, Sound
  <2>2. w = Vocab
    BY NoExtensions DEF Vocab
  <2>3. Unspoilt(j)
    BY <1>11, <2>1, <2>2 DEF ReadVocab, Unspoilt, Blank
  <2>4. job' = [job EXCEPT ![p] = j] /\ UNCHANGED <<Around, reloadMu>>
    BY <1>11 DEF ReadVocab
  <2>5. j.pc \in Holding /\ job[p].pc \in Holding
    BY <2>1 DEF Holding
  <2> HIDE DEF j
  <2> QED
    BY <1>l, <2>3, <2>4, <2>5
<1>12. ASSUME NEW p \in Procs, ListDir(p) PROVE Tracking'
  <2> DEFINE u == [f \in Files |-> IF disk[f] = Gone THEN Gone ELSE Unread]
             j == [pc |-> "read", vocab |-> job[p].vocab, view |-> u]
  <2>1. job[p].pc = "list"
    BY <1>12 DEF ListDir
  <2>2. Unspoilt(job[p]) => Unspoilt(j)
    BY EntriesAssumption DEF Unspoilt
  <2>3. job' = [job EXCEPT ![p] = j] /\ UNCHANGED <<Around, reloadMu>>
    BY <1>12 DEF ListDir
  <2>4. j.pc \in Holding /\ job[p].pc \in Holding
    BY <2>1 DEF Holding
  <2> HIDE DEF j
  <2> QED
    BY <1>l, <2>2, <2>3, <2>4
<1>13. ASSUME NEW p \in Procs, ReadEntry(p) PROVE Tracking'
  <2> PICK f \in Files :
        /\ disk[f] \in Entries \ Broken
        /\ job' = [job EXCEPT ![p].view[f] = disk[f]]
    BY <1>13 DEF ReadEntry
  <2> DEFINE u == [job[p].view EXCEPT ![f] = disk[f]]
             j == [job[p] EXCEPT !.view = u]
  <2>1. j = [pc |-> "read", vocab |-> job[p].vocab, view |-> u] /\ job[p].pc = "read"
    BY <1>13, <1>0 DEF ReadEntry, Jobs
  <2>2. \A g \in Files : u[g] = IF g = f THEN disk[f] ELSE job[p].view[g]
    BY <1>0 DEF Jobs
  <2>3. Unspoilt(job[p]) => Unspoilt(j)
    BY <2>1, <2>2, EntriesAssumption DEF Unspoilt
  <2>4. job' = [job EXCEPT ![p] = j] /\ UNCHANGED <<Around, reloadMu>>
    BY <1>13 DEF ReadEntry
  <2>5. j.pc \in Holding /\ job[p].pc \in Holding
    BY <2>1 DEF Holding
  <2> HIDE DEF j
  <2> QED
    BY <1>l, <2>3, <2>4, <2>5
<1>15. CASE LoseDir
  <2>1. ~Loadable' /\ UNCHANGED <<Loading, reloadMu, Sources>>
    BY <1>15 DEF LoseDir, Loadable, Loading, Sources
  <2>2. Settled' => Settled
    BY <1>15 DEF LoseDir, Settled, Sources, Tracking
  <2>3. Unspoilt(Loading) => Unspoilt(Loading)'
    BY <1>15 DEF LoseDir, Unspoilt, Vocab, Loading
  <2> QED
    BY <1>15, <2>1, <2>2, <2>3 DEF LoseDir, Tracking
<1>16. CASE FindDir
  <2>1. ~Settled' /\ UNCHANGED Sources
    BY <1>16 DEF FindDir, Settled, Sources
  <2> QED
    BY <1>16, <2>1 DEF FindDir, Tracking
<1>14. CASE UNCHANGED vars
  <2>1. UNCHANGED <<Loading, Settled, Around, reloadMu>>
    BY <1>14 DEF vars, Loading, Settled
  <2> QED
    BY <2>1, <1>0, TrackingKeep
<1> QED
  BY <1>1, <1>2, <1>3, <1>4, <1>5, <1>6, <1>7, <1>8, <1>9, <1>10, <1>11, <1>12, <1>13,
     <1>14, <1>15, <1>16 DEF Next, LoadStep

\* Before NewFileStore nothing is watched and nothing is settled.
LEMMA TrackingInit == Init => Tracking
BY DEF Init, Tracking, Settled

\* With an absolute --registry-dir and no --vocabulary-extensions, a watcher at
\* rest that missed nothing serves what is on disk whenever that loads, however
\* edits, loads and callers of Reload overlapped (watchLoop, Reload, reloadMu).
THEOREM NoEditLostHolds ==
  ASSUME ~RelativeDir, Extensions = {}
  PROVE  Spec => []NoEditLost
<1>1. IInv /\ Tracking /\ [Next]_vars => Tracking'
  BY TrackingStep
<1>2. IInv /\ Tracking => NoEditLost
  <2> SUFFICES ASSUME IInv, Tracking, life = "open", watched = Sources, ~missed, pending = {},
                      At("watch", "idle"), Loadable
               PROVE  snap = Current
    BY DEF NoEditLost
  <2>1. Settled
    BY DEF Settled
  <2>2. reloadMu \notin {"main", "watch"}
    BY ProcsAssumption DEF IInv, Locking, Holding
  <2> QED
    BY <2>1, <2>2 DEF Tracking
<1> QED
  BY <1>1, <1>2, TrackingInit, Invariance, PTL DEF Spec
=============================================================================
