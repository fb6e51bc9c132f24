----------------------------- MODULE FileStore ------------------------------
(***************************************************************************)
(* The file-backed registry store (internal/store/filestore.go, with the   *)
(* vocabulary rules of vocabulary.go): one YAML file per agent in a        *)
(* directory, an optional vocabulary file beside it, a watcher that        *)
(* reloads on change, and Reload for callers.  A load reads the vocabulary,*)
(* the directory and each file at different times, while people edit.      *)
(***************************************************************************)
EXTENDS Naturals

CONSTANTS
  Files,       \* names in the registry directory
  Entries,     \* contents a file may have
  Broken,      \* those that fail to parse, lack a required field, ...
  NameOf,      \* the agent each entry declares
  Uses,        \* the vocabulary values each entry uses; none if v1
  Values,      \* vocabulary values
  Gone,        \* a file that does not exist
  Bad,         \* marks a vocabulary file that is missing or does not load, and
  Open,        \* no vocabulary (ValidateOpen): sets that hold no value
  Unread,      \* what a load has yet to read: a set that holds no value, too
  Nobody,      \* no goroutine holds reloadMu
  Reloaders,   \* goroutines that call Reload
  Extensions,  \* values given by --vocabulary-extensions
  Outages,     \* what may happen to the directory: "closed", "moved"
  HasVocab,    \* --vocab-file is given
  RelativeDir  \* --registry-dir is a relative path

Procs == {"main", "watch"} \cup Reloaders

ASSUME EntriesAssumption ==
  /\ Broken \subseteq Entries
  /\ Gone \notin Entries /\ Unread \notin Entries \cup {Gone}
  /\ Uses \in [Entries -> SUBSET Values]
  /\ Extensions \subseteq Values
ASSUME MarkersAssumption ==
  /\ {Bad, Open} \cap SUBSET Values = {} /\ Bad # Open
  /\ Unread \notin (SUBSET Values) \cup {Bad, Open}
ASSUME ProcsAssumption ==
  Reloaders \cap {"main", "watch"} = {} /\ Nobody \notin Procs
ASSUME OutagesAssumption == Outages \subseteq {"closed", "moved"}
ASSUME SwitchAssumption ==
  {HasVocab, RelativeDir} \subseteq BOOLEAN

VARIABLES
  disk,       \* the registry directory
  listable,   \* whether it is there and may be listed
  vocabFile,  \* the vocabulary file
  life,       \* "down", "opening", "opened" (not watched yet), "open", "closed"
  watched,    \* what the watcher hears of: "dir", "vocab"
  pending,    \* events the watcher has yet to deliver: "dir", "vocab"
  snap,       \* the served snapshot: its entries and its vocabulary
  reloadMu,   \* the holder of FileStore.reloadMu
  job,        \* the load each goroutine is running
  \* History, read by one property alone:
  missed      \* a change the watcher cannot hear of: made between the start of
              \* the initial load and the watch, or its event was dropped, or
              \* the directory can be listed again

files == <<disk, listable, vocabFile>>
vars == <<files, life, watched, pending, snap, reloadMu, job, missed>>

NoSnapshot == [agents |-> {}, vocab |-> Open]

\* A load keeps what it has read of the vocabulary and of each file.
Blank == [f \in Files |-> Unread]
NoJob == [pc |-> "off", vocab |-> Unread, view |-> Blank]

Vocabularies == (SUBSET Values) \cup {Open}

TypeOK ==
  /\ disk \in [Files -> Entries \cup {Gone}]
  /\ listable \in BOOLEAN
  /\ vocabFile \in (SUBSET Values) \cup {Bad}
  /\ life \in {"down", "opening", "opened", "open", "closed"}
  /\ watched \subseteq {"dir", "vocab"}
  /\ pending \subseteq {"dir", "vocab"}
  /\ snap \in [agents : SUBSET Entries, vocab : Vocabularies]
  /\ reloadMu \in Procs \cup {Nobody}
  /\ job \in [Procs -> [pc : {"off", "idle", "lock", "vocab", "list", "read"},
                        vocab : Vocabularies \cup {Unread},
                        view : [Files -> Entries \cup {Gone, Unread}]]]
  /\ missed \in BOOLEAN

Init ==
  /\ disk = [f \in Files |-> Gone]
  /\ listable = TRUE
  /\ vocabFile \in (SUBSET Values) \cup {Bad}
  /\ life = "down"
  /\ watched = {}
  /\ pending = {}
  /\ snap = NoSnapshot
  /\ reloadMu = Nobody
  /\ job = [p \in Procs |-> NoJob]
  /\ missed = FALSE

-----------------------------------------------------------------------------
(* Vocabularies. *)

\* mergeExtensions: the extensions join the vocabulary, or form one.
Merge(vocab) ==
  IF Extensions = {} THEN vocab
  ELSE Extensions \cup (IF vocab = Open THEN {} ELSE vocab)

\* validateV2: the values an entry uses that the vocabulary does not have.
Conflicts(entry, vocab) == IF vocab = Open THEN {} ELSE Uses[entry] \ vocab

Names(entries) == {NameOf[e] : e \in entries}

-----------------------------------------------------------------------------
(* People edit the files; the kernel queues an event for the watcher. *)

\* The watcher hears of changes from the moment it is in place, unless the
\* kernel's event queue overflows.
Notify(event) ==
  \/ /\ pending' = pending \cup ({event} \cap watched)
     /\ missed' = (missed \/ life \in {"opening", "opened"})
  \/ /\ event \in watched
     /\ missed' = TRUE
     /\ UNCHANGED pending

EditEntry ==
  /\ \E f \in Files : \E e \in (Entries \cup {Gone}) \ {disk[f]} :
       disk' = [disk EXCEPT ![f] = e]
  /\ Notify("dir")
  /\ UNCHANGED <<listable, vocabFile, life, watched, snap, reloadMu, job>>

EditVocab ==
  /\ HasVocab
  /\ vocabFile' \in ((SUBSET Values) \cup {Bad}) \ {vocabFile}
  /\ Notify("vocab")
  /\ UNCHANGED <<disk, listable, life, watched, snap, reloadMu, job>>

\* The directory is closed to the daemon, of which the watcher takes no notice
\* (isRelevantEvent passes over a chmod), or it is removed or renamed, and the
\* kernel's watch of it ends with an event.
LoseDir ==
  /\ listable
  /\ listable' = FALSE
  /\ \/ "closed" \in Outages /\ UNCHANGED <<watched, pending>>
     \/ /\ "moved" \in Outages
        /\ watched' = watched \ {"dir"}
        /\ pending' = pending \cup ({"dir"} \cap watched)
  /\ UNCHANGED <<disk, vocabFile, life, snap, reloadMu, job, missed>>

\* It is opened again, or is back: nothing that is watched tells.
FindDir ==
  /\ ~listable
  /\ listable' = TRUE
  /\ missed' = TRUE
  /\ UNCHANGED <<disk, vocabFile, life, watched, pending, snap, reloadMu, job>>

-----------------------------------------------------------------------------
(* A load, step by step; "main" runs it in NewFileStore, before any other. *)

At(p, label) == job[p].pc = label
Goto(p, label) == job' = [job EXCEPT ![p].pc = label]

\* Mutant: a reload that finds another one running leaves it at that.
Lock_Try(p) ==
  /\ At(p, "lock")
  /\ IF reloadMu = Nobody THEN reloadMu' = p /\ Goto(p, "vocab")
     ELSE UNCHANGED reloadMu /\ Goto(p, "idle")
  /\ UNCHANGED <<files, life, watched, pending, snap, missed>>

\* Mutant: two reloads may run at once.
Lock_NoMutex(p) ==
  /\ At(p, "lock")
  /\ reloadMu' = p
  /\ Goto(p, "vocab")
  /\ UNCHANGED <<files, life, watched, pending, snap, missed>>

\* reloadMu.Lock; NewFileStore needs none, nothing else runs yet.
Lock(p) ==
  /\ At(p, "lock")
  /\ reloadMu = Nobody
  /\ reloadMu' = p
  /\ Goto(p, "vocab")
  /\ UNCHANGED <<files, life, watched, pending, snap, missed>>

\* The load fails: the snapshot stays, NewFileStore returns the error.
Abort(p) ==
  /\ reloadMu' = Nobody
  /\ IF p = "main"
     THEN life' = "down" /\ job' = [job EXCEPT ![p] = NoJob]
     ELSE life' = life /\ job' = [job EXCEPT ![p] = [NoJob EXCEPT !.pc = "idle"]]
  /\ UNCHANGED <<files, watched, pending, snap, missed>>

\* Mutant: a vocabulary that does not load is used for what it is.
ReadVocab_Unchecked(p) ==
  /\ At(p, "vocab")
  /\ job' = [job EXCEPT ![p] = [pc |-> "list", vocab |-> vocabFile, view |-> @.view]]
  /\ UNCHANGED <<files, life, watched, pending, snap, reloadMu, missed>>

\* resolveVocabulary in NewFileStore; loadVocabulary alone in Reload.
ReadVocab(p) ==
  /\ At(p, "vocab")
  /\ HasVocab => vocabFile # Bad
  /\ LET v == IF HasVocab THEN vocabFile ELSE Open
         w == IF p = "main" THEN Merge(v) ELSE v
     IN  job' = [job EXCEPT ![p] = [pc |-> "list", vocab |-> w, view |-> @.view]]
  /\ UNCHANGED <<files, life, watched, pending, snap, reloadMu, missed>>

ReadVocabFails(p) ==
  /\ At(p, "vocab")
  /\ HasVocab /\ vocabFile = Bad
  /\ Abort(p)

\* Mutant: a directory that cannot be listed is taken for an empty one.
ListDir_Unchecked(p) ==
  /\ At(p, "list")
  /\ LET listed == [f \in Files |-> IF disk[f] = Gone \/ ~listable THEN Gone ELSE Unread]
     IN  job' = [job EXCEPT ![p] = [pc |-> "read", vocab |-> @.vocab, view |-> listed]]
  /\ UNCHANGED <<files, life, watched, pending, snap, reloadMu, missed>>

\* loadDir lists the directory: what is not in the list counts as gone.
ListDir(p) ==
  /\ At(p, "list")
  /\ listable
  /\ LET listed == [f \in Files |-> IF disk[f] = Gone THEN Gone ELSE Unread]
     IN  job' = [job EXCEPT ![p] = [pc |-> "read", vocab |-> @.vocab, view |-> listed]]
  /\ UNCHANGED <<files, life, watched, pending, snap, reloadMu, missed>>

\* os.ReadDir fails, and with it the load.
ListDirFails(p) ==
  /\ At(p, "list")
  /\ ~listable
  /\ Abort(p)

\* Mutant: an entry that conflicts with the vocabulary is kept.
Conflicting_None(p) == {}

\* The files whose entries conflict with the vocabulary (allConflicts), ...
Conflicting(p) ==
  {f \in Files : /\ job[p].view[f] \in Entries
                 /\ Conflicts(job[p].view[f], job[p].vocab) # {}}

\* ... and the entries that have become agents.
Loaded(p) == {job[p].view[f] : f \in {g \in Files : job[p].view[g] \in Entries} \ Conflicting(p)}

\* An entry makes a second file for one agent.
Duplicate(p, entry) ==
  Conflicts(entry, job[p].vocab) = {} /\ NameOf[entry] \in Names(Loaded(p))

\* One file is read and parsed: conflicts are gathered and end the load later.
ReadEntry(p) ==
  /\ At(p, "read")
  /\ \E f \in Files :
       /\ job[p].view[f] = Unread
       /\ disk[f] \in Entries \ Broken
       /\ ~Duplicate(p, disk[f])
       /\ job' = [job EXCEPT ![p].view[f] = disk[f]]
  /\ UNCHANGED <<files, life, watched, pending, snap, reloadMu, missed>>

\* A file that cannot be read any more, one that is broken, or a second file for
\* an agent ends it at once.
ReadEntryFails(p) ==
  /\ At(p, "read")
  /\ \E f \in Files :
       /\ job[p].view[f] = Unread
       /\ \/ ~listable \/ disk[f] \in Broken \cup {Gone}
          \/ disk[f] \in Entries \ Broken /\ Duplicate(p, disk[f])
  /\ Abort(p)

AllRead(p) == \A f \in Files : job[p].view[f] # Unread

ConflictsFound(p) ==
  /\ At(p, "read")
  /\ AllRead(p)
  /\ Conflicting(p) # {}
  /\ Abort(p)

\* The new snapshot replaces the old one under f.mu, the reload lock is freed.
Swap(p) ==
  /\ At(p, "read")
  /\ AllRead(p)
  /\ Conflicting(p) = {}
  /\ snap' = [agents |-> Loaded(p), vocab |-> job[p].vocab]
  /\ reloadMu' = Nobody
  /\ IF p = "main"
     THEN /\ life' = "opened"
          /\ job' = [job EXCEPT ![p] = NoJob]
     ELSE /\ UNCHANGED life
          /\ job' = [job EXCEPT ![p] = [NoJob EXCEPT !.pc = "idle"]]
  /\ UNCHANGED <<files, watched, pending, missed>>

LoadStep(p) ==
  \/ ReadVocab(p) \/ ReadVocabFails(p) \/ ListDir(p) \/ ListDirFails(p)
  \/ ReadEntry(p) \/ ReadEntryFails(p) \/ ConflictsFound(p) \/ Swap(p)

-----------------------------------------------------------------------------
(* The life of the store. *)

\* NewFileStore starts with the initial load.
Start ==
  /\ life = "down"
  /\ life' = "opening"
  /\ job' = [job EXCEPT !["main"].pc = "vocab"]
  /\ reloadMu' = "main"
  /\ missed' = FALSE
  /\ UNCHANGED <<files, watched, pending, snap>>

\* What there is to watch: the directory and the vocabulary file's parent.
Sources == {"dir"} \cup (IF HasVocab THEN {"vocab"} ELSE {})

\* The watches are in place from here on; the vocabulary's may have failed, or
\* there is no watcher at all: the store still serves.
Watch ==
  /\ life = "opened"
  /\ life' = "open"
  /\ watched' \in {{}, {"dir"}, Sources}
  /\ job' = [p \in Procs |->
       [NoJob EXCEPT !.pc = IF p = "main" \/ (p = "watch" /\ watched' = {})
                            THEN "off" ELSE "idle"]]
  /\ UNCHANGED <<files, pending, snap, reloadMu, missed>>

\* isRelevantEvent: the event's absolute path is compared with f.dir as given,
\* and with the absolute vocabulary path.
Relevant(event) == IF event = "dir" THEN ~RelativeDir ELSE HasVocab

\* watchLoop takes an event.  A file that was renamed or removed makes it watch
\* the vocabulary's parent again.
Event ==
  /\ At("watch", "idle")
  /\ \E e \in pending :
       /\ pending' = pending \ {e}
       /\ IF Relevant(e)
          THEN Goto("watch", "lock") /\ watched' \in {watched, watched \cup (Sources \ {"dir"})}
          ELSE UNCHANGED <<watched, job>>
  /\ UNCHANGED <<files, life, snap, reloadMu, missed>>

Reload(r) ==
  /\ At(r, "idle")
  /\ Goto(r, "lock")
  /\ UNCHANGED <<files, life, watched, pending, snap, reloadMu, missed>>

\* Close ends the watcher; a load that is under way is not waited for.
Close ==
  /\ life = "open"
  /\ life' = "closed"
  /\ watched' = {}
  /\ pending' = {}
  /\ UNCHANGED <<files, snap, reloadMu, job, missed>>

-----------------------------------------------------------------------------
Next ==
  \/ EditEntry \/ EditVocab \/ LoseDir \/ FindDir
  \/ Start \/ Watch \/ Event \/ Close
  \/ \E r \in Reloaders : Reload(r)
  \/ \E p \in Procs : Lock(p) \/ LoadStep(p)

Spec == Init /\ [][Next]_vars

(***************************************************************************)
(* A goroutine that can run does; the mutex starves nobody; the watcher    *)
(* delivers what is pending.  Nothing is assumed of editors or of callers. *)
(***************************************************************************)
FairSpec ==
  /\ Spec
  /\ \A p \in Procs : SF_vars(Lock(p)) /\ WF_vars(LoadStep(p))
  /\ WF_vars(Event)

-----------------------------------------------------------------------------
(* What the store promises. *)

\* However edits interleave with a load, what is served was validated as a
\* whole: no broken entry, one entry per agent, no value outside the
\* vocabulary it is served with.
ServedValid ==
  /\ snap.agents \cap Broken = {}
  /\ \A e \in snap.agents : Conflicts(e, snap.vocab) = {}
  /\ \A d, e \in snap.agents : NameOf[d] = NameOf[e] => d = e

\* Who holds reloadMu is loading, and nobody else is; "main" holds it while
\* NewFileStore loads, and nothing else runs before the watch.
Holding == {"vocab", "list", "read"}
Locking ==
  /\ \A p \in Procs : job[p].pc \in Holding <=> reloadMu = p
  /\ life = "opening" <=> reloadMu = "main"
  /\ job["main"].pc \in Holding \cup {"off"}
  /\ life \in {"down", "opening", "opened"} => \A p \in Procs \ {"main"} : job[p] = NoJob

\* What a load has read by each of its steps: nothing broken, and no second
\* file of an agent among those that keep to the vocabulary.
Keeping(j) ==
  {f \in Files : j.view[f] \in Entries /\ Conflicts(j.view[f], j.vocab) = {}}
Sound(j) ==
  /\ j.pc \notin {"list", "read"} => j.vocab = Unread
  /\ j.pc \in {"list", "read"} => j.vocab # Unread
  /\ j.pc # "read" => j.view = Blank
  /\ \A f \in Files : j.view[f] \notin Broken
  /\ \A f, g \in Keeping(j) : NameOf[j.view[f]] = NameOf[j.view[g]] => f = g
Reading == \A p \in Procs : Sound(job[p])

\* The inductive invariant of the proofs.  A load goes over what it has read
\* while others wait for the lock, so that what it swaps in is one whole load.
IInv == TypeOK /\ Locking /\ Reading /\ ServedValid

\* What the load that holds the lock has read so far.
Loading == IF reloadMu = Nobody THEN NoJob ELSE job[reloadMu]

\* The store implements the abstract one: every snapshot is made of what each
\* file held at some moment of one load, which began after the load before it
\* had ended, so nothing older than the last snapshot ever comes back.
Abstract == INSTANCE ObservedRegistry WITH
  vocabFile <- IF HasVocab THEN vocabFile ELSE Open,
  seen <- Loading.view,
  seenVocab <- Loading.vocab
ImplementsObservedRegistry == Abstract!Spec

\* What a load would serve if nothing changed while it ran.
OnDisk == {disk[f] : f \in Files} \ {Gone}
Vocab == Merge(IF HasVocab THEN vocabFile ELSE Open)
Loadable ==
  /\ listable
  /\ HasVocab => vocabFile # Bad
  /\ OnDisk \cap Broken = {}
  /\ \A e \in OnDisk : Conflicts(e, Vocab) = {}
  /\ \A f, g \in Files : f # g /\ disk[f] # Gone /\ disk[g] # Gone
                           => NameOf[disk[f]] # NameOf[disk[g]]

Current == [agents |-> OnDisk, vocab |-> Vocab]

\* Where the registry is given by an absolute path and there are no extensions:
\* a watcher that has nothing to deliver, is not about to reload and missed
\* nothing serves what is on disk, if that loads.  No edit is lost, whatever
\* load of whoever it fell into: "when either changes, the store reloads"
\* (filestore.go, comment on FileStore).
NoEditLost ==
  (/\ life = "open" /\ watched = Sources /\ ~missed
   /\ pending = {} /\ At("watch", "idle"))
    => (Loadable => snap = Current)

\* Why: a load that no edit has overtaken has read what is on disk, ...
Settled ==
  /\ ~missed
  /\ life # "open" => life \in {"opening", "opened"}
  /\ life = "open" => watched = Sources /\ pending = {} /\ ~At("watch", "lock")
Unspoilt(j) ==
  /\ j.vocab # Unread => (HasVocab => vocabFile # Bad) /\ j.vocab = Vocab
  /\ \A f \in Files : j.view[f] # Unread => j.view[f] = disk[f]
  /\ j.pc = "read" => \A f \in Files : disk[f] = Gone => j.view[f] = Gone

\* ... and when the watcher's own load has ended, that is what is served.
Tracking ==
  /\ pending \subseteq Sources /\ watched \subseteq Sources
  /\ life \notin {"open", "closed"} => watched = {} /\ pending = {}
  /\ Settled => Unspoilt(Loading)
  /\ Settled /\ reloadMu \notin {"main", "watch"} => (Loadable => snap = Current)

\* Once people stop editing and have left a registry that loads, a store whose
\* watches are in place and missed nothing ends up serving it, however edits,
\* reloads and callers of Reload overlapped: "when either changes, the store
\* reloads" (filestore.go, comment on FileStore).
CatchesUp ==
  <>[][FALSE]_files
    => <>[](watched = Sources /\ Loadable /\ ~missed
              => snap = Current)
=============================================================================
