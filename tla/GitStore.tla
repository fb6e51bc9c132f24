------------------------------ MODULE GitStore ------------------------------
(***************************************************************************)
(* The git-backed registry store (internal/store/gitstore.go and           *)
(* gitexec.go): a daemon follows one branch of a remote.  Every sync reads *)
(* the remote's SHA with ls-remote, clones into a directory it has just    *)
(* created when the SHA changed, validates the registry there, swaps the   *)
(* served snapshot and deletes the directory served before.                *)
(*                                                                         *)
(* Processes: "main" runs NewGitStore, "poll" is pollLoop, and each of     *)
(* Reloaders is a goroutine that may call Reload.  Close is called once.   *)
(* The process may be killed at any step and started again.                *)
(***************************************************************************)
EXTENDS Naturals

CONSTANTS
  Commits,       \* commits the remote may point at
  Valid,         \* those that buildSnapshot loads without an error
  NoCommit,      \* no commit: a missing branch, nothing read, nothing served
  Dirs,          \* names under the cache directory; when all exist, it is full
  NoDir,         \* the empty directory name
  Absent, Empty, \* a directory that does not exist, one that holds no clone
  Reloaders,     \* goroutines that call Reload
  Nobody,        \* no goroutine holds syncRunMu
  Faults,        \* the troubles the environment may be in
  FailureCap     \* bound: ConsecutiveFailures is counted up to here

\* readyz answers 503 from this many failures on (internal/api/handlers.go).
StaleFetchThreshold == 3

Procs == {"main", "poll"} \cup Reloaders

\* "unreachable": git fails at once.  "hang": git never answers.
\* "norm": directories cannot be removed.
AllFaults == {"none", "unreachable", "hang", "norm"}

ASSUME CommitsAssumption ==
  /\ Valid \subseteq Commits
  /\ NoCommit \notin Commits
ASSUME DirsAssumption ==
  /\ NoDir \notin Dirs
  /\ Absent # Empty
  /\ {Absent, Empty} \cap (Commits \cup {NoCommit}) = {}
ASSUME ProcsAssumption ==
  /\ Reloaders \cap {"main", "poll"} = {}
  /\ Nobody \notin Procs
ASSUME FaultsAssumption ==
  /\ Faults \subseteq AllFaults
  /\ "none" \in Faults
ASSUME FailureCapAssumption ==
  FailureCap \in Nat /\ FailureCap >= StaleFetchThreshold

VARIABLES
  origin,      \* the commit the remote branch points at
  fault,       \* the trouble the environment is in
  fs,          \* what each directory under the cache directory holds
  life,        \* where the process is between NewGitStore and the end of Close
  cancelled,   \* Close has closed g.done and cancelled g.ctx
  closing,     \* the directory Close took from curDir and has yet to remove
  snap,        \* the commit the served snapshot was built from
  curDir,      \* GitStore.curDir
  curSHA,      \* GitStore.curSHA
  syncRunMu,   \* the holder of GitStore.syncRunMu
  failures,    \* SyncStatus.ConsecutiveFailures
  pc,          \* where each goroutine is
  sha,         \* the SHA each goroutine read from origin
  dir,         \* the directory each goroutine is working on: its probe, its
               \* clone, and after the swap the clone it replaced
  failed,      \* whether the sync each goroutine is about to record failed
  \* History, read by the properties alone:
  streak,      \* syncs that failed, in the order they ran, since one succeeded
  seen,        \* commits origin has had since each goroutine's ls-remote
  since        \* commits origin has had since snap was last seen there

served  == <<snap, curDir, curSHA>>
process == <<life, cancelled, closing>>
locals  == <<sha, dir, failed>>
history == <<streak, seen, since>>
vars == <<origin, fault, fs, process, served, syncRunMu, failures, pc, locals, history>>

Heads == Commits \cup {NoCommit}

\* Where a goroutine is while it holds syncRunMu.
InSync == {"lsremote", "compare", "clone", "revparse", "build", "swap", "removeOld"}

TypeOK ==
  /\ origin \in Heads
  /\ fault \in Faults
  /\ fs \in [Dirs -> Heads \cup {Absent, Empty}]
  /\ life \in {"down", "starting", "serving", "closing", "removing", "closed"}
  /\ cancelled \in BOOLEAN
  /\ closing \in Dirs \cup {NoDir}
  /\ snap \in Valid \cup {NoCommit}
  /\ curDir \in Dirs \cup {NoDir}
  /\ curSHA \in Valid \cup {NoCommit}
  /\ syncRunMu \in Procs \cup {Nobody}
  /\ failures \in 0..FailureCap
  /\ pc \in [Procs -> InSync \cup {"off", "idle", "lock", "record", "exited"}]
  /\ sha \in [Procs -> Heads]
  /\ dir \in [Procs -> Dirs \cup {NoDir}]
  /\ failed \in [Procs -> BOOLEAN]
  /\ streak \in 0..FailureCap
  /\ seen \in [Procs -> SUBSET Heads]
  /\ since \in SUBSET Heads

Init ==
  /\ origin \in Heads
  /\ fault = "none"
  /\ fs = [d \in Dirs |-> Absent]
  /\ life = "down"
  /\ cancelled = FALSE
  /\ closing = NoDir
  /\ snap = NoCommit /\ curDir = NoDir /\ curSHA = NoCommit
  /\ syncRunMu = Nobody
  /\ failures = 0
  /\ pc = [p \in Procs |-> "off"]
  /\ sha = [p \in Procs |-> NoCommit]
  /\ dir = [p \in Procs |-> NoDir]
  /\ failed = [p \in Procs |-> FALSE]
  /\ streak = 0
  /\ seen = [p \in Procs |-> {}]
  /\ since = {origin}

-----------------------------------------------------------------------------
(* The environment: the remote and the host. *)

Push ==
  /\ origin' \in Heads \ {origin}
  /\ seen' = [p \in Procs |-> IF seen[p] = {} THEN {} ELSE seen[p] \cup {origin'}]
  /\ since' = since \cup {origin'}
  /\ UNCHANGED <<fault, fs, process, served, syncRunMu, failures, pc, locals, streak>>

SetFault ==
  /\ fault' \in Faults \ {fault}
  /\ UNCHANGED <<origin, fs, process, served, syncRunMu, failures, pc, locals, history>>

-----------------------------------------------------------------------------
(* gitexec.go: one git call, one directory. *)

\* runGit comes back with an exit status of 0.
RemoteAnswers == ~cancelled /\ fault \notin {"unreachable", "hang"}

\* Mutant: git runs without the timeout.
RemoteFails_NoTimeout == cancelled \/ fault = "unreachable"

\* Mutant: git runs outside g.ctx, with neither the timeout nor Close's cancel.
RemoteFails_NoContext == fault = "unreachable"

\* runGit comes back with an error: git failed, GitTimeout ran out, or Close
\* cancelled the context.
RemoteFails == cancelled \/ fault \in {"unreachable", "hang"}

\* os.MkdirTemp: a name that is not in use.
Unused == {d \in Dirs : fs[d] = Absent}

\* removeDir is best effort.
Removed(files, d) ==
  IF d = NoDir \/ fault = "norm" THEN files ELSE [files EXCEPT ![d] = Absent]

\* removeStaleDirs: what an earlier process left, best effort.
StaleRemoved == IF fault = "norm" THEN fs ELSE [d \in Dirs |-> Absent]

\* ConsecutiveFailures++, up to the bound.
Bump(n) == IF n < FailureCap THEN n + 1 ELSE n

\* p moves on to label l.
Go(p, l) == pc' = [pc EXCEPT ![p] = l]

\* p leaves syncNow: the deferred Unlock runs and the outcome is yet to record.
Return(p, f) ==
  /\ syncRunMu' = Nobody
  /\ Go(p, "record")
  /\ failed' = [failed EXCEPT ![p] = f]
  /\ sha' = [sha EXCEPT ![p] = NoCommit]
  /\ dir' = [dir EXCEPT ![p] = NoDir]
  /\ streak' = IF f THEN Bump(streak) ELSE 0

\* Mutant: a failed sync leaves its directory behind.
Fail_Leaks(p) ==
  /\ Return(p, TRUE)
  /\ seen' = [seen EXCEPT ![p] = {}]
  /\ UNCHANGED <<origin, fault, fs, process, served, failures, since>>

\* syncNow returns an error: p's new directory is removed, nothing else changes.
Fail(p) ==
  /\ Return(p, TRUE)
  /\ fs' = Removed(fs, dir[p])
  /\ seen' = [seen EXCEPT ![p] = {}]
  /\ UNCHANGED <<origin, fault, process, served, failures, since>>

-----------------------------------------------------------------------------
(* syncNow, step by step. *)

\* Mutant: sync runs are not serialized.
Lock_NoMutex(p) ==
  /\ pc[p] = "lock"
  /\ \E d \in Unused :
       /\ syncRunMu' = p
       /\ Go(p, "lsremote")
       /\ fs' = [fs EXCEPT ![d] = Empty]
       /\ dir' = [dir EXCEPT ![p] = d]
       /\ UNCHANGED <<origin, fault, process, served, failures, sha, failed, history>>

\* syncRunMu.Lock, then remoteSHA creates its scratch directory.
Lock(p) ==
  /\ pc[p] = "lock"
  /\ syncRunMu = Nobody
  /\ \/ \E d \in Unused :
          /\ syncRunMu' = p
          /\ Go(p, "lsremote")
          /\ fs' = [fs EXCEPT ![d] = Empty]
          /\ dir' = [dir EXCEPT ![p] = d]
          /\ UNCHANGED <<origin, fault, process, served, failures, sha, failed, history>>
     \/ /\ Unused = {}
        /\ Fail(p)

\* git ls-remote answers with the branch's SHA; the scratch directory goes.
LsRemote(p) ==
  /\ pc[p] = "lsremote"
  /\ RemoteAnswers
  /\ origin # NoCommit
  /\ Go(p, "compare")
  /\ sha' = [sha EXCEPT ![p] = origin]
  /\ fs' = Removed(fs, dir[p])
  /\ dir' = [dir EXCEPT ![p] = NoDir]
  /\ seen' = [seen EXCEPT ![p] = {origin}]
  /\ UNCHANGED <<origin, fault, process, served, syncRunMu, failures, failed, streak, since>>

\* Mutant: a failed ls-remote is taken for "nothing has changed".
LsRemoteFails_Ignored(p) ==
  /\ pc[p] = "lsremote"
  /\ RemoteFails \/ origin = NoCommit
  /\ Return(p, FALSE)
  /\ fs' = Removed(fs, dir[p])
  /\ UNCHANGED <<origin, fault, process, served, failures, seen, since>>

\* ls-remote failed, or answered without the branch.
LsRemoteFails(p) ==
  /\ pc[p] = "lsremote"
  /\ RemoteFails \/ origin = NoCommit
  /\ Fail(p)

\* origin still has the commit being served: nothing to do.
Unchanged(p) ==
  /\ pc[p] = "compare"
  /\ sha[p] = curSHA
  /\ Return(p, FALSE)
  /\ since' = seen[p]
  /\ UNCHANGED <<origin, fault, fs, process, served, failures, seen>>

\* Mutant: curSHA is set when the change is seen, not when it is served.
Changed_EarlySHA(p) ==
  /\ pc[p] = "compare"
  /\ sha[p] # curSHA
  /\ \E d \in Unused :
       /\ Go(p, "clone")
       /\ fs' = [fs EXCEPT ![d] = Empty]
       /\ dir' = [dir EXCEPT ![p] = d]
       /\ curSHA' = sha[p]
       /\ UNCHANGED <<origin, fault, process, snap, curDir, syncRunMu, failures, sha, failed, history>>

\* cloneFresh creates its directory.
Changed(p) ==
  /\ pc[p] = "compare"
  /\ sha[p] # curSHA
  /\ \/ \E d \in Unused :
          /\ Go(p, "clone")
          /\ fs' = [fs EXCEPT ![d] = Empty]
          /\ dir' = [dir EXCEPT ![p] = d]
          /\ UNCHANGED <<origin, fault, process, served, syncRunMu, failures, sha, failed, history>>
     \/ /\ Unused = {}
        /\ Fail(p)

\* git clone --depth=1 takes what the branch points at now.
Clone(p) ==
  /\ pc[p] = "clone"
  /\ RemoteAnswers
  /\ origin # NoCommit
  /\ Go(p, "revparse")
  /\ fs' = [fs EXCEPT ![dir[p]] = origin]
  /\ UNCHANGED <<origin, fault, process, served, syncRunMu, failures, locals, history>>

CloneFails(p) ==
  /\ pc[p] = "clone"
  /\ RemoteFails \/ origin = NoCommit
  /\ Fail(p)

\* Mutant: HEAD of the clone is not compared with what ls-remote said.
RevParse_NoCompare(p) ==
  /\ pc[p] = "revparse"
  /\ ~cancelled
  /\ Go(p, "build")
  /\ UNCHANGED <<origin, fault, fs, process, served, syncRunMu, failures, locals, history>>

\* git rev-parse HEAD is the SHA ls-remote gave.  The call is local.
RevParse(p) ==
  /\ pc[p] = "revparse"
  /\ ~cancelled
  /\ fs[dir[p]] = sha[p]
  /\ Go(p, "build")
  /\ UNCHANGED <<origin, fault, fs, process, served, syncRunMu, failures, locals, history>>

\* The branch moved between ls-remote and clone, or Close cancelled the call.
RevParseFails(p) ==
  /\ pc[p] = "revparse"
  /\ cancelled \/ fs[dir[p]] # sha[p]
  /\ Fail(p)

\* Mutant: an entry that does not load is skipped instead of refused.
Build_Lenient(p) ==
  /\ pc[p] = "build"
  /\ Go(p, "swap")
  /\ UNCHANGED <<origin, fault, fs, process, served, syncRunMu, failures, locals, history>>

\* buildSnapshot: the vocabulary and every entry of the clone load.
Build(p) ==
  /\ pc[p] = "build"
  /\ fs[dir[p]] \in Valid
  /\ Go(p, "swap")
  /\ UNCHANGED <<origin, fault, fs, process, served, syncRunMu, failures, locals, history>>

BuildFails(p) ==
  /\ pc[p] = "build"
  /\ fs[dir[p]] \notin Valid
  /\ Fail(p)

\* Under g.mu the snapshot, its directory and its SHA are replaced together.
Swap(p) ==
  /\ pc[p] = "swap"
  /\ snap' = fs[dir[p]]
  /\ curDir' = dir[p]
  /\ curSHA' = sha[p]
  /\ dir' = [dir EXCEPT ![p] = curDir]
  /\ Go(p, "removeOld")
  /\ since' = seen[p]
  /\ UNCHANGED <<origin, fault, fs, process, syncRunMu, failures, sha, failed, streak, seen>>

\* The directory served before is removed, then syncNow returns nil.
RemoveOld(p) ==
  /\ pc[p] = "removeOld"
  /\ Return(p, FALSE)
  /\ fs' = Removed(fs, dir[p])
  /\ UNCHANGED <<origin, fault, process, served, failures, seen, since>>

\* Mutant: a success does not reset the count.
RecordSync_NoReset(p) ==
  /\ pc[p] = "record"
  /\ p # "main"
  /\ Go(p, "idle")
  /\ failures' = IF failed[p] THEN Bump(failures) ELSE failures
  /\ failed' = [failed EXCEPT ![p] = FALSE]
  /\ seen' = [seen EXCEPT ![p] = {}]
  /\ UNCHANGED <<origin, fault, fs, process, served, syncRunMu, sha, dir, streak, since>>

\* recordSync, after the lock on the run has been released.
RecordSync(p) ==
  /\ pc[p] = "record"
  /\ p # "main"
  /\ Go(p, "idle")
  /\ failures' = IF failed[p] THEN Bump(failures) ELSE 0
  /\ failed' = [failed EXCEPT ![p] = FALSE]
  /\ seen' = [seen EXCEPT ![p] = {}]
  /\ UNCHANGED <<origin, fault, fs, process, served, syncRunMu, sha, dir, streak, since>>

-----------------------------------------------------------------------------
(* The life of the process. *)

\* The process is gone; only the cache directory outlives it.
Gone ==
  /\ life' = "down"
  /\ cancelled' = FALSE
  /\ closing' = NoDir
  /\ snap' = NoCommit /\ curDir' = NoDir /\ curSHA' = NoCommit
  /\ syncRunMu' = Nobody
  /\ failures' = 0
  /\ pc' = [p \in Procs |-> "off"]
  /\ sha' = [p \in Procs |-> NoCommit]
  /\ dir' = [p \in Procs |-> NoDir]
  /\ failed' = [p \in Procs |-> FALSE]
  /\ streak' = 0
  /\ seen' = [p \in Procs |-> {}]
  /\ since' = {origin}
  /\ UNCHANGED <<origin, fault, fs>>

\* NewGitStore removes stale directories and runs the first sync.
NewGitStore ==
  /\ life = "down"
  /\ life' = "starting"
  /\ fs' = StaleRemoved
  /\ Go("main", "lock")
  /\ UNCHANGED <<origin, fault, cancelled, closing, served, syncRunMu, failures, locals, history>>

\* The first sync succeeded: record it and start the poll loop.
Opened ==
  /\ pc["main"] = "record"
  /\ ~failed["main"]
  /\ life' = "serving"
  /\ pc' = [p \in Procs |-> IF p = "main" THEN "off" ELSE "idle"]
  /\ failures' = 0
  /\ seen' = [seen EXCEPT !["main"] = {}]
  /\ UNCHANGED <<origin, fault, fs, cancelled, closing, served, syncRunMu, locals, streak, since>>

\* The first sync failed: NewGitStore returns the error and the daemon exits.
OpenFails ==
  /\ pc["main"] = "record"
  /\ failed["main"]
  /\ Gone

\* pollLoop: the ticker fires.
Tick ==
  /\ pc["poll"] = "idle"
  /\ Go("poll", "lock")
  /\ UNCHANGED <<origin, fault, fs, process, served, syncRunMu, failures, locals, history>>

\* pollLoop sees g.done and closes g.loopDone.
LoopExits ==
  /\ pc["poll"] = "idle"
  /\ cancelled
  /\ Go("poll", "exited")
  /\ UNCHANGED <<origin, fault, fs, process, served, syncRunMu, failures, locals, history>>

Reload(r) ==
  /\ pc[r] = "idle"
  /\ Go(r, "lock")
  /\ UNCHANGED <<origin, fault, fs, process, served, syncRunMu, failures, locals, history>>

\* Close closes g.done and cancels g.ctx, ...
Close ==
  /\ life = "serving"
  /\ life' = "closing"
  /\ cancelled' = TRUE
  /\ UNCHANGED <<origin, fault, fs, closing, served, syncRunMu, failures, pc, locals, history>>

\* Mutant: Close does not wait for the poll loop.
TakeDir_NoWait ==
  /\ life = "closing"
  /\ life' = "removing"
  /\ closing' = curDir
  /\ curDir' = NoDir
  /\ UNCHANGED <<origin, fault, fs, cancelled, snap, curSHA, syncRunMu, failures, pc, locals, history>>

\* ... waits for the loop to exit and takes the served directory, ...
TakeDir ==
  /\ life = "closing"
  /\ pc["poll"] = "exited"
  /\ life' = "removing"
  /\ closing' = curDir
  /\ curDir' = NoDir
  /\ UNCHANGED <<origin, fault, fs, cancelled, snap, curSHA, syncRunMu, failures, pc, locals, history>>

\* ... and removes it.
Closed ==
  /\ life = "removing"
  /\ life' = "closed"
  /\ fs' = Removed(fs, closing)
  /\ closing' = NoDir
  /\ UNCHANGED <<origin, fault, cancelled, served, syncRunMu, failures, pc, locals, history>>

\* The process is killed, or ends after Close.
Kill ==
  /\ life # "down"
  /\ Gone

-----------------------------------------------------------------------------
SyncStep(p) ==
  \/ LsRemote(p) \/ LsRemoteFails(p)
  \/ Unchanged(p) \/ Changed(p)
  \/ Clone(p) \/ CloneFails(p)
  \/ RevParse(p) \/ RevParseFails(p)
  \/ Build(p) \/ BuildFails(p)
  \/ Swap(p) \/ RemoveOld(p)
  \/ RecordSync(p)

Next ==
  \/ Push \/ SetFault
  \/ NewGitStore \/ Opened \/ OpenFails
  \/ Tick \/ LoopExits
  \/ Close \/ TakeDir \/ Closed
  \/ Kill
  \/ \E r \in Reloaders : Reload(r)
  \/ \E p \in Procs : Lock(p) \/ SyncStep(p)

Spec == Init /\ [][Next]_vars

(***************************************************************************)
(* Fairness.  A goroutine that can run does (WF).  A goroutine waiting for *)
(* syncRunMu gets it in the end: Go's mutex hands over to a waiter starved *)
(* for a millisecond (SF).  The ticker keeps firing (WF); with g.done      *)
(* closed, select picks among its ready cases at random, so the loop does  *)
(* not ignore g.done for ever (SF).  Nothing is assumed of the remote, the *)
(* host, callers of Reload, Close, Kill or a restart.                      *)
(***************************************************************************)
Fairness ==
  /\ \A p \in Procs : SF_vars(Lock(p)) /\ WF_vars(SyncStep(p))
  /\ WF_vars(Opened) /\ WF_vars(OpenFails)
  /\ WF_vars(Tick) /\ SF_vars(LoopExits)
  /\ WF_vars(TakeDir) /\ WF_vars(Closed)

FairSpec == Spec /\ Fairness

-----------------------------------------------------------------------------
(* Why: the inductive invariant behind the safety properties below. *)

Cloned == {"clone", "revparse", "build", "swap"}

\* One sync at a time, and only a running sync owns a directory.
OneSync ==
  \A p \in Procs :
    /\ pc[p] \in InSync <=> syncRunMu = p
    /\ dir[p] # NoDir => pc[p] \in InSync

\* NewGitStore is on its way exactly while "main" runs, nothing else runs until
\* it is through, and nothing is held while the process is down.
Starting ==
  /\ life = "starting" <=> pc["main"] # "off"
  /\ life \in {"down", "starting"} => \A p \in Procs \ {"main"} : pc[p] = "off"
  /\ life = "down" => curDir = NoDir /\ closing = NoDir

\* What is served, and which of it Close may have taken away.
Serving ==
  /\ snap = curSHA
  /\ curDir # NoDir => fs[curDir] = snap /\ snap # NoCommit
  /\ life \notin {"removing", "closed"} => (snap # NoCommit => curDir # NoDir)
  /\ life = "serving" => snap # NoCommit
  /\ closing # NoDir => fs[closing] # Absent /\ closing # curDir

\* What a sync has established by the time it reaches a label.
Progress ==
  \A p \in Procs :
    /\ dir[p] # NoDir => dir[p] \notin {curDir, closing}
    /\ pc[p] \in {"lsremote"} \cup Cloned => dir[p] # NoDir
    /\ pc[p] \in {"compare"} \cup Cloned => sha[p] # NoCommit
    /\ pc[p] \in {"build", "swap"} => fs[dir[p]] = sha[p]
    /\ pc[p] = "swap" => sha[p] \in Valid
    /\ pc[p] = "removeOld" => snap # NoCommit
    /\ pc[p] = "record" /\ ~failed[p] => snap # NoCommit

\* What a sync knows of origin, and how it relates to what is known of snap.
Knowledge ==
  /\ origin \in since
  /\ snap # NoCommit => snap \in since
  /\ \A p \in Procs :
       /\ pc[p] \in {"compare"} \cup Cloned
            => {sha[p], origin} \subseteq seen[p] /\ seen[p] \subseteq since
       /\ pc[p] = "removeOld" \/ (pc[p] = "record" /\ ~failed[p])
            => since \subseteq seen[p]

\* The inductive invariant: a sync that holds the lock knows what it did, and
\* nothing that runs beside it (Close, a reload that has returned) undoes it.
IInv == TypeOK /\ OneSync /\ Starting /\ Serving /\ Progress /\ Knowledge

\* Every directory there is has an owner who will remove it: the snapshot that
\* is served, Close, or a sync under way.  A process that is down owns none; the
\* next one starts by removing what it finds.
Existing == {d \in Dirs : fs[d] # Absent}
Owned ==
  /\ life # "down" =>
       \A d \in Existing : d \in {curDir, closing} \/ \E p \in Procs : d = dir[p]
  /\ closing # NoDir => life = "removing"
  /\ \A p \in Procs : pc[p] = "compare" => dir[p] = NoDir

-----------------------------------------------------------------------------
(* What the store promises. *)

\* The snapshot, the SHA and the directory of the store always belong together:
\* no swap, failed sync, clean-up or Close deletes or replaces the clone that
\* is served, nothing invalid is ever served, and an open store always serves.
ServedIntact ==
  /\ snap = curSHA
  /\ curDir # NoDir => fs[curDir] = snap
  /\ life = "serving" => curDir # NoDir /\ snap \in Valid

\* A sync that succeeds leaves served a commit origin had during that sync,
\* whatever other goroutines did meanwhile: Reload returning nil is as good as
\* reading origin.
ReloadFresh ==
  \A p \in Procs : pc[p] = "record" /\ ~failed[p] => snap \in seen[p]

\* The store implements the abstract one: whole snapshots, valid ones only,
\* and never back to one that origin had left before the served one was seen.
Abstract == INSTANCE SnapshotStore
ImplementsSnapshotStore == Abstract!Spec

\* Where directories can be removed, the cache directory of an open store at
\* rest holds the served clone and nothing else, whatever failed, was killed
\* or was left over from an earlier process.
CacheClean == life = "serving" /\ syncRunMu = Nobody => Existing = {curDir}

\* Once Close has taken the served directory no sync that was still under way
\* puts another in its place, which nobody would remove: Close "removes the
\* served clone directory" (gitstore.go, comment on Close).
ClosedClean == life \in {"removing", "closed"} => curDir = NoDir

\* With no sync between its end and its recordSync, ConsecutiveFailures counts
\* the failed syncs since the last success (gitstore.go, SyncStatus).
StatusAtRest ==
  life # "down" /\ (\A p \in Procs : pc[p] # "record") => failures = streak

Troubled == fault \in {"unreachable", "hang"}

\* Once origin stays on a valid commit and answers, the store ends up serving
\* that commit with no failure counted, whenever it is open and not closing.
Converges ==
  \A c \in Valid :
    <>[](origin = c /\ fault = "none")
      => <>[](life = "serving" => snap = c /\ failures = 0)

\* Once origin stays unreachable, silent or invalid, an open store's failure
\* count ends up at the threshold where readyz answers 503: a hung git or a
\* broken commit cannot hide behind the snapshot that is still served.
StaleShows ==
  <>[](Troubled \/ origin \notin Valid)
    => <>[](life = "serving" => failures >= StaleFetchThreshold)

\* Every call of Reload returns, even with git hanging and other syncs queued.
ReloadReturns ==
  \A r \in Reloaders : pc[r] = "lock" ~> pc[r] \in {"idle", "off"}

\* Close returns, whatever git call was in flight: "so shutdown is bounded".
CloseReturns == life = "closing" ~> life \in {"closed", "down"}
=============================================================================
