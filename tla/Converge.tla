------------------------------ MODULE Converge ------------------------------
(***************************************************************************)
(* "clagentic-directory update" (internal/update/converge.go): one run     *)
(* brings a host in line with its values file.  It exports the reviewed    *)
(* commit, builds into a staged file unless the install record says the    *)
(* installed binary is that commit's build, then changes the unit, the     *)
(* binary, the superseded units and its own unit, restarts when needed,    *)
(* writes the record and waits for readiness.  There is no rollback and no *)
(* lock: a step may fail, a run may be killed between two steps, and two   *)
(* callers may run at once.                                                *)
(***************************************************************************)
EXTENDS Naturals

CONSTANTS
  Runners,     \* concurrent invocations of the update subcommand
  Units,       \* unit file texts the values file may call for
  Commits,     \* source commits, each with the package to build
  Bytes,       \* contents of a binary
  BuildOf,     \* the commit each binary was built from, None for a foreign one
  Own,         \* the unit that update installs
  Supersedes,  \* the units the values file names under "supersedes"
  None,        \* no file, no process, no commit
  CanFail,     \* a step may fail
  CanDie       \* a run may be killed

Others == Supersedes \ {Own}

ASSUME NoneAssumption ==
  /\ None \notin Units \cup Commits \cup Bytes \cup Supersedes \cup {Own}
  /\ None \notin [unit : Units, bin : Bytes] \cup [commit : Commits, sha : Bytes]
ASSUME BuildOfAssumption ==
  /\ BuildOf \in [Bytes -> Commits \cup {None}]
  /\ \A c \in Commits : \E x \in Bytes : BuildOf[x] = c
ASSUME SwitchAssumption == CanFail \in BOOLEAN /\ CanDie \in BOOLEAN

VARIABLES
  source,   \* the commit the reviewed ref points at
  values,   \* the unit text the values file calls for
  unitFile, \* the installed unit file
  loaded,   \* the unit text systemd has in memory
  binFile,  \* the installed binary
  staged,   \* <install path>.update-new
  record,   \* the install record beside the binary
  running,  \* the unit text and binary the service runs with
  active,   \* other units that are active
  enabled,  \* units that are enabled
  run,      \* the invocations, one record each
  \* History, read by one property alone:
  halfway   \* a run stopped between its first write and its restart, and the
            \* host has not been restarted since

host == <<unitFile, loaded, binFile, record, running, active, enabled>>
vars == <<source, values, host, staged, run, halfway>>

\* Exit codes: done, invalid values, not root, a step failed, not ready.
ExitOK == 0
ExitInvalid == 2
ExitPrivilege == 3
ExitApply == 4
ExitReadyz == 5

\* An invocation that has not started.
Idle ==
  [pc |-> "idle", unit |-> None, commit |-> None, old |-> None, new |-> None,
   built |-> FALSE, unitChanged |-> FALSE, binaryChanged |-> FALSE,
   code |-> ExitOK, noop |-> FALSE]

Records == [commit : Commits, sha : Bytes]
Labels == {"idle", "export", "inspect", "build", "compare", "unit", "reload",
           "swap", "supersede", "enable", "restart", "record", "ready", "done"}
Codes == {ExitOK, ExitInvalid, ExitPrivilege, ExitApply, ExitReadyz}
Invocations ==
  [pc : Labels, unit : Units \cup {None}, commit : Commits \cup {None},
   old : Bytes \cup {None}, new : Bytes \cup {None}, built : BOOLEAN,
   unitChanged : BOOLEAN, binaryChanged : BOOLEAN, code : Codes, noop : BOOLEAN]

TypeOK ==
  /\ source \in Commits
  /\ values \in Units
  /\ unitFile \in Units \cup {None}
  /\ loaded \in Units \cup {None}
  /\ binFile \in Bytes \cup {None}
  /\ staged \in Bytes \cup {None}
  /\ record \in Records \cup {None}
  /\ running \in [unit : Units, bin : Bytes] \cup {None}
  /\ active \subseteq Others
  /\ enabled \subseteq Others \cup {Own}
  /\ run \in [Runners -> Invocations]
  /\ halfway \in BOOLEAN

\* A host update has never run on; other units may be there.
Init ==
  /\ source \in Commits
  /\ values \in Units
  /\ unitFile = None
  /\ loaded = None
  /\ binFile = None
  /\ staged = None
  /\ record = None
  /\ running = None
  /\ active \in SUBSET Others
  /\ enabled \in SUBSET Others
  /\ run = [r \in Runners |-> Idle]
  /\ halfway = FALSE

\* The host is what the values file and commit c call for, installed and running.
Converged(u, c) ==
  /\ unitFile = u /\ loaded = u
  /\ binFile # None /\ BuildOf[binFile] = c
  /\ record = [commit |-> c, sha |-> binFile]
  /\ running = [unit |-> u, bin |-> binFile]
  /\ Own \in enabled
  /\ Others \cap (active \cup enabled) = {}

-----------------------------------------------------------------------------
(* The world around a run. *)

\* A commit is merged; the deployment-config repo changes the values file.
Merge ==
  /\ source' \in Commits \ {source}
  /\ UNCHANGED <<values, host, staged, run, halfway>>

Reconfigure ==
  /\ values' \in Units \ {values}
  /\ UNCHANGED <<source, host, staged, run, halfway>>

\* Nobody else touches the host while a run is going on.
Quiet == \A r \in Runners : run[r].pc = "idle"

\* The service ends and is not brought back.
ServiceStops ==
  /\ Quiet
  /\ running # None
  /\ running' = None
  /\ UNCHANGED <<source, values, unitFile, loaded, binFile, record, active, enabled, staged, run, halfway>>

\* The service fails and systemd starts it again (Restart=on-failure).
Respawn ==
  /\ running # None
  /\ running' = [unit |-> loaded, bin |-> binFile]
  /\ UNCHANGED <<source, values, unitFile, loaded, binFile, record, active, enabled, staged, run, halfway>>

\* Somebody replaces the binary by one that no reviewed commit built.
Tamper ==
  /\ Quiet
  /\ binFile # None
  /\ binFile' \in {x \in Bytes : BuildOf[x] = None}
  /\ UNCHANGED <<source, values, unitFile, loaded, record, running, active, enabled, staged, run, halfway>>

\* The host restarts: systemd reads the unit files and starts what is enabled.
Boot ==
  /\ Quiet
  /\ loaded' = unitFile
  /\ running' = IF Own \in enabled /\ unitFile # None /\ binFile # None
                THEN [unit |-> unitFile, bin |-> binFile] ELSE None
  /\ active' = enabled \ {Own}
  /\ halfway' = FALSE
  /\ UNCHANGED <<source, values, unitFile, binFile, record, enabled, staged, run>>

-----------------------------------------------------------------------------
(* Converge, step by step. *)

At(r, label) == run[r].pc = label
Goto(r, label) == run' = [run EXCEPT ![r].pc = label]

\* What r has changed on the host may not be what runs yet.
MidChange(r) == run[r].pc \in {"reload", "swap", "supersede", "enable", "restart"}

End(r, code) == run' = [run EXCEPT ![r].pc = "done", ![r].code = code]

\* Converge returns.  The deferred removal of the staged file runs first; when
\* it fails, a run that would have succeeded fails.
Exit(r, code) ==
  /\ halfway' = (halfway \/ MidChange(r))
  /\ \/ /\ staged' = IF run[r].built THEN None ELSE staged
        /\ End(r, code)
     \/ /\ CanFail /\ run[r].built /\ staged # None
        /\ staged' = staged
        /\ End(r, IF code = ExitOK THEN ExitApply ELSE code)

\* The values are valid, the caller is root, the token and the installed unit
\* can be read: the rendered unit is compared with the installed one.
Begin(r) ==
  /\ At(r, "idle")
  /\ run' = [run EXCEPT ![r].pc = "export", ![r].unit = values,
                        ![r].unitChanged = (values # unitFile)]
  /\ UNCHANGED <<source, values, host, staged, halfway>>

\* Export fetches the reviewed ref into a private directory.
Export(r) ==
  /\ At(r, "export")
  /\ run' = [run EXCEPT ![r].pc = "inspect", ![r].commit = source,
                        ![r].noop = Converged(run[r].unit, source)]
  /\ UNCHANGED <<source, values, host, staged, halfway>>

\* Mutant: the record is believed without looking at the installed binary.
Current_NoDigest(c) == binFile # None /\ record # None /\ record.commit = c

\* Mutant: a missing record is taken for a current one.
Current_Missing(c) == record = None \/ record = [commit |-> c, sha |-> binFile]

\* Mutant: there is no record to believe.
Current_Never(c) == FALSE

\* The record names commit c and still describes the installed binary.
Current(c) == binFile # None /\ record = [commit |-> c, sha |-> binFile]

\* The installed binary and the record decide whether to build.
Inspect(r) ==
  /\ At(r, "inspect")
  /\ run' = [run EXCEPT ![r].pc = IF Current(run[r].commit) THEN "unit" ELSE "build",
                        ![r].old = binFile]
  /\ UNCHANGED <<source, values, host, staged, halfway>>

\* go build writes the staged file; two builds of a commit may differ.
Build(r) ==
  /\ At(r, "build")
  /\ \E x \in Bytes : BuildOf[x] = run[r].commit /\ staged' = x
  /\ run' = [run EXCEPT ![r].pc = "compare", ![r].built = TRUE]
  /\ UNCHANGED <<source, values, host, halfway>>

\* The build fails, and what it may have left of the staged file is removed.
BuildFails(r) ==
  /\ At(r, "build")
  /\ CanFail
  /\ staged' \in {None, staged}
  /\ End(r, ExitApply)
  /\ UNCHANGED <<source, values, host, halfway>>

\* Mutant: a build is installed only where there was no binary.
Compare_OnlyMissing(r) ==
  /\ At(r, "compare")
  /\ staged # None
  /\ run' = [run EXCEPT ![r].pc = "unit", ![r].new = staged,
                        ![r].binaryChanged = (run[r].old = None)]
  /\ UNCHANGED <<source, values, host, staged, halfway>>

\* The staged file is read back and its digest compared with the installed one.
Compare(r) ==
  /\ At(r, "compare")
  /\ staged # None
  /\ run' = [run EXCEPT ![r].pc = "unit", ![r].new = staged,
                        ![r].binaryChanged = (run[r].old # staged)]
  /\ UNCHANGED <<source, values, host, staged, halfway>>

\* Mutant: daemon-reload is left to systemctl enable.
WriteUnit_NoReload(r) ==
  /\ At(r, "unit")
  /\ unitFile' = IF run[r].unitChanged THEN run[r].unit ELSE unitFile
  /\ Goto(r, "swap")
  /\ UNCHANGED <<source, values, loaded, binFile, record, running, active, enabled, staged, halfway>>

\* The unit file is replaced when it differs.
WriteUnit(r) ==
  /\ At(r, "unit")
  /\ IF run[r].unitChanged
     THEN unitFile' = run[r].unit /\ Goto(r, "reload")
     ELSE UNCHANGED unitFile /\ Goto(r, "swap")
  /\ UNCHANGED <<source, values, loaded, binFile, record, running, active, enabled, staged, halfway>>

\* systemctl daemon-reload.
DaemonReload(r) ==
  /\ At(r, "reload")
  /\ loaded' = unitFile
  /\ Goto(r, "swap")
  /\ UNCHANGED <<source, values, unitFile, binFile, record, running, active, enabled, staged, halfway>>

\* The staged file is renamed over the installed binary when it differs.
Swap(r) ==
  /\ At(r, "swap")
  /\ IF run[r].binaryChanged
     THEN staged # None /\ binFile' = staged /\ staged' = None
     ELSE UNCHANGED <<binFile, staged>>
  /\ Goto(r, "supersede")
  /\ UNCHANGED <<source, values, unitFile, loaded, record, running, active, enabled, halfway>>

\* Another run has taken or removed the staged file.
StagedGone(r) ==
  /\ \/ At(r, "compare")
     \/ At(r, "swap") /\ run[r].binaryChanged
  /\ staged = None
  /\ Exit(r, ExitApply)
  /\ UNCHANGED <<source, values, host>>

\* A superseded unit that is active is stopped, ...
StopOther(r) ==
  /\ At(r, "supersede")
  /\ \E u \in Others \cap active : active' = active \ {u}
  /\ UNCHANGED <<source, values, unitFile, loaded, binFile, record, running, enabled, staged, run, halfway>>

\* ... and disabled if it is enabled, on which systemctl reloads the manager.
DisableOther(r) ==
  /\ At(r, "supersede")
  /\ \E u \in (Others \cap enabled) \ active : enabled' = enabled \ {u}
  /\ loaded' = unitFile
  /\ UNCHANGED <<source, values, unitFile, binFile, record, running, active, staged, run, halfway>>

OthersDone(r) ==
  /\ At(r, "supersede")
  /\ Others \cap (active \cup enabled) = {}
  /\ Goto(r, "enable")
  /\ UNCHANGED <<source, values, host, staged, halfway>>

\* The own unit is enabled if it is not; systemctl enable reloads the manager.
Enable(r) ==
  /\ At(r, "enable")
  /\ IF Own \in enabled THEN UNCHANGED <<enabled, loaded>>
     ELSE enabled' = enabled \cup {Own} /\ loaded' = unitFile
  /\ Goto(r, "restart")
  /\ UNCHANGED <<source, values, unitFile, binFile, record, running, active, staged, halfway>>

\* Mutant: a new binary alone does not restart the service.
NeedsRestart_Unit(r) == run[r].unitChanged \/ running = None

NeedsRestart(r) == run[r].unitChanged \/ run[r].binaryChanged \/ running = None

\* The service is restarted when its unit or binary changed, or it is down.
Restart(r) ==
  /\ At(r, "restart")
  /\ IF NeedsRestart(r)
     THEN /\ loaded' = IF loaded = None THEN unitFile ELSE loaded
          /\ running' = [unit |-> loaded', bin |-> binFile]
     ELSE UNCHANGED <<loaded, running>>
  /\ Goto(r, "record")
  /\ UNCHANGED <<source, values, unitFile, binFile, record, active, enabled, staged, halfway>>

\* systemctl restart fails; the old process may be gone.
RestartFails(r) ==
  /\ At(r, "restart")
  /\ CanFail
  /\ NeedsRestart(r)
  /\ running' \in {None, running}
  /\ Exit(r, ExitApply)
  /\ UNCHANGED <<source, values, unitFile, loaded, binFile, record, active, enabled>>

\* The install record is written if a build ran.
WriteRecord(r) ==
  /\ At(r, "record")
  /\ record' = IF ~run[r].built THEN record
               ELSE [commit |-> run[r].commit,
                     sha |-> IF run[r].binaryChanged THEN run[r].new ELSE run[r].old]
  /\ Goto(r, "ready")
  /\ UNCHANGED <<source, values, unitFile, loaded, binFile, running, active, enabled, staged, halfway>>

\* /readyz answers 200 within the timeout.
Ready(r) ==
  /\ At(r, "ready")
  /\ running # None
  /\ Exit(r, ExitOK)
  /\ UNCHANGED <<source, values, host>>

NotReady(r) ==
  /\ At(r, "ready")
  /\ running = None \/ CanFail
  /\ Exit(r, ExitReadyz)
  /\ UNCHANGED <<source, values, host>>

\* Any other step may fail without an effect; Begin and Export tell a bad
\* values file and a missing privilege from a failure.
StepFails(r) ==
  /\ CanFail
  /\ \/ At(r, "idle") /\ \E c \in {ExitInvalid, ExitPrivilege, ExitApply} : Exit(r, c)
     \/ At(r, "export") /\ \E c \in {ExitInvalid, ExitApply} : Exit(r, c)
     \/ /\ run[r].pc \in {"inspect", "compare", "supersede", "enable", "restart", "reload"}
        /\ Exit(r, ExitApply)
     \/ At(r, "unit") /\ run[r].unitChanged /\ Exit(r, ExitApply)
     \/ At(r, "swap") /\ run[r].binaryChanged /\ Exit(r, ExitApply)
     \/ At(r, "record") /\ run[r].built /\ Exit(r, ExitApply)
  /\ UNCHANGED <<source, values, host>>

\* The process prints its result and ends.
Report(r) ==
  /\ At(r, "done")
  /\ run' = [run EXCEPT ![r] = Idle]
  /\ UNCHANGED <<source, values, host, staged, halfway>>

\* The process is killed: nothing deferred runs.
Kill(r) ==
  /\ CanDie
  /\ run[r].pc \notin {"idle", "done"}
  /\ run' = [run EXCEPT ![r] = Idle]
  /\ halfway' = (halfway \/ MidChange(r))
  /\ UNCHANGED <<source, values, host, staged>>

-----------------------------------------------------------------------------
Next ==
  \/ Merge \/ Reconfigure \/ ServiceStops \/ Respawn \/ Tamper \/ Boot
  \/ \E r \in Runners :
       \/ Begin(r) \/ Export(r) \/ Inspect(r)
       \/ Build(r) \/ BuildFails(r) \/ Compare(r)
       \/ WriteUnit(r) \/ DaemonReload(r) \/ Swap(r) \/ StagedGone(r)
       \/ StopOther(r) \/ DisableOther(r) \/ OthersDone(r)
       \/ Enable(r) \/ Restart(r) \/ RestartFails(r) \/ WriteRecord(r)
       \/ Ready(r) \/ NotReady(r) \/ StepFails(r) \/ Report(r) \/ Kill(r)

Spec == Init /\ [][Next]_vars

-----------------------------------------------------------------------------
(* What update promises. *)

\* A record that describes the installed binary names the commit that binary
\* was built from: "the record can only ever cause a rebuild, not skip one for
\* a different commit" (currency.go, comment on current).
RecordTruthful ==
  record # None /\ record.sha = binFile => BuildOf[binFile] = record.commit

\* The host has the unit r read and a build of the commit r exported, with its
\* record, and the own unit is enabled and up, the superseded ones are not.
Installed(r) ==
  /\ unitFile = run[r].unit
  /\ run[r].commit # None /\ binFile # None /\ BuildOf[binFile] = run[r].commit
  /\ record = [commit |-> run[r].commit, sha |-> binFile]
  /\ Own \in enabled /\ running # None
  /\ Others \cap (active \cup enabled) = {}

\* After exit 0, whatever earlier runs failed or were killed, the host has the
\* reviewed unit, a binary built from the exported commit with its record, the
\* own unit enabled and up, and the superseded units down and disabled.
InstalledOnSuccess ==
  \A r \in Runners : At(r, "done") /\ run[r].code = ExitOK => Installed(r)

\* After exit 0 systemd has loaded and the service runs what is installed, unless
\* an earlier run stopped halfway: no history of edits, crashes, replaced
\* binaries and runs that failed before or after makes update skip a restart.
ConvergedOnSuccess ==
  \A r \in Runners : At(r, "done") /\ run[r].code = ExitOK /\ ~halfway =>
    Converged(run[r].unit, run[r].commit)

\* The same after a run that stopped halfway: "fix the cause and run it again"
\* (UPDATE.md) converges the host.
RerunConverges ==
  \A r \in Runners : At(r, "done") /\ run[r].code = ExitOK =>
    Converged(run[r].unit, run[r].commit)

\* However the steps of concurrent runs interleave, systemd has the installed
\* unit file loaded once all have returned, if no systemctl call fails and
\* none is killed: every write is followed by a reload of its own.
ManagerCurrent ==
  ~CanFail /\ ~CanDie /\ (\A r \in Runners : run[r].pc \in {"idle", "done"})
    => loaded = unitFile

\* A run on a host that is converged when the source has been fetched changes
\* nothing on it: "a converged host is a no-op" (UPDATE.md).
NoOpWhenConverged ==
  [][\A r \in Runners : run[r].noop => UNCHANGED host]_vars

-----------------------------------------------------------------------------
(* Why these hold. *)

\* A run past a step has what that step yields.
Has(me) ==
  /\ me.pc = "idle" => me = Idle
  /\ me.pc \notin {"idle", "done"} => me.unit # None /\ (me.unitChanged \/ unitFile # None)
  /\ me.pc \notin {"idle", "export", "done"} => me.commit # None
  /\ me.old # None => binFile # None
  /\ me.pc \in {"export", "inspect", "build"} => ~me.built /\ ~me.binaryChanged
  /\ me.pc = "compare" => me.built
  /\ me.pc \in {"unit", "reload", "swap", "supersede", "enable", "restart", "record"} =>
       IF me.built THEN me.new # None /\ (me.binaryChanged <=> me.old # me.new)
       ELSE ~me.binaryChanged /\ me.old # None
  /\ me.pc \in {"reload", "swap", "supersede", "enable", "restart", "record"} => unitFile # None
  /\ me.pc \in {"supersede", "enable", "restart", "record"} => binFile # None

\* Nothing that was there has gone.
Present ==
  /\ loaded # None => unitFile # None
  /\ running # None => loaded # None /\ binFile # None
  /\ \A r \in Runners : Has(run[r])

\* Whoever leaves the manager behind the unit file is about to reload it.
Reloading == ~CanFail /\ ~CanDie /\ loaded # unitFile => \E r \in Runners : At(r, "reload")

OneRunner == \A p, q \in Runners : p = q

\* The rest is of a host that one run at a time works on.  The record names the
\* commit its digest's binary was built from, whatever is installed.
RecordSound == record # None => BuildOf[record.sha] = record.commit

\* What r has found out and done stays so until it returns.
Alone(r) ==
  LET me == run[r] IN
  /\ me.pc \in {"export", "inspect", "build", "compare", "unit"} =>
       (me.unitChanged <=> me.unit # unitFile)
  /\ me.pc \in {"build", "compare", "unit", "reload", "swap"} => me.old = binFile
  /\ me.pc = "compare" => staged # None /\ BuildOf[staged] = me.commit
  /\ me.pc \in {"unit", "reload", "swap"} /\ me.built => staged = me.new /\ BuildOf[me.new] = me.commit
  /\ me.pc \in {"unit", "reload", "swap", "supersede", "enable", "restart", "record"} /\ ~me.built =>
       Current(me.commit)
  /\ me.pc \in {"supersede", "enable", "restart", "record"} /\ me.built =>
       binFile = me.new /\ BuildOf[me.new] = me.commit
  /\ me.pc \in {"reload", "swap", "supersede", "enable", "restart", "record", "ready"} =>
       me.unit = unitFile
  /\ me.pc \in {"enable", "restart", "record", "ready"} => Others \cap (active \cup enabled) = {}
  /\ me.pc \in {"restart", "record", "ready"} => Own \in enabled
  /\ me.pc = "ready" => Current(me.commit)

\* What runs, or the binary or unit it lacks is one r has changed, or somebody
\* has put a foreign binary in place, of which no record can be true.
Runs(u, x) == running # None =>
  /\ u \/ running.unit = unitFile
  /\ x \/ running.bin = binFile \/ BuildOf[binFile] = None

Settled(r) ==
  LET me == run[r] IN
  ~halfway =>
    /\ me.pc \notin {"reload", "swap", "supersede", "enable", "restart"} =>
         loaded = unitFile /\ Runs(FALSE, FALSE)
    /\ me.pc \in {"swap", "supersede", "enable", "restart"} =>
         loaded = unitFile /\ Runs(me.unitChanged, me.binaryChanged)
    /\ me.pc = "reload" => me.unitChanged /\ Runs(TRUE, me.binaryChanged)

\* A run that finds the host converged has nothing to do.
Unneeded(r) ==
  LET me == run[r] IN
  me.noop =>
    /\ Converged(me.unit, me.commit)
    /\ me.pc \notin {"idle", "export", "build", "compare", "reload"}
    /\ ~me.built /\ ~me.unitChanged /\ ~me.binaryChanged

Sole ==
  /\ RecordSound
  /\ InstalledOnSuccess
  /\ \A r \in Runners : Alone(r) /\ Settled(r) /\ Unneeded(r)

IInv == TypeOK /\ Present /\ Reloading /\ (OneRunner => Sole)
=============================================================================
