--------------------------- MODULE ConvergeProofs ---------------------------
(***************************************************************************)
(* Proofs about Converge, for any units, commits, binaries and services:   *)
(* type correctness and the manager's state with any number of runs, and   *)
(* what a run promises when it is the only one.                            *)
(***************************************************************************)
EXTENDS Converge, TLAPS

USE NoneAssumption, BuildOfAssumption DEF Others, Labels, Records, At, Goto

-----------------------------------------------------------------------------
(* Types, and what is there. *)

\* The exit codes differ.
LEMMA CodeFacts ==
  /\ ExitOK \in Codes /\ ExitInvalid \in Codes /\ ExitPrivilege \in Codes
  /\ ExitApply \in Codes /\ ExitReadyz \in Codes
  /\ ExitInvalid # ExitOK /\ ExitPrivilege # ExitOK /\ ExitApply # ExitOK /\ ExitReadyz # ExitOK
BY DEF Codes, ExitOK, ExitInvalid, ExitPrivilege, ExitApply, ExitReadyz

\* A run that has not started is one.
LEMMA IdleFacts == Idle \in Invocations /\ Has(Idle)
<1>1. Idle \in Invocations
  BY CodeFacts DEF Idle, Invocations
<1>2. /\ Idle.pc = "idle" /\ Idle.old = None
  BY DEF Idle
<1> QED BY <1>1, <1>2 DEF Has

\* A host update has never run on is well typed.
LEMMA TypeInit == Init => TypeOK /\ Present
<1> SUFFICES ASSUME Init PROVE TypeOK /\ Present
  OBVIOUS
<1>1. run \in [Runners -> Invocations] /\ \A r \in Runners : Has(run[r])
  BY IdleFacts DEF Init
<1>2. TypeOK
  BY <1>1 DEF Init, TypeOK
<1> QED BY <1>1, <1>2 DEF Init, Present

\* A step of r changes the record of r alone.
LEMMA RunStep ==
  ASSUME run \in [Runners -> Invocations], Present, NEW r \in Runners, NEW me \in Invocations,
         run' = [run EXCEPT ![r] = me],
         unitFile # None => unitFile' # None, binFile # None => binFile' # None,
         Has(me)'
  PROVE  run' \in [Runners -> Invocations] /\ \A q \in Runners : Has(run[q])'
<1>1. run' \in [Runners -> Invocations]
  OBVIOUS
<1>2. run'[r] = me /\ \A q \in Runners : q # r => run'[q] = run[q]
  OBVIOUS
<1>3. ASSUME NEW q \in Runners, q # r
      PROVE  Has(run[q])'
  BY <1>2, <1>3 DEF Present, Has
<1> QED BY <1>1, <1>2, <1>3

\* The same of a run that has ended.
LEMMA IdleHas == Has(Idle)'
BY DEF Idle, Has

\* A run that ends keeps what is known of it.
LEMMA EndStep ==
  ASSUME TypeOK, Present, NEW r \in Runners, NEW c \in Codes,
         End(r, c),
         unitFile' = unitFile, binFile' = binFile
  PROVE  run' \in [Runners -> Invocations] /\ \A q \in Runners : Has(run[q])'
<1>1. run[r] \in Invocations /\ Has(run[r])
  BY DEF TypeOK, Present
<1>2. run'[r] = [run[r] EXCEPT !.pc = "done", !.code = c]
  BY DEF End, TypeOK
<1>3. run'[r] \in Invocations
  BY <1>1, <1>2 DEF Invocations
<1>4. run'[r].pc = "done" /\ run'[r].old = run[r].old
  BY <1>1, <1>2 DEF Invocations
<1>5. Has(run[r])'
  BY <1>1, <1>4 DEF Has
<1>6. run' = [run EXCEPT ![r] = run'[r]]
  BY DEF End, TypeOK
<1> QED BY <1>3, <1>5, <1>6, RunStep DEF TypeOK

\* Exit ends a run, whatever it does with the staged file.
LEMMA ExitStep ==
  ASSUME TypeOK, Present, NEW r \in Runners, NEW code \in Codes, Exit(r, code),
         unitFile' = unitFile, binFile' = binFile
  PROVE  /\ run' \in [Runners -> Invocations] /\ \A q \in Runners : Has(run[q])'
         /\ staged' \in Bytes \cup {None} /\ halfway' \in BOOLEAN
<1>1. PICK c \in Codes : End(r, c)
  BY CodeFacts DEF Exit
<1>2. staged' \in Bytes \cup {None}
  BY DEF Exit, TypeOK
<1>3. halfway' \in BOOLEAN
  BY DEF Exit, TypeOK, MidChange
<1> QED BY <1>1, <1>2, <1>3, EndStep

\* So does a step that fails without an effect on the host.
LEMMA QuietExit ==
  ASSUME TypeOK, Present, NEW r \in Runners, NEW code \in Codes, Exit(r, code),
         UNCHANGED <<source, values, host>>
  PROVE  TypeOK' /\ Present'
BY ExitStep DEF TypeOK, Present, host

\* The source moves on.
LEMMA TypeMerge == TypeOK /\ Present /\ Merge => TypeOK' /\ Present'
BY DEF Merge, TypeOK, Present, Has, host, Quiet

\* The values file changes.
LEMMA TypeReconfigure == TypeOK /\ Present /\ Reconfigure => TypeOK' /\ Present'
BY DEF Reconfigure, TypeOK, Present, Has, host, Quiet

\* The service goes down.
LEMMA TypeServiceStops == TypeOK /\ Present /\ ServiceStops => TypeOK' /\ Present'
BY DEF ServiceStops, TypeOK, Present, Has, host, Quiet

\* The service comes back with what is loaded and installed.
LEMMA TypeRespawn == TypeOK /\ Present /\ Respawn => TypeOK' /\ Present'
BY DEF Respawn, TypeOK, Present, Has, host, Quiet

\* Another binary is put in place.
LEMMA TypeTamper == TypeOK /\ Present /\ Tamper => TypeOK' /\ Present'
BY DEF Tamper, TypeOK, Present, Has, host, Quiet

\* The host starts again with what is installed and enabled.
LEMMA TypeBoot == TypeOK /\ Present /\ Boot => TypeOK' /\ Present'
<1> SUFFICES ASSUME TypeOK, Present, Boot PROVE TypeOK' /\ Present'
  OBVIOUS
<1>1. active' \subseteq Others
  BY DEF Boot, TypeOK
<1>2. /\ running' \in [unit : Units, bin : Bytes] \cup {None}
      /\ running' # None => unitFile # None /\ binFile # None
  <2>1. CASE Own \in enabled /\ unitFile # None /\ binFile # None
    BY <2>1 DEF Boot, TypeOK
  <2>2. CASE ~(Own \in enabled /\ unitFile # None /\ binFile # None)
    BY <2>2 DEF Boot
  <2> QED BY <2>1, <2>2
<1>3. /\ UNCHANGED <<source, values, unitFile, binFile, record, enabled, staged, run>>
      /\ loaded' = unitFile /\ halfway' = FALSE
  BY DEF Boot
<1>4. TypeOK'
  BY <1>1, <1>2, <1>3 DEF TypeOK
<1>5. Present'
  BY <1>2, <1>3 DEF Present, Has
<1> QED BY <1>4, <1>5

\* A run begins with the values of the moment.
LEMMA TypeBegin ==
  ASSUME TypeOK, Present, NEW r \in Runners, Begin(r)
  PROVE  TypeOK' /\ Present'
<1>1. run[r] \in Invocations /\ Has(run[r])
  BY DEF TypeOK, Present
<1>2. run' = [run EXCEPT ![r] = run'[r]]
  BY DEF Begin, TypeOK
<1>3. /\ run'[r] = [run[r] EXCEPT !.pc = "export", !.unit = values, !.unitChanged = (values # unitFile)]
      /\ run[r] = Idle
  BY DEF Begin, TypeOK, Present, Has
<1>4. run'[r] \in Invocations
  BY <1>1, <1>3 DEF Invocations, TypeOK
<1>5. Has(run[r])'
  <2>1. /\ run'[r].pc = "export" /\ run'[r].unit = values /\ run'[r].old = None
        /\ run'[r].built = FALSE /\ run'[r].binaryChanged = FALSE
    BY <1>3 DEF Idle
  <2>2. run'[r].unitChanged = (values # unitFile) /\ values # None
    BY <1>1, <1>3 DEF Invocations, TypeOK
  <2>3. unitFile' = unitFile
    BY DEF Begin, host
  <2> QED BY <2>1, <2>2, <2>3 DEF Has
<1> QED BY <1>2, <1>4, <1>5, RunStep DEF Begin, TypeOK, Present, host

\* An export yields a commit.
LEMMA TypeExport ==
  ASSUME TypeOK, Present, NEW r \in Runners, Export(r)
  PROVE  TypeOK' /\ Present'
<1>1. run[r] \in Invocations /\ Has(run[r])
  BY DEF TypeOK, Present
<1>2. run' = [run EXCEPT ![r] = run'[r]]
  BY DEF Export, TypeOK
<1>3. /\ run'[r] = [run[r] EXCEPT !.pc = "inspect", !.commit = source,
                                   !.noop = Converged(run[r].unit, source)]
      /\ run[r].pc = "export" /\ UNCHANGED <<unitFile, binFile>>
  BY DEF Export, TypeOK, host
<1>4. run'[r] \in Invocations
  BY <1>1, <1>3 DEF Invocations, TypeOK, Converged
<1>5. Has(run[r])'
  <2>1. /\ run'[r].pc = "inspect" /\ run'[r].commit = source /\ source # None
        /\ run'[r].unit = run[r].unit /\ run'[r].unitChanged = run[r].unitChanged
        /\ run'[r].built = run[r].built /\ run'[r].binaryChanged = run[r].binaryChanged
        /\ run'[r].old = run[r].old
    BY <1>1, <1>3 DEF Invocations, TypeOK
  <2> QED BY <1>1, <1>3, <2>1 DEF Has
<1> QED BY <1>2, <1>4, <1>5, RunStep DEF Export, TypeOK, Present, host

\* What is installed is looked at.
LEMMA TypeInspect ==
  ASSUME TypeOK, Present, NEW r \in Runners, Inspect(r)
  PROVE  TypeOK' /\ Present'
<1>1. run[r] \in Invocations /\ Has(run[r])
  BY DEF TypeOK, Present
<1>2. run' = [run EXCEPT ![r] = run'[r]]
  BY DEF Inspect, TypeOK
<1>3. /\ run'[r] = [run[r] EXCEPT !.pc = IF Current(run[r].commit) THEN "unit" ELSE "build", !.old = binFile]
      /\ run[r].pc = "inspect" /\ UNCHANGED <<unitFile, binFile>>
  BY DEF Inspect, TypeOK, host
<1>4. run'[r] \in Invocations
  <2>1. run'[r].pc \in Labels /\ run'[r] = [run[r] EXCEPT !.pc = run'[r].pc, !.old = binFile]
    BY <1>1, <1>3 DEF Invocations
  <2> QED BY <1>1, <2>1 DEF Invocations, TypeOK
<1>5. Has(run[r])'
  <2>1. /\ run'[r].pc = IF Current(run[r].commit) THEN "unit" ELSE "build"
        /\ run'[r].unit = run[r].unit /\ run'[r].unitChanged = run[r].unitChanged
        /\ run'[r].built = run[r].built /\ run'[r].binaryChanged = run[r].binaryChanged
        /\ run'[r].old = binFile /\ run'[r].commit = run[r].commit
    BY <1>1, <1>3 DEF Invocations
  <2>2. Current(run[r].commit) => binFile # None
    BY DEF Current
  <2> QED BY <1>1, <1>3, <2>1, <2>2 DEF Has
<1> QED BY <1>2, <1>4, <1>5, RunStep DEF Inspect, TypeOK, Present, host

\* A build yields a binary.
LEMMA TypeBuild ==
  ASSUME TypeOK, Present, NEW r \in Runners, Build(r)
  PROVE  TypeOK' /\ Present'
<1>1. run[r] \in Invocations /\ Has(run[r])
  BY DEF TypeOK, Present
<1>2. run' = [run EXCEPT ![r] = run'[r]]
  BY DEF Build, TypeOK
<1>3. /\ run'[r] = [run[r] EXCEPT !.pc = "compare", !.built = TRUE]
      /\ run[r].pc = "build" /\ UNCHANGED <<unitFile, binFile>>
  BY DEF Build, TypeOK, host
<1>4. run'[r] \in Invocations
  BY <1>1, <1>3 DEF Invocations
<1>5. Has(run[r])'
  <2>1. /\ run'[r].pc = "compare" /\ run'[r].unit = run[r].unit
        /\ run'[r].unitChanged = run[r].unitChanged /\ run'[r].commit = run[r].commit
        /\ run'[r].old = run[r].old
    BY <1>1, <1>3 DEF Invocations
  <2> QED BY <1>1, <1>3, <2>1 DEF Has
<1> QED BY <1>2, <1>4, <1>5, RunStep DEF Build, TypeOK, Present, host

\* The staged file is compared with the installed one.
LEMMA TypeCompare ==
  ASSUME TypeOK, Present, NEW r \in Runners, Compare(r)
  PROVE  TypeOK' /\ Present'
<1>1. run[r] \in Invocations /\ Has(run[r])
  BY DEF TypeOK, Present
<1>2. run' = [run EXCEPT ![r] = run'[r]]
  BY DEF Compare, TypeOK
<1>3. /\ run'[r] = [run[r] EXCEPT !.pc = "unit", !.new = staged, !.binaryChanged = (run[r].old # staged)]
      /\ run[r].pc = "compare" /\ staged # None /\ UNCHANGED <<unitFile, binFile>>
  BY DEF Compare, TypeOK, host
<1>4. run'[r] \in Invocations
  BY <1>1, <1>3 DEF Invocations, TypeOK
<1>5. Has(run[r])'
  <2>1. /\ run'[r].pc = "unit" /\ run'[r].unit = run[r].unit
        /\ run'[r].unitChanged = run[r].unitChanged /\ run'[r].commit = run[r].commit
        /\ run'[r].old = run[r].old /\ run'[r].new = staged /\ run'[r].built = run[r].built
    BY <1>1, <1>3 DEF Invocations
  <2>2. run'[r].binaryChanged = (run[r].old # staged)
    BY <1>1, <1>3 DEF Invocations
  <2>3. run[r].built
    BY <1>1, <1>3 DEF Has
  <2> QED BY <1>1, <1>3, <2>1, <2>2, <2>3 DEF Has
<1> QED BY <1>2, <1>4, <1>5, RunStep DEF Compare, TypeOK, Present, host

\* The unit file is there, written or not.
LEMMA TypeWriteUnit ==
  ASSUME TypeOK, Present, NEW r \in Runners, WriteUnit(r)
  PROVE  TypeOK' /\ Present'
<1>1. run[r] \in Invocations /\ Has(run[r])
  BY DEF TypeOK, Present
<1>2. run' = [run EXCEPT ![r] = run'[r]]
  BY DEF WriteUnit, TypeOK
<1>3. /\ run[r].pc = "unit" /\ binFile' = binFile
      /\ \/ run[r].unitChanged /\ unitFile' = run[r].unit /\ run'[r] = [run[r] EXCEPT !.pc = "reload"]
         \/ ~run[r].unitChanged /\ unitFile' = unitFile /\ run'[r] = [run[r] EXCEPT !.pc = "swap"]
  BY DEF WriteUnit, TypeOK
<1>4. run'[r] \in Invocations
  BY <1>1, <1>3 DEF Invocations
<1>6. unitFile' # None
  BY <1>1, <1>3 DEF Has
<1>5. Has(run[r])'
  <2>1. /\ run'[r].pc \in {"reload", "swap"}
        /\ run'[r].unit = run[r].unit /\ run'[r].unitChanged = run[r].unitChanged
        /\ run'[r].commit = run[r].commit /\ run'[r].old = run[r].old /\ run'[r].new = run[r].new
        /\ run'[r].built = run[r].built /\ run'[r].binaryChanged = run[r].binaryChanged
    BY <1>1, <1>3 DEF Invocations
  <2> QED BY <1>1, <1>3, <1>6, <2>1 DEF Has
<1> QED BY <1>2, <1>4, <1>5, <1>1, <1>3, <1>6, RunStep DEF WriteUnit, TypeOK, Present, Invocations

\* The manager reads the unit files.
LEMMA TypeDaemonReload ==
  ASSUME TypeOK, Present, NEW r \in Runners, DaemonReload(r)
  PROVE  TypeOK' /\ Present'
<1>1. run[r] \in Invocations /\ Has(run[r])
  BY DEF TypeOK, Present
<1>2. run' = [run EXCEPT ![r] = run'[r]]
  BY DEF DaemonReload, TypeOK
<1>3. /\ run'[r] = [run[r] EXCEPT !.pc = "swap"] /\ run[r].pc = "reload"
      /\ UNCHANGED <<unitFile, binFile>>
  BY DEF DaemonReload, TypeOK, host
<1>4. run'[r] \in Invocations
  BY <1>1, <1>3 DEF Invocations
<1>5. Has(run[r])'
  <2>1. /\ run'[r].pc = "swap"
        /\ run'[r].unit = run[r].unit /\ run'[r].unitChanged = run[r].unitChanged
        /\ run'[r].commit = run[r].commit /\ run'[r].old = run[r].old /\ run'[r].new = run[r].new
        /\ run'[r].built = run[r].built /\ run'[r].binaryChanged = run[r].binaryChanged
    BY <1>1, <1>3 DEF Invocations
  <2> QED BY <1>1, <1>3, <2>1 DEF Has
<1> QED BY <1>2, <1>4, <1>5, RunStep DEF DaemonReload, TypeOK, Present, host

\* The binary is there, replaced or not.
LEMMA TypeSwap ==
  ASSUME TypeOK, Present, NEW r \in Runners, Swap(r)
  PROVE  TypeOK' /\ Present'
<1>1. run[r] \in Invocations /\ Has(run[r])
  BY DEF TypeOK, Present
<1>2. run' = [run EXCEPT ![r] = run'[r]]
  BY DEF Swap, TypeOK
<1>3. /\ run[r].pc = "swap" /\ unitFile' = unitFile /\ run'[r] = [run[r] EXCEPT !.pc = "supersede"]
      /\ \/ run[r].binaryChanged /\ staged # None /\ binFile' = staged
         \/ ~run[r].binaryChanged /\ binFile' = binFile
  BY DEF Swap, TypeOK
<1>4. run'[r] \in Invocations
  BY <1>1, <1>3 DEF Invocations
<1>6. binFile' # None
  <2>1. ~run[r].binaryChanged => run[r].old # None
    BY <1>1, <1>3 DEF Has
  <2> QED BY <1>1, <1>3, <2>1 DEF Has
<1>5. Has(run[r])'
  <2>1. /\ run'[r].pc = "supersede"
        /\ run'[r].unit = run[r].unit /\ run'[r].unitChanged = run[r].unitChanged
        /\ run'[r].commit = run[r].commit /\ run'[r].old = run[r].old /\ run'[r].new = run[r].new
        /\ run'[r].built = run[r].built /\ run'[r].binaryChanged = run[r].binaryChanged
    BY <1>1, <1>3 DEF Invocations
  <2> QED BY <1>1, <1>3, <1>6, <2>1 DEF Has
<1> QED BY <1>2, <1>4, <1>5, <1>3, <1>6, RunStep DEF Swap, TypeOK, Present

\* A superseded unit is stopped.
LEMMA TypeStopOther ==
  ASSUME TypeOK, Present, NEW r \in Runners, StopOther(r)
  PROVE  TypeOK' /\ Present'
BY DEF StopOther, TypeOK, Present, Has

\* A superseded unit is disabled.
LEMMA TypeDisableOther ==
  ASSUME TypeOK, Present, NEW r \in Runners, DisableOther(r)
  PROVE  TypeOK' /\ Present'
BY DEF DisableOther, TypeOK, Present, Has

\* No superseded unit is left.
LEMMA TypeOthersDone ==
  ASSUME TypeOK, Present, NEW r \in Runners, OthersDone(r)
  PROVE  TypeOK' /\ Present'
<1>1. run[r] \in Invocations /\ Has(run[r])
  BY DEF TypeOK, Present
<1>2. run' = [run EXCEPT ![r] = run'[r]]
  BY DEF OthersDone, TypeOK
<1>3. /\ run'[r] = [run[r] EXCEPT !.pc = "enable"] /\ run[r].pc = "supersede"
      /\ UNCHANGED <<unitFile, binFile>>
  BY DEF OthersDone, TypeOK, host
<1>4. run'[r] \in Invocations
  BY <1>1, <1>3 DEF Invocations
<1>5. Has(run[r])'
  <2>1. /\ run'[r].pc = "enable"
        /\ run'[r].unit = run[r].unit /\ run'[r].unitChanged = run[r].unitChanged
        /\ run'[r].commit = run[r].commit /\ run'[r].old = run[r].old /\ run'[r].new = run[r].new
        /\ run'[r].built = run[r].built /\ run'[r].binaryChanged = run[r].binaryChanged
    BY <1>1, <1>3 DEF Invocations
  <2> QED BY <1>1, <1>3, <2>1 DEF Has
<1> QED BY <1>2, <1>4, <1>5, RunStep DEF OthersDone, TypeOK, Present, host

\* The own unit is enabled.
LEMMA TypeEnable ==
  ASSUME TypeOK, Present, NEW r \in Runners, Enable(r)
  PROVE  TypeOK' /\ Present'
<1>1. run[r] \in Invocations /\ Has(run[r])
  BY DEF TypeOK, Present
<1>2. run' = [run EXCEPT ![r] = run'[r]]
  BY DEF Enable, TypeOK
<1>3. /\ run'[r] = [run[r] EXCEPT !.pc = "restart"] /\ run[r].pc = "enable"
      /\ UNCHANGED <<unitFile, binFile>>
  BY DEF Enable, TypeOK, host
<1>4. run'[r] \in Invocations
  BY <1>1, <1>3 DEF Invocations
<1>5. Has(run[r])'
  <2>1. /\ run'[r].pc = "restart"
        /\ run'[r].unit = run[r].unit /\ run'[r].unitChanged = run[r].unitChanged
        /\ run'[r].commit = run[r].commit /\ run'[r].old = run[r].old /\ run'[r].new = run[r].new
        /\ run'[r].built = run[r].built /\ run'[r].binaryChanged = run[r].binaryChanged
    BY <1>1, <1>3 DEF Invocations
  <2> QED BY <1>1, <1>3, <2>1 DEF Has
<1> QED BY <1>2, <1>4, <1>5, RunStep DEF Enable, TypeOK, Present, host

\* The service runs what is loaded and installed.
LEMMA TypeRestart ==
  ASSUME TypeOK, Present, NEW r \in Runners, Restart(r)
  PROVE  TypeOK' /\ Present'
<1>1. run[r] \in Invocations /\ Has(run[r])
  BY DEF TypeOK, Present
<1>2. run' = [run EXCEPT ![r] = run'[r]]
  BY DEF Restart, TypeOK
<1>3. /\ run'[r] = [run[r] EXCEPT !.pc = "record"] /\ run[r].pc = "restart"
      /\ UNCHANGED <<unitFile, binFile>> /\ unitFile # None /\ binFile # None
  BY <1>1 DEF Restart, TypeOK, Has
<1>4. run'[r] \in Invocations
  BY <1>1, <1>3 DEF Invocations
<1>5. Has(run[r])'
  <2>1. /\ run'[r].pc = "record"
        /\ run'[r].unit = run[r].unit /\ run'[r].unitChanged = run[r].unitChanged
        /\ run'[r].commit = run[r].commit /\ run'[r].old = run[r].old /\ run'[r].new = run[r].new
        /\ run'[r].built = run[r].built /\ run'[r].binaryChanged = run[r].binaryChanged
    BY <1>1, <1>3 DEF Invocations
  <2> QED BY <1>1, <1>3, <2>1 DEF Has
<1>6. /\ loaded' \in Units /\ unitFile' # None /\ binFile' # None
      /\ running' \in [unit : Units, bin : Bytes] \cup {None}
  <2>1. unitFile \in Units /\ binFile \in Bytes /\ UNCHANGED <<unitFile, binFile>>
    BY <1>3 DEF TypeOK
  <2>2. CASE NeedsRestart(r)
    BY <2>1, <2>2 DEF Restart, TypeOK
  <2>3. CASE ~NeedsRestart(r)
    BY <2>1, <2>3 DEF Restart, TypeOK, Present, NeedsRestart
  <2> QED BY <2>1, <2>2, <2>3
<1> QED BY <1>2, <1>4, <1>5, <1>3, <1>6, RunStep DEF Restart, TypeOK, Present

\* The record names a commit and a binary.
LEMMA TypeWriteRecord ==
  ASSUME TypeOK, Present, NEW r \in Runners, WriteRecord(r)
  PROVE  TypeOK' /\ Present'
<1>1. run[r] \in Invocations /\ Has(run[r])
  BY DEF TypeOK, Present
<1>2. run' = [run EXCEPT ![r] = run'[r]]
  BY DEF WriteRecord, TypeOK
<1>3. /\ run'[r] = [run[r] EXCEPT !.pc = "ready"] /\ run[r].pc = "record"
      /\ UNCHANGED <<unitFile, binFile>>
  BY DEF WriteRecord, TypeOK, host
<1>4. run'[r] \in Invocations
  BY <1>1, <1>3 DEF Invocations
<1>5. Has(run[r])'
  <2>1. /\ run'[r].pc = "ready"
        /\ run'[r].unit = run[r].unit /\ run'[r].unitChanged = run[r].unitChanged
        /\ run'[r].commit = run[r].commit /\ run'[r].old = run[r].old /\ run'[r].new = run[r].new
        /\ run'[r].built = run[r].built /\ run'[r].binaryChanged = run[r].binaryChanged
    BY <1>1, <1>3 DEF Invocations
  <2> QED BY <1>1, <1>3, <2>1 DEF Has
<1>6. record' \in Records \cup {None}
  <2>1. CASE ~run[r].built
    BY <2>1 DEF WriteRecord, TypeOK
  <2>2. CASE run[r].built
    <3>1. /\ run[r].commit \in Commits /\ run[r].new \in Bytes
          /\ ~run[r].binaryChanged => run[r].old = run[r].new
      BY <1>1, <1>3, <2>2 DEF Has, Invocations
    <3> QED BY <2>2, <3>1 DEF WriteRecord
  <2> QED BY <2>1, <2>2
<1> QED BY <1>2, <1>4, <1>5, <1>6, RunStep DEF WriteRecord, TypeOK, Present

\* The process ends.
LEMMA TypeReport ==
  ASSUME TypeOK, Present, NEW r \in Runners, Report(r)
  PROVE  TypeOK' /\ Present'
<1>1. run' = [run EXCEPT ![r] = Idle] /\ UNCHANGED <<source, values, host, staged>>
  BY DEF Report
<1>2. run' \in [Runners -> Invocations] /\ \A q \in Runners : Has(run[q])'
  <2>1. unitFile' = unitFile /\ binFile' = binFile
    BY <1>1 DEF host
  <2> QED BY <1>1, <2>1, IdleFacts, IdleHas, RunStep DEF TypeOK
<1>3. halfway' \in BOOLEAN
  BY DEF Report, TypeOK, MidChange
<1> QED BY <1>1, <1>2, <1>3 DEF TypeOK, Present, host

\* The process is killed.
LEMMA TypeKill ==
  ASSUME TypeOK, Present, NEW r \in Runners, Kill(r)
  PROVE  TypeOK' /\ Present'
<1>1. run' = [run EXCEPT ![r] = Idle] /\ UNCHANGED <<source, values, host, staged>>
  BY DEF Kill
<1>2. run' \in [Runners -> Invocations] /\ \A q \in Runners : Has(run[q])'
  <2>1. unitFile' = unitFile /\ binFile' = binFile
    BY <1>1 DEF host
  <2> QED BY <1>1, <2>1, IdleFacts, IdleHas, RunStep DEF TypeOK
<1>3. halfway' \in BOOLEAN
  BY DEF Kill, TypeOK, MidChange
<1> QED BY <1>1, <1>2, <1>3 DEF TypeOK, Present, host

\* A build fails.
LEMMA TypeBuildFails ==
  ASSUME TypeOK, Present, NEW r \in Runners, BuildFails(r)
  PROVE  TypeOK' /\ Present'
<1>1. run' \in [Runners -> Invocations] /\ \A q \in Runners : Has(run[q])'
  BY CodeFacts, EndStep DEF BuildFails, host
<1> QED BY <1>1 DEF BuildFails, TypeOK, Present, host

\* A restart fails.
LEMMA TypeRestartFails ==
  ASSUME TypeOK, Present, NEW r \in Runners, RestartFails(r)
  PROVE  TypeOK' /\ Present'
<1>1. /\ run' \in [Runners -> Invocations] /\ \A q \in Runners : Has(run[q])'
      /\ staged' \in Bytes \cup {None} /\ halfway' \in BOOLEAN
  BY CodeFacts, ExitStep DEF RestartFails
<1> QED BY <1>1 DEF RestartFails, TypeOK, Present

\* The other ways to return.
LEMMA TypeReturn ==
  ASSUME TypeOK, Present, NEW r \in Runners,
         Ready(r) \/ NotReady(r) \/ StagedGone(r) \/ StepFails(r)
  PROVE  TypeOK' /\ Present'
<1>1. \E c \in Codes : Exit(r, c)
  BY CodeFacts DEF Ready, NotReady, StagedGone, StepFails
<1>2. UNCHANGED <<source, values, host>>
  BY DEF Ready, NotReady, StagedGone, StepFails
<1> QED BY <1>1, <1>2, QuietExit

\* Every step keeps types, and what is there.
LEMMA TypeNext == TypeOK /\ Present /\ [Next]_vars => TypeOK' /\ Present'
<1> SUFFICES ASSUME TypeOK, Present, [Next]_vars PROVE TypeOK' /\ Present'
  OBVIOUS
<1>1. CASE Merge \/ Reconfigure \/ ServiceStops \/ Respawn \/ Tamper \/ Boot
  BY <1>1, TypeMerge, TypeReconfigure, TypeServiceStops, TypeRespawn, TypeTamper, TypeBoot
<1>2. ASSUME NEW r \in Runners,
             \/ Begin(r) \/ Export(r) \/ Inspect(r) \/ Build(r) \/ BuildFails(r) \/ Compare(r)
             \/ WriteUnit(r) \/ DaemonReload(r) \/ Swap(r)
      PROVE  TypeOK' /\ Present'
  BY <1>2, TypeBegin, TypeExport, TypeInspect, TypeBuild, TypeBuildFails, TypeCompare,
     TypeWriteUnit, TypeDaemonReload, TypeSwap
<1>3. ASSUME NEW r \in Runners,
             \/ StopOther(r) \/ DisableOther(r) \/ OthersDone(r) \/ Enable(r) \/ Restart(r)
             \/ RestartFails(r) \/ WriteRecord(r) \/ Report(r) \/ Kill(r)
      PROVE  TypeOK' /\ Present'
  BY <1>3, TypeStopOther, TypeDisableOther, TypeOthersDone, TypeEnable, TypeRestart,
     TypeRestartFails, TypeWriteRecord, TypeReport, TypeKill
<1>4. CASE UNCHANGED vars
  BY <1>4 DEF vars, host, TypeOK, Present, Has
<1> QED BY <1>1, <1>2, <1>3, <1>4, TypeReturn DEF Next

-----------------------------------------------------------------------------
(* What a step does to the run that takes it. *)

\* All of r's record but where it is and what it returns.
Same(r) ==
  /\ run'[r].unit = run[r].unit /\ run'[r].unitChanged = run[r].unitChanged
  /\ run'[r].commit = run[r].commit /\ run'[r].old = run[r].old /\ run'[r].new = run[r].new
  /\ run'[r].built = run[r].built /\ run'[r].binaryChanged = run[r].binaryChanged
  /\ run'[r].noop = run[r].noop

\* A run that goes on keeps all else.
LEMMA GotoFields ==
  ASSUME TypeOK, NEW r \in Runners, NEW label \in Labels, Goto(r, label)
  PROVE  run'[r].pc = label /\ run'[r].code = run[r].code /\ Same(r)
<1>1. run'[r] = [run[r] EXCEPT !.pc = label] /\ run[r] \in Invocations
  BY DEF TypeOK
<1> QED BY <1>1 DEF Invocations, Same

\* A run that ends keeps what it found out.
LEMMA EndFields ==
  ASSUME TypeOK, NEW r \in Runners, NEW c \in Codes, End(r, c)
  PROVE  run'[r].pc = "done" /\ run'[r].code = c /\ Same(r)
<1>1. run'[r] = [run[r] EXCEPT !.pc = "done", !.code = c] /\ run[r] \in Invocations
  BY DEF End, TypeOK
<1> QED BY <1>1 DEF Invocations, Same

\* Exit may turn success into failure, never the reverse.
LEMMA ExitFields ==
  ASSUME TypeOK, NEW r \in Runners, NEW code \in Codes, Exit(r, code)
  PROVE  /\ run'[r].pc = "done" /\ Same(r)
         /\ run'[r].code = ExitOK => code = ExitOK
         /\ halfway' = (halfway \/ MidChange(r))
<1>1. PICK c \in Codes : End(r, c) /\ (c = ExitOK => code = ExitOK)
  BY CodeFacts DEF Exit
<1> QED BY <1>1, EndFields DEF Exit

\* With one run on the host, what is said of it is said of all.
LEMMA SoleStep ==
  ASSUME OneRunner, NEW r \in Runners, RecordSound',
         (At(r, "done") /\ run[r].code = ExitOK => Installed(r))', Alone(r)', Settled(r)', Unneeded(r)'
  PROVE  Sole'
BY DEF OneRunner, Sole, InstalledOnSuccess, Installed

\* The manager has the unit that r wrote.
LEMMA SoleDaemonReload ==
  ASSUME TypeOK, Present, Sole, OneRunner, NEW r \in Runners, DaemonReload(r)
  PROVE  Sole'
<1>0. Alone(r) /\ Settled(r) /\ Unneeded(r) /\ Has(run[r]) /\ run[r] \in Invocations
  BY DEF Sole, Present, TypeOK
<1>1. run'[r].pc = "swap" /\ run'[r].code = run[r].code /\ Same(r)
  BY GotoFields DEF DaemonReload
<1>2. Alone(r)'
  BY <1>0, <1>1 DEF DaemonReload, Alone, Has, Current, host, Same, RecordSound, Sole
<1>3. Settled(r)'
  BY <1>0, <1>1 DEF DaemonReload, Settled, Alone, Runs, MidChange, NeedsRestart, host, Same, Has
<1>4. Unneeded(r)'
  BY <1>0, <1>1 DEF DaemonReload, Unneeded, Converged, Current, host, Same, NeedsRestart
<1>5. (At(r, "done") /\ run[r].code = ExitOK => Installed(r))'
  BY <1>0, <1>1 DEF DaemonReload, Installed, Alone, host, Same
<1>6. RecordSound'
  BY <1>0, <1>1 DEF DaemonReload, Sole, RecordSound, host
<1> QED BY <1>2, <1>3, <1>4, <1>5, <1>6, SoleStep

\* The binary is the staged one, or was current.
LEMMA SoleSwap ==
  ASSUME TypeOK, Present, Sole, OneRunner, NEW r \in Runners, Swap(r)
  PROVE  Sole'
<1>0. Alone(r) /\ Settled(r) /\ Unneeded(r) /\ Has(run[r]) /\ run[r] \in Invocations
  BY DEF Sole, Present, TypeOK
<1>1. run'[r].pc = "supersede" /\ run'[r].code = run[r].code /\ Same(r)
  BY GotoFields DEF Swap
<1>2. Alone(r)'
  BY <1>0, <1>1 DEF Swap, Alone, Has, Current, host, Same, RecordSound, Sole
<1>3. Settled(r)'
  BY <1>0, <1>1 DEF Swap, Settled, Alone, Runs, MidChange, NeedsRestart, host, Same, Has
<1>4. Unneeded(r)'
  BY <1>0, <1>1 DEF Swap, Unneeded, Converged, Current, host, Same, NeedsRestart
<1>5. (At(r, "done") /\ run[r].code = ExitOK => Installed(r))'
  BY <1>0, <1>1 DEF Swap, Installed, Alone, host, Same
<1>6. RecordSound'
  BY <1>0, <1>1 DEF Swap, Sole, RecordSound, host
<1> QED BY <1>2, <1>3, <1>4, <1>5, <1>6, SoleStep

\* The superseded units are down and disabled.
LEMMA SoleOthersDone ==
  ASSUME TypeOK, Present, Sole, OneRunner, NEW r \in Runners, OthersDone(r)
  PROVE  Sole'
<1>0. Alone(r) /\ Settled(r) /\ Unneeded(r) /\ Has(run[r]) /\ run[r] \in Invocations
  BY DEF Sole, Present, TypeOK
<1>1. run'[r].pc = "enable" /\ run'[r].code = run[r].code /\ Same(r)
  BY GotoFields DEF OthersDone
<1>2. Alone(r)'
  BY <1>0, <1>1 DEF OthersDone, Alone, Has, Current, host, Same, RecordSound, Sole
<1>3. Settled(r)'
  BY <1>0, <1>1 DEF OthersDone, Settled, Alone, Runs, MidChange, NeedsRestart, host, Same, Has
<1>4. Unneeded(r)'
  BY <1>0, <1>1 DEF OthersDone, Unneeded, Converged, Current, host, Same, NeedsRestart
<1>5. (At(r, "done") /\ run[r].code = ExitOK => Installed(r))'
  BY <1>0, <1>1 DEF OthersDone, Installed, Alone, host, Same
<1>6. RecordSound'
  BY <1>0, <1>1 DEF OthersDone, Sole, RecordSound, host
<1> QED BY <1>2, <1>3, <1>4, <1>5, <1>6, SoleStep

\* The own unit is enabled, the manager current.
LEMMA SoleEnable ==
  ASSUME TypeOK, Present, Sole, OneRunner, NEW r \in Runners, Enable(r)
  PROVE  Sole'
<1>0. Alone(r) /\ Settled(r) /\ Unneeded(r) /\ Has(run[r]) /\ run[r] \in Invocations
  BY DEF Sole, Present, TypeOK
<1>1. run'[r].pc = "restart" /\ run'[r].code = run[r].code /\ Same(r)
  BY GotoFields DEF Enable
<1>2. Alone(r)'
  BY <1>0, <1>1 DEF Enable, Alone, Has, Current, host, Same, RecordSound, Sole
<1>3. Settled(r)'
  BY <1>0, <1>1 DEF Enable, Settled, Alone, Runs, MidChange, NeedsRestart, host, Same, Has
<1>4. Unneeded(r)'
  BY <1>0, <1>1 DEF Enable, Unneeded, Converged, Current, host, Same, NeedsRestart
<1>5. (At(r, "done") /\ run[r].code = ExitOK => Installed(r))'
  BY <1>0, <1>1 DEF Enable, Installed, Alone, host, Same
<1>6. RecordSound'
  BY <1>0, <1>1 DEF Enable, Sole, RecordSound, host
<1> QED BY <1>2, <1>3, <1>4, <1>5, <1>6, SoleStep

\* What is loaded and installed runs.
LEMMA SoleRestart ==
  ASSUME TypeOK, Present, Sole, OneRunner, NEW r \in Runners, Restart(r)
  PROVE  Sole'
<1>0. Alone(r) /\ Settled(r) /\ Unneeded(r) /\ Has(run[r]) /\ run[r] \in Invocations
  BY DEF Sole, Present, TypeOK
<1>1. run'[r].pc = "record" /\ run'[r].code = run[r].code /\ Same(r)
  BY GotoFields DEF Restart
<1>2. Alone(r)'
  BY <1>0, <1>1 DEF Restart, Alone, Has, Current, host, Same, RecordSound, Sole
<1>3. Settled(r)'
  BY <1>0, <1>1 DEF Restart, Settled, Alone, Runs, MidChange, NeedsRestart, host, Same, Has
<1>4. Unneeded(r)'
  BY <1>0, <1>1 DEF Restart, Unneeded, Converged, Current, host, Same, NeedsRestart
<1>5. (At(r, "done") /\ run[r].code = ExitOK => Installed(r))'
  BY <1>0, <1>1 DEF Restart, Installed, Alone, host, Same
<1>6. RecordSound'
  BY <1>0, <1>1 DEF Restart, Sole, RecordSound, host
<1> QED BY <1>2, <1>3, <1>4, <1>5, <1>6, SoleStep

\* The record tells what was built and installed.
LEMMA SoleWriteRecord ==
  ASSUME TypeOK, Present, Sole, OneRunner, NEW r \in Runners, WriteRecord(r)
  PROVE  Sole'
<1>0. Alone(r) /\ Settled(r) /\ Unneeded(r) /\ Has(run[r]) /\ run[r] \in Invocations
  BY DEF Sole, Present, TypeOK
<1>1. run'[r].pc = "ready" /\ run'[r].code = run[r].code /\ Same(r)
  BY GotoFields DEF WriteRecord
<1>2. Alone(r)'
  BY <1>0, <1>1 DEF WriteRecord, Alone, Has, Current, host, Same, RecordSound, Sole
<1>3. Settled(r)'
  BY <1>0, <1>1 DEF WriteRecord, Settled, Alone, Runs, MidChange, NeedsRestart, host, Same, Has
<1>4. Unneeded(r)'
  BY <1>0, <1>1 DEF WriteRecord, Unneeded, Converged, Current, host, Same, NeedsRestart
<1>5. (At(r, "done") /\ run[r].code = ExitOK => Installed(r))'
  BY <1>0, <1>1 DEF WriteRecord, Installed, Alone, host, Same
<1>6. RecordSound'
  <2>1. CASE ~run[r].built
    BY <2>1 DEF WriteRecord, Sole, RecordSound
  <2>2. CASE run[r].built
    <3>1. /\ binFile = run[r].new /\ BuildOf[run[r].new] = run[r].commit
          /\ ~run[r].binaryChanged => run[r].old = run[r].new
      BY <1>0, <2>2 DEF WriteRecord, Alone, Has
    <3>2. record'.sha = run[r].new /\ record'.commit = run[r].commit
      BY <2>2, <3>1 DEF WriteRecord
    <3> QED BY <3>1, <3>2 DEF RecordSound
  <2> QED BY <2>1, <2>2
<1> QED BY <1>2, <1>3, <1>4, <1>5, <1>6, SoleStep

\* The unit file is what r read; it is to be reloaded if it was not.
LEMMA SoleWriteUnit ==
  ASSUME TypeOK, Present, Sole, OneRunner, NEW r \in Runners, WriteUnit(r)
  PROVE  Sole'
<1>0. Alone(r) /\ Settled(r) /\ Unneeded(r) /\ Has(run[r]) /\ run[r] \in Invocations
  BY DEF Sole, Present, TypeOK
<1>1. /\ run'[r].pc = (IF run[r].unitChanged THEN "reload" ELSE "swap")
      /\ run'[r].code = run[r].code /\ Same(r)
  BY GotoFields DEF WriteUnit
<1>2. Alone(r)'
  BY <1>0, <1>1 DEF WriteUnit, Alone, Has, Current, host, Same, RecordSound, Sole
<1>3. Settled(r)'
  BY <1>0, <1>1 DEF WriteUnit, Settled, Alone, Runs, MidChange, NeedsRestart, host, Same, Has
<1>4. Unneeded(r)'
  BY <1>0, <1>1 DEF WriteUnit, Unneeded, Converged, Current, host, Same, NeedsRestart
<1>5. (At(r, "done") /\ run[r].code = ExitOK => Installed(r))'
  BY <1>0, <1>1 DEF WriteUnit, Installed, Alone, host, Same
<1>6. RecordSound'
  BY <1>0, <1>1 DEF WriteUnit, Sole, RecordSound, host
<1> QED BY <1>2, <1>3, <1>4, <1>5, <1>6, SoleStep

\* Stopping a superseded unit disturbs nothing.
LEMMA SoleStopOther ==
  ASSUME TypeOK, Present, Sole, OneRunner, NEW r \in Runners, StopOther(r)
  PROVE  Sole'
<1>0. Alone(r) /\ Settled(r) /\ Unneeded(r) /\ Has(run[r]) /\ run[r] \in Invocations
  BY DEF Sole, Present, TypeOK
<1>1. run' = run
  BY DEF StopOther
<1>2. Alone(r)'
  BY <1>0, <1>1 DEF StopOther, Alone, Has, Current, host, Same, RecordSound, Sole
<1>3. Settled(r)'
  BY <1>0, <1>1 DEF StopOther, Settled, Alone, Runs, MidChange, NeedsRestart, host, Same, Has
<1>4. Unneeded(r)'
  BY <1>0, <1>1 DEF StopOther, Unneeded, Converged, Current, host, Same, NeedsRestart
<1>5. (At(r, "done") /\ run[r].code = ExitOK => Installed(r))'
  BY <1>0, <1>1 DEF StopOther, Installed, Alone, host, Same
<1>6. RecordSound'
  BY <1>0, <1>1 DEF StopOther, Sole, RecordSound, host
<1> QED BY <1>2, <1>3, <1>4, <1>5, <1>6, SoleStep

\* Nor does disabling one.
LEMMA SoleDisableOther ==
  ASSUME TypeOK, Present, Sole, OneRunner, NEW r \in Runners, DisableOther(r)
  PROVE  Sole'
<1>0. Alone(r) /\ Settled(r) /\ Unneeded(r) /\ Has(run[r]) /\ run[r] \in Invocations
  BY DEF Sole, Present, TypeOK
<1>1. run' = run
  BY DEF DisableOther
<1>2. Alone(r)'
  BY <1>0, <1>1 DEF DisableOther, Alone, Has, Current, host, Same, RecordSound, Sole
<1>3. Settled(r)'
  BY <1>0, <1>1 DEF DisableOther, Settled, Alone, Runs, MidChange, NeedsRestart, host, Same, Has
<1>4. Unneeded(r)'
  BY <1>0, <1>1 DEF DisableOther, Unneeded, Converged, Current, host, Same, NeedsRestart
<1>5. (At(r, "done") /\ run[r].code = ExitOK => Installed(r))'
  BY <1>0, <1>1 DEF DisableOther, Installed, Alone, host, Same
<1>6. RecordSound'
  BY <1>0, <1>1 DEF DisableOther, Sole, RecordSound, host
<1> QED BY <1>2, <1>3, <1>4, <1>5, <1>6, SoleStep

\* A run begins with nothing but the unit.
LEMMA BeginFields ==
  ASSUME TypeOK, Present, NEW r \in Runners, Begin(r)
  PROVE  /\ run'[r].pc = "export" /\ run'[r].unit = values
         /\ run'[r].unitChanged <=> values # unitFile
         /\ run'[r].commit = None /\ run'[r].old = None /\ run'[r].new = None
         /\ run'[r].built = FALSE /\ run'[r].binaryChanged = FALSE /\ run'[r].noop = FALSE
<1>1. /\ run'[r] = [run[r] EXCEPT !.pc = "export", !.unit = values, !.unitChanged = (values # unitFile)]
      /\ run[r] = Idle
  BY DEF Begin, TypeOK, Present, Has
<1>2. run'[r].unitChanged = (values # unitFile)
  BY <1>1 DEF Idle
<1>3. /\ run'[r].pc = "export" /\ run'[r].unit = values
      /\ run'[r].commit = None /\ run'[r].old = None /\ run'[r].new = None
      /\ run'[r].built = FALSE /\ run'[r].binaryChanged = FALSE /\ run'[r].noop = FALSE
  BY <1>1 DEF Idle
<1> QED BY <1>2, <1>3

\* The export finds out the commit, and whether the host is converged.
LEMMA ExportFields ==
  ASSUME TypeOK, NEW r \in Runners, Export(r)
  PROVE  /\ run'[r].pc = "inspect" /\ run'[r].commit = source
         /\ run'[r].noop <=> Converged(run[r].unit, source)
         /\ run'[r].unit = run[r].unit /\ run'[r].unitChanged = run[r].unitChanged
         /\ run'[r].old = run[r].old /\ run'[r].new = run[r].new
         /\ run'[r].built = run[r].built /\ run'[r].binaryChanged = run[r].binaryChanged
<1>1. /\ run'[r] = [run[r] EXCEPT !.pc = "inspect", !.commit = source,
                                   !.noop = Converged(run[r].unit, source)]
      /\ run[r] \in Invocations
  BY DEF Export, TypeOK
<1>2. run'[r].noop = Converged(run[r].unit, source)
  BY <1>1 DEF Invocations
<1>3. /\ run'[r].pc = "inspect" /\ run'[r].commit = source
      /\ run'[r].unit = run[r].unit /\ run'[r].unitChanged = run[r].unitChanged
      /\ run'[r].old = run[r].old /\ run'[r].new = run[r].new
      /\ run'[r].built = run[r].built /\ run'[r].binaryChanged = run[r].binaryChanged
  BY <1>1 DEF Invocations
<1> QED BY <1>2, <1>3

\* The inspection finds out the installed binary.
LEMMA InspectFields ==
  ASSUME TypeOK, NEW r \in Runners, Inspect(r)
  PROVE  /\ run'[r].pc = (IF Current(run[r].commit) THEN "unit" ELSE "build")
         /\ run'[r].old = binFile /\ run'[r].new = run[r].new
         /\ run'[r].unit = run[r].unit /\ run'[r].unitChanged = run[r].unitChanged
         /\ run'[r].commit = run[r].commit /\ run'[r].noop = run[r].noop
         /\ run'[r].built = run[r].built /\ run'[r].binaryChanged = run[r].binaryChanged
<1>1. /\ run'[r] = [run[r] EXCEPT !.pc = IF Current(run[r].commit) THEN "unit" ELSE "build", !.old = binFile]
      /\ run[r] \in Invocations
  BY DEF Inspect, TypeOK
<1> QED BY <1>1 DEF Invocations

\* A build is known by its staged file.
LEMMA BuildFields ==
  ASSUME TypeOK, NEW r \in Runners, Build(r)
  PROVE  /\ run'[r].pc = "compare" /\ run'[r].built
         /\ run'[r].unit = run[r].unit /\ run'[r].unitChanged = run[r].unitChanged
         /\ run'[r].commit = run[r].commit /\ run'[r].noop = run[r].noop
         /\ run'[r].old = run[r].old /\ run'[r].new = run[r].new
         /\ run'[r].binaryChanged = run[r].binaryChanged
<1>1. /\ run'[r] = [run[r] EXCEPT !.pc = "compare", !.built = TRUE]
      /\ run[r] \in Invocations
  BY DEF Build, TypeOK
<1> QED BY <1>1 DEF Invocations

\* The comparison finds out the staged binary.
LEMMA CompareFields ==
  ASSUME TypeOK, NEW r \in Runners, Compare(r)
  PROVE  /\ run'[r].pc = "unit" /\ run'[r].new = staged
         /\ run'[r].binaryChanged <=> run[r].old # staged
         /\ run'[r].unit = run[r].unit /\ run'[r].unitChanged = run[r].unitChanged
         /\ run'[r].commit = run[r].commit /\ run'[r].noop = run[r].noop
         /\ run'[r].old = run[r].old /\ run'[r].built = run[r].built
<1>1. /\ run'[r] = [run[r] EXCEPT !.pc = "unit", !.new = staged, !.binaryChanged = (run[r].old # staged)]
      /\ run[r] \in Invocations
  BY DEF Compare, TypeOK
<1>2. run'[r].binaryChanged = (run[r].old # staged)
  BY <1>1 DEF Invocations
<1>3. /\ run'[r].pc = "unit" /\ run'[r].new = staged
      /\ run'[r].unit = run[r].unit /\ run'[r].unitChanged = run[r].unitChanged
      /\ run'[r].commit = run[r].commit /\ run'[r].noop = run[r].noop
      /\ run'[r].old = run[r].old /\ run'[r].built = run[r].built
  BY <1>1 DEF Invocations
<1> QED BY <1>2, <1>3

\* A run compares the unit files.
LEMMA SoleBegin ==
  ASSUME TypeOK, Present, Sole, OneRunner, NEW r \in Runners, Begin(r)
  PROVE  Sole'
<1>0. Alone(r) /\ Settled(r) /\ Unneeded(r) /\ Has(run[r]) /\ run[r] \in Invocations
  BY DEF Sole, Present, TypeOK
<1>1. /\ run'[r].pc = "export" /\ run'[r].unit = values
      /\ run'[r].unitChanged <=> values # unitFile
      /\ run'[r].commit = None /\ run'[r].old = None /\ run'[r].new = None
      /\ run'[r].built = FALSE /\ run'[r].binaryChanged = FALSE /\ run'[r].noop = FALSE
  BY BeginFields
<1>2. Alone(r)'
  BY <1>0, <1>1 DEF Begin, Alone, Has, Current, host, Same, RecordSound, Sole
<1>3. Settled(r)'
  BY <1>0, <1>1 DEF Begin, Settled, Alone, Runs, MidChange, NeedsRestart, host, Same, Has
<1>4. Unneeded(r)'
  BY <1>0, <1>1 DEF Begin, Unneeded, Converged, Current, host, Same, NeedsRestart
<1>5. (At(r, "done") /\ run[r].code = ExitOK => Installed(r))'
  BY <1>0, <1>1 DEF Begin, Installed, Alone, host, Same
<1>6. RecordSound'
  BY <1>0, <1>1 DEF Begin, Sole, RecordSound, host
<1> QED BY <1>2, <1>3, <1>4, <1>5, <1>6, SoleStep

\* A converged host is one where nothing is to be done.
LEMMA SoleExport ==
  ASSUME TypeOK, Present, Sole, OneRunner, NEW r \in Runners, Export(r)
  PROVE  Sole'
<1>0. Alone(r) /\ Settled(r) /\ Unneeded(r) /\ Has(run[r]) /\ run[r] \in Invocations
  BY DEF Sole, Present, TypeOK
<1>1. /\ run'[r].pc = "inspect" /\ run'[r].commit = source
      /\ run'[r].noop <=> Converged(run[r].unit, source)
      /\ run'[r].unit = run[r].unit /\ run'[r].unitChanged = run[r].unitChanged
      /\ run'[r].old = run[r].old /\ run'[r].new = run[r].new
      /\ run'[r].built = run[r].built /\ run'[r].binaryChanged = run[r].binaryChanged
  BY ExportFields
<1>2. Alone(r)'
  BY <1>0, <1>1 DEF Export, Alone, Has, Current, host, Same, RecordSound, Sole
<1>3. Settled(r)'
  BY <1>0, <1>1 DEF Export, Settled, Alone, Runs, MidChange, NeedsRestart, host, Same, Has
<1>4. Unneeded(r)'
  <2>2. Converged(run[r].unit, source) => Converged(run[r].unit, run[r].commit)'
    BY <1>1 DEF Export, Converged, host
  <2>3. ~run[r].built /\ ~run[r].binaryChanged /\ (run[r].unitChanged <=> run[r].unit # unitFile)
    BY <1>0 DEF Export, Has, Alone
  <2>4. Converged(run[r].unit, source) => run[r].unit = unitFile
    BY DEF Converged
  <2> QED BY <1>1, <2>2, <2>3, <2>4 DEF Unneeded
<1>5. (At(r, "done") /\ run[r].code = ExitOK => Installed(r))'
  BY <1>0, <1>1 DEF Export, Installed, Alone, host, Same
<1>6. RecordSound'
  BY <1>0, <1>1 DEF Export, Sole, RecordSound, host
<1> QED BY <1>2, <1>3, <1>4, <1>5, <1>6, SoleStep

\* A run that will not build has a current binary.
LEMMA SoleInspect ==
  ASSUME TypeOK, Present, Sole, OneRunner, NEW r \in Runners, Inspect(r)
  PROVE  Sole'
<1>0. Alone(r) /\ Settled(r) /\ Unneeded(r) /\ Has(run[r]) /\ run[r] \in Invocations
  BY DEF Sole, Present, TypeOK
<1>1. /\ run'[r].pc = (IF Current(run[r].commit) THEN "unit" ELSE "build")
      /\ run'[r].old = binFile /\ run'[r].new = run[r].new
      /\ run'[r].unit = run[r].unit /\ run'[r].unitChanged = run[r].unitChanged
      /\ run'[r].commit = run[r].commit /\ run'[r].noop = run[r].noop
      /\ run'[r].built = run[r].built /\ run'[r].binaryChanged = run[r].binaryChanged
  BY InspectFields
<1>2. Alone(r)'
  BY <1>0, <1>1 DEF Inspect, Alone, Has, Current, host, Same, RecordSound, Sole
<1>3. Settled(r)'
  BY <1>0, <1>1 DEF Inspect, Settled, Alone, Runs, MidChange, NeedsRestart, host, Same, Has
<1>4. Unneeded(r)'
  BY <1>0, <1>1 DEF Inspect, Unneeded, Converged, Current, host, Same, NeedsRestart
<1>5. (At(r, "done") /\ run[r].code = ExitOK => Installed(r))'
  BY <1>0, <1>1 DEF Inspect, Installed, Alone, host, Same
<1>6. RecordSound'
  BY <1>0, <1>1 DEF Inspect, Sole, RecordSound, host
<1> QED BY <1>2, <1>3, <1>4, <1>5, <1>6, SoleStep

\* The staged file is the build of the commit.
LEMMA SoleBuild ==
  ASSUME TypeOK, Present, Sole, OneRunner, NEW r \in Runners, Build(r)
  PROVE  Sole'
<1>0. Alone(r) /\ Settled(r) /\ Unneeded(r) /\ Has(run[r]) /\ run[r] \in Invocations
  BY DEF Sole, Present, TypeOK
<1>1. /\ run'[r].pc = "compare" /\ run'[r].built
      /\ run'[r].unit = run[r].unit /\ run'[r].unitChanged = run[r].unitChanged
      /\ run'[r].commit = run[r].commit /\ run'[r].noop = run[r].noop
      /\ run'[r].old = run[r].old /\ run'[r].new = run[r].new
      /\ run'[r].binaryChanged = run[r].binaryChanged
  BY BuildFields
<1>2. Alone(r)'
  BY <1>0, <1>1 DEF Build, Alone, Has, Current, host, Same, RecordSound, Sole
<1>3. Settled(r)'
  BY <1>0, <1>1 DEF Build, Settled, Alone, Runs, MidChange, NeedsRestart, host, Same, Has
<1>4. Unneeded(r)'
  BY <1>0, <1>1 DEF Build, Unneeded, Converged, Current, host, Same, NeedsRestart
<1>5. (At(r, "done") /\ run[r].code = ExitOK => Installed(r))'
  BY <1>0, <1>1 DEF Build, Installed, Alone, host, Same
<1>6. RecordSound'
  BY <1>0, <1>1 DEF Build, Sole, RecordSound, host
<1> QED BY <1>2, <1>3, <1>4, <1>5, <1>6, SoleStep

\* The staged file is compared with the installed one.
LEMMA SoleCompare ==
  ASSUME TypeOK, Present, Sole, OneRunner, NEW r \in Runners, Compare(r)
  PROVE  Sole'
<1>0. Alone(r) /\ Settled(r) /\ Unneeded(r) /\ Has(run[r]) /\ run[r] \in Invocations
  BY DEF Sole, Present, TypeOK
<1>1. /\ run'[r].pc = "unit" /\ run'[r].new = staged
      /\ run'[r].binaryChanged <=> run[r].old # staged
      /\ run'[r].unit = run[r].unit /\ run'[r].unitChanged = run[r].unitChanged
      /\ run'[r].commit = run[r].commit /\ run'[r].noop = run[r].noop
      /\ run'[r].old = run[r].old /\ run'[r].built = run[r].built
  BY CompareFields
<1>2. Alone(r)'
  BY <1>0, <1>1 DEF Compare, Alone, Has, Current, host, Same, RecordSound, Sole
<1>3. Settled(r)'
  BY <1>0, <1>1 DEF Compare, Settled, Alone, Runs, MidChange, NeedsRestart, host, Same, Has
<1>4. Unneeded(r)'
  BY <1>0, <1>1 DEF Compare, Unneeded, Converged, Current, host, Same, NeedsRestart
<1>5. (At(r, "done") /\ run[r].code = ExitOK => Installed(r))'
  BY <1>0, <1>1 DEF Compare, Installed, Alone, host, Same
<1>6. RecordSound'
  BY <1>0, <1>1 DEF Compare, Sole, RecordSound, host
<1> QED BY <1>2, <1>3, <1>4, <1>5, <1>6, SoleStep

\* A run that succeeds has done it all.
LEMMA SoleReady ==
  ASSUME TypeOK, Present, Sole, OneRunner, NEW r \in Runners, Ready(r)
  PROVE  Sole'
<1>0. Alone(r) /\ Settled(r) /\ Unneeded(r) /\ Has(run[r]) /\ run[r] \in Invocations
  BY DEF Sole, Present, TypeOK
<1>1. /\ run'[r].pc = "done" /\ Same(r)
      /\ halfway' = (halfway \/ MidChange(r))
  BY CodeFacts, ExitFields DEF Ready
<1>2. Alone(r)'
  BY <1>0, <1>1 DEF Ready, Alone, Has, Current, host, Same, RecordSound, Sole
<1>3. Settled(r)'
  BY <1>0, <1>1 DEF Ready, Settled, Alone, Runs, MidChange, NeedsRestart, host, Same, Has
<1>4. Unneeded(r)'
  BY <1>0, <1>1 DEF Ready, Unneeded, Converged, Current, host, Same, NeedsRestart
<1>5. (At(r, "done") /\ run[r].code = ExitOK => Installed(r))'
  <2>1. /\ Own \in enabled /\ Others \cap (active \cup enabled) = {} /\ running # None
        /\ run[r].unit = unitFile /\ Current(run[r].commit)
    BY <1>0 DEF Ready, Alone
  <2>2. BuildOf[binFile] = run[r].commit /\ run[r].commit # None
    <3>1. binFile \in Bytes /\ run[r].commit \in Commits
      BY <1>0, <2>1 DEF Ready, Current, TypeOK, Has, Invocations
    <3>2. record = [commit |-> run[r].commit, sha |-> binFile]
      BY <2>1 DEF Current
    <3>3. record # None
      BY <3>1, <3>2
    <3>4. record.commit = run[r].commit /\ record.sha = binFile
      BY <3>2
    <3> QED BY <3>1, <3>3, <3>4 DEF Sole, RecordSound
  <2> QED BY <1>1, <2>1, <2>2 DEF Ready, Installed, Current, host, Same
<1>6. RecordSound'
  BY <1>0, <1>1 DEF Ready, Sole, RecordSound, host
<1> QED BY <1>2, <1>3, <1>4, <1>5, <1>6, SoleStep

\* On a converged host the service is up.
LEMMA ConvergedRuns ==
  ASSUME TypeOK, NEW r \in Runners, Has(run[r]), run[r].pc \notin {"idle", "done"},
         Converged(run[r].unit, run[r].commit)
  PROVE  running # None
<1>1. run[r].unit # None /\ run[r].unit \in Units \cup {None}
  BY DEF TypeOK, Has, Invocations
<1>2. binFile \in Bytes /\ running = [unit |-> run[r].unit, bin |-> binFile]
  BY DEF Converged, TypeOK
<1> QED BY <1>1, <1>2

\* A run that returns with an error leaves what it has changed behind: of the
\* host, a failed restart alone touches the service.
LEMMA SoleFailure ==
  ASSUME TypeOK, Present, Sole, OneRunner, NEW r \in Runners,
         run'[r].pc = "done", run'[r].code # ExitOK, Same(r), halfway' = (halfway \/ MidChange(r)),
         UNCHANGED <<unitFile, loaded, binFile, record, active, enabled>>,
         running' # running => At(r, "restart") /\ NeedsRestart(r)
  PROVE  Sole'
<1>0. Alone(r) /\ Settled(r) /\ Unneeded(r) /\ Has(run[r]) /\ run[r] \in Invocations
  BY DEF Sole, Present, TypeOK
<1>2. Alone(r)'
  BY <1>0 DEF Alone
<1>3. Settled(r)'
  BY <1>0 DEF Settled, Runs, MidChange
<1>4. Unneeded(r)'
  BY <1>0, ConvergedRuns DEF Unneeded, Converged, Same, NeedsRestart
<1>6. RecordSound'
  BY DEF Sole, RecordSound
<1> QED BY <1>2, <1>3, <1>4, <1>6, SoleStep

\* Those are the ways to fail.
LEMMA SoleFails ==
  ASSUME TypeOK, Present, Sole, OneRunner, NEW r \in Runners,
         BuildFails(r) \/ StagedGone(r) \/ RestartFails(r) \/ NotReady(r) \/ StepFails(r)
  PROVE  Sole'
<1>1. CASE BuildFails(r)
  <2>1. run'[r].pc = "done" /\ run'[r].code # ExitOK /\ Same(r)
    BY <1>1, CodeFacts, EndFields DEF BuildFails
  <2>2. halfway' = (halfway \/ MidChange(r)) /\ UNCHANGED host
    BY <1>1 DEF BuildFails, MidChange, TypeOK
  <2> QED BY <2>1, <2>2, SoleFailure DEF host
<1>2. CASE StagedGone(r)
  BY <1>2, CodeFacts, ExitFields, SoleFailure DEF StagedGone, host
<1>3. CASE RestartFails(r)
  BY <1>3, CodeFacts, ExitFields, SoleFailure DEF RestartFails
<1>4. CASE NotReady(r)
  BY <1>4, CodeFacts, ExitFields, SoleFailure DEF NotReady, host
<1>5. CASE StepFails(r)
  BY <1>5, CodeFacts, ExitFields, SoleFailure DEF StepFails, host
<1> QED BY <1>1, <1>2, <1>3, <1>4, <1>5

\* A run that has ended, or was killed, promises nothing.
LEMMA SoleEnds ==
  ASSUME TypeOK, Present, Sole, OneRunner, NEW r \in Runners, Report(r) \/ Kill(r)
  PROVE  Sole'
<1>0. Settled(r) /\ Has(run[r])
  BY DEF Sole, Present
<1>1. /\ run'[r].pc = "idle" /\ run'[r].noop = FALSE
      /\ halfway' = (halfway \/ MidChange(r)) /\ UNCHANGED host
  BY DEF Report, Kill, TypeOK, Idle, MidChange
<1>2. Alone(r)' /\ Unneeded(r)'
  BY <1>1 DEF Alone, Unneeded
<1>3. Settled(r)'
  BY <1>0, <1>1 DEF Settled, Runs, MidChange, host
<1>6. RecordSound'
  BY <1>1 DEF Sole, RecordSound, host
<1> QED BY <1>1, <1>2, <1>3, <1>6, SoleStep

\* The world around a run: what changes the host finds it quiet, and a binary put
\* in place by hand is no reviewed commit's.
LEMMA SoleWorld ==
  ASSUME TypeOK, Present, Sole, OneRunner, NEW r \in Runners,
         Merge \/ Reconfigure \/ ServiceStops \/ Tamper \/ Boot
  PROVE  Sole'
<1>0. Alone(r) /\ Settled(r) /\ Unneeded(r) /\ Has(run[r]) /\ run[r] \in Invocations
  BY DEF Sole, Present, TypeOK
<1>1. UNCHANGED <<run, record, staged>> /\ (UNCHANGED host \/ Quiet)
  BY DEF Merge, Reconfigure, ServiceStops, Tamper, Boot, host
<1>2. Alone(r)'
  BY <1>0, <1>1 DEF Alone, Quiet, Current, host
<1>3. Settled(r)'
  <2>1. CASE Merge \/ Reconfigure
    BY <1>0, <2>1 DEF Merge, Reconfigure, Settled, Runs, host
  <2>2. CASE ServiceStops \/ Tamper
    BY <1>0, <2>2 DEF ServiceStops, Tamper, Quiet, Settled, Runs, TypeOK
  <2>3. CASE Boot
    BY <1>0, <2>3 DEF Boot, Quiet, Settled, Runs, TypeOK
  <2> QED BY <2>1, <2>2, <2>3
<1>4. Unneeded(r)'
  BY <1>0, <1>1 DEF Unneeded, Converged, Quiet, host
<1>5. (At(r, "done") /\ run[r].code = ExitOK => Installed(r))'
  BY <1>1 DEF Sole, InstalledOnSuccess, Installed, Quiet, host
<1>6. RecordSound'
  BY <1>1 DEF Sole, RecordSound
<1> QED BY <1>2, <1>3, <1>4, <1>5, <1>6, SoleStep

\* A service that comes back runs what is loaded and installed.
LEMMA SoleRespawn ==
  ASSUME TypeOK, Present, Sole, OneRunner, NEW r \in Runners, Respawn
  PROVE  Sole'
<1>1. run' = run /\ Alone(r) /\ Settled(r) /\ Unneeded(r) /\ Has(run[r]) /\ run[r] \in Invocations
  BY DEF Respawn, Sole, Present, TypeOK
<1>2. Alone(r)'
  BY <1>1 DEF Respawn, Alone, Quiet, Current, host
<1>3. Settled(r)'
  BY <1>1 DEF Respawn, Settled, Alone, Runs, Quiet, host, TypeOK
<1>4. Unneeded(r)'
  BY <1>1 DEF Respawn, Unneeded, Converged, Quiet, host
<1>5. (At(r, "done") /\ run[r].code = ExitOK => Installed(r))'
  <2>1. running' # None
    BY DEF Respawn, TypeOK, Present
  <2>2. At(r, "done") /\ run[r].code = ExitOK => Installed(r)
    BY DEF Sole, InstalledOnSuccess
  <2> QED BY <1>1, <2>1, <2>2 DEF Respawn, Installed
<1>6. RecordSound'
  BY <1>1 DEF Respawn, Sole, RecordSound, host
<1> QED BY <1>2, <1>3, <1>4, <1>5, <1>6, SoleStep

\* With one run on the host, every step keeps what it rests on.
LEMMA SoleNext == TypeOK /\ Present /\ Sole /\ OneRunner /\ [Next]_vars => Sole'
<1> SUFFICES ASSUME TypeOK, Present, Sole, OneRunner, [Next]_vars PROVE Sole'
  OBVIOUS
<1>1. ASSUME NEW r \in Runners, Merge \/ Reconfigure \/ ServiceStops \/ Respawn \/ Tamper \/ Boot
      PROVE  Sole'
  BY <1>1, SoleWorld, SoleRespawn
<1>2. ASSUME NEW r \in Runners,
             \/ Begin(r) \/ Export(r) \/ Inspect(r) \/ Build(r) \/ BuildFails(r) \/ Compare(r)
             \/ WriteUnit(r) \/ DaemonReload(r) \/ Swap(r) \/ StagedGone(r)
      PROVE  Sole'
  BY <1>2, SoleBegin, SoleExport, SoleInspect, SoleBuild, SoleFails, SoleCompare,
     SoleWriteUnit, SoleDaemonReload, SoleSwap, SoleFails
<1>3. ASSUME NEW r \in Runners,
             \/ StopOther(r) \/ DisableOther(r) \/ OthersDone(r) \/ Enable(r) \/ Restart(r)
             \/ RestartFails(r) \/ WriteRecord(r) \/ Ready(r) \/ NotReady(r) \/ StepFails(r)
             \/ Report(r) \/ Kill(r)
      PROVE  Sole'
  BY <1>3, SoleStopOther, SoleDisableOther, SoleOthersDone, SoleEnable, SoleRestart,
     SoleFails, SoleWriteRecord, SoleReady, SoleEnds
<1>4. CASE UNCHANGED vars
  BY <1>4 DEF vars, host, Sole, RecordSound, InstalledOnSuccess, Installed, Alone, Settled, Runs,
     Unneeded, Converged, Current
<1>5. CASE Next /\ Runners = {}
  <2>1. record' = record
    BY <1>5 DEF Next, Merge, Reconfigure, ServiceStops, Respawn, Tamper, Boot, host
  <2> QED BY <1>5, <2>1 DEF Sole, RecordSound, InstalledOnSuccess
<1> QED BY <1>1, <1>2, <1>3, <1>4, <1>5 DEF Next

\* On a fresh host nothing is promised.
LEMMA SoleInit == Init => Sole
BY DEF Init, Idle, Sole, RecordSound, InstalledOnSuccess, Alone, Settled, Runs, Unneeded

-----------------------------------------------------------------------------
(* The manager. *)

\* A step of r leaves the records of other runs alone.
LEMMA OtherRuns ==
  ASSUME TypeOK, NEW r \in Runners, NEW q \in Runners, q # r,
         \/ Begin(r) \/ Export(r) \/ Inspect(r) \/ Build(r) \/ Compare(r)
         \/ WriteUnit(r) \/ DaemonReload(r) \/ Swap(r) \/ StagedGone(r)
         \/ StopOther(r) \/ DisableOther(r) \/ OthersDone(r) \/ Enable(r) \/ Restart(r)
         \/ WriteRecord(r) \/ Ready(r) \/ NotReady(r) \/ Report(r)
  PROVE  run'[q] = run[q]
BY DEF TypeOK, Begin, Export, Inspect, Build, Compare, WriteUnit, DaemonReload, Swap, StagedGone,
   StopOther, DisableOther, OthersDone, Enable, Restart, WriteRecord, Ready, NotReady, Report, Exit, End

\* Steps that leave unit file and manager as they are, or make them equal, and
\* are not taken by a run that is about to reload.
LEMMA ReloadKept ==
  ASSUME TypeOK, Reloading, NEW r \in Runners, run[r].pc # "reload",
         \A q \in Runners : q # r => run'[q] = run[q],
         loaded' = unitFile' \/ (loaded' = loaded /\ unitFile' = unitFile)
  PROVE  Reloading'
BY DEF Reloading

\* Where nothing fails, every write of a unit file is followed by a reload.
LEMMA ReloadNext == TypeOK /\ Reloading /\ [Next]_vars => Reloading'
<1> SUFFICES ASSUME TypeOK, Reloading, [Next]_vars, ~CanFail, ~CanDie PROVE Reloading'
  BY DEF Reloading
<1>1. CASE Merge \/ Reconfigure \/ ServiceStops \/ Respawn \/ Tamper \/ Boot
  BY <1>1 DEF Reloading, Merge, Reconfigure, ServiceStops, Respawn, Tamper, Boot, host
<1>2. ASSUME NEW r \in Runners,
             \/ Begin(r) \/ Export(r) \/ Inspect(r) \/ Build(r) \/ Compare(r)
             \/ Swap(r) \/ StagedGone(r)
             \/ StopOther(r) \/ DisableOther(r) \/ OthersDone(r) \/ Enable(r) \/ Restart(r)
             \/ WriteRecord(r) \/ Ready(r) \/ NotReady(r) \/ Report(r)
      PROVE  Reloading'
  <2>1. run[r].pc # "reload"
    BY <1>2 DEF Begin, Export, Inspect, Build, Compare, Swap, StagedGone, StopOther, DisableOther,
       OthersDone, Enable, Restart, WriteRecord, Ready, NotReady, Report
  <2>2. \A q \in Runners : q # r => run'[q] = run[q]
    BY <1>2, OtherRuns
  <2>3. loaded' = unitFile' \/ (loaded' = loaded /\ unitFile' = unitFile)
    BY <1>2 DEF host, Begin, Export, Inspect, Build, Compare, Swap, StagedGone, StopOther, DisableOther,
       OthersDone, Enable, Restart, WriteRecord, Ready, NotReady, Report
  <2> QED BY <2>1, <2>2, <2>3, ReloadKept
<1>3. ASSUME NEW r \in Runners, WriteUnit(r)
      PROVE  Reloading'
  <2>1. CASE run[r].unitChanged
    <3>1. run'[r].pc = "reload"
      BY <1>3, <2>1, GotoFields DEF WriteUnit
    <3> QED BY <3>1 DEF Reloading
  <2>2. CASE ~run[r].unitChanged
    <3>1. run[r].pc # "reload" /\ loaded' = loaded /\ unitFile' = unitFile
      BY <1>3, <2>2 DEF WriteUnit
    <3>2. \A q \in Runners : q # r => run'[q] = run[q]
      BY <1>3, OtherRuns
    <3> QED BY <3>1, <3>2, ReloadKept
  <2> QED BY <2>1, <2>2
<1>4. ASSUME NEW r \in Runners, DaemonReload(r)
      PROVE  Reloading'
  BY <1>4 DEF DaemonReload, Reloading
<1>5. CASE UNCHANGED vars
  BY <1>5 DEF vars, host, Reloading
<1>6. ASSUME NEW r \in Runners, BuildFails(r) \/ RestartFails(r) \/ StepFails(r) \/ Kill(r)
      PROVE  FALSE
  BY <1>6 DEF BuildFails, RestartFails, StepFails, Kill
<1> QED BY <1>1, <1>2, <1>3, <1>4, <1>5, <1>6 DEF Next

-----------------------------------------------------------------------------
(* A converged host. *)

\* A run on a converged host changes nothing on it: it has nothing to write, to
\* swap, to stop, to enable, to restart or to record.
LEMMA NoOpStep ==
  ASSUME IInv, OneRunner, NEW r \in Runners, run[r].noop, [Next]_vars
  PROVE  UNCHANGED host
<1>1. Converged(run[r].unit, run[r].commit) /\ ~Quiet /\ run[r] \in Invocations
  BY DEF IInv, Sole, Unneeded, TypeOK, Quiet
<1>2. /\ run[r].pc \notin {"idle", "export", "build", "compare", "reload"}
      /\ ~run[r].built /\ ~run[r].unitChanged /\ ~run[r].binaryChanged
  BY DEF IInv, Sole, Unneeded
<1>3. CASE Merge \/ Reconfigure \/ ServiceStops \/ Tamper \/ Boot
  BY <1>1, <1>3 DEF Merge, Reconfigure, ServiceStops, Tamper, Boot, host
<1>4. CASE Respawn
  BY <1>1, <1>4 DEF Respawn, Converged, host
<1>5. CASE \/ Begin(r) \/ Export(r) \/ Inspect(r) \/ Build(r) \/ BuildFails(r) \/ Compare(r)
           \/ DaemonReload(r) \/ StagedGone(r) \/ OthersDone(r) \/ Ready(r) \/ NotReady(r)
           \/ StepFails(r) \/ Report(r) \/ Kill(r)
  BY <1>2, <1>5 DEF Begin, Export, Inspect, Build, BuildFails, Compare, DaemonReload, StagedGone,
     OthersDone, Ready, NotReady, StepFails, Report, Kill, host
<1>6. CASE WriteUnit(r) \/ Swap(r) \/ WriteRecord(r)
  BY <1>2, <1>6 DEF WriteUnit, Swap, WriteRecord, host
<1>7. CASE StopOther(r) \/ DisableOther(r) \/ Enable(r)
  BY <1>1, <1>7 DEF StopOther, DisableOther, Enable, Converged, host
<1>8. CASE Restart(r) \/ RestartFails(r)
  <2>1. running # None
    BY <1>1, <1>8, ConvergedRuns DEF IInv, Present, Restart, RestartFails
  <2>2. ~NeedsRestart(r)
    BY <1>2, <2>1 DEF NeedsRestart
  <2> QED BY <1>8, <2>2 DEF Restart, RestartFails, host
<1>9. CASE UNCHANGED vars
  BY <1>9 DEF vars, host
<1> QED BY <1>3, <1>4, <1>5, <1>6, <1>7, <1>8, <1>9 DEF Next, OneRunner

-----------------------------------------------------------------------------
(* The theorems. *)

\* The initial states satisfy the invariant.
LEMMA InitInv == Init => IInv
<1>1. Init => Reloading
  BY DEF Init, Reloading
<1> QED BY <1>1, TypeInit, SoleInit DEF IInv

\* Every step keeps it.
LEMMA NextInv == IInv /\ [Next]_vars => IInv'
BY TypeNext, ReloadNext, SoleNext DEF IInv, OneRunner

\* The invariant holds in every reachable state, whatever fails, dies, is edited
\* or tampered with, and, its part about types and the manager, however many
\* runs there are.
THEOREM Invariance == Spec => []IInv
<1> QED BY InitInv, NextInv, PTL DEF Spec

\* Every variable of the host and of its runs keeps its type.
THEOREM TypeCorrect == Spec => []TypeOK
<1>1. IInv => TypeOK
  BY DEF IInv
<1> QED BY <1>1, Invariance, PTL

\* However many runs there are and however their steps interleave, systemd has
\* the installed unit file loaded once all have returned, if none of them fails.
THEOREM ManagerCurrentHolds == Spec => []ManagerCurrent
<1>1. IInv => ManagerCurrent
  <2> SUFFICES ASSUME IInv, ~CanFail, ~CanDie, \A r \in Runners : run[r].pc \in {"idle", "done"}
               PROVE  loaded = unitFile
    BY DEF ManagerCurrent
  <2> QED BY DEF IInv, Reloading
<1> QED BY <1>1, Invariance, PTL

\* One run at a time: a record that describes the installed binary is true of it.
THEOREM RecordTruthfulHolds == OneRunner => (Spec => []RecordTruthful)
<1> SUFFICES ASSUME OneRunner PROVE Spec => []RecordTruthful
  OBVIOUS
<1>1. IInv => RecordTruthful
  BY DEF IInv, Sole, RecordSound, RecordTruthful
<1> QED BY <1>1, Invariance, PTL

\* One run at a time: exit 0 means that everything is installed, up and enabled.
THEOREM InstalledOnSuccessHolds == OneRunner => (Spec => []InstalledOnSuccess)
<1> SUFFICES ASSUME OneRunner PROVE Spec => []InstalledOnSuccess
  OBVIOUS
<1>1. IInv => InstalledOnSuccess
  BY DEF IInv, Sole
<1> QED BY <1>1, Invariance, PTL

\* One run at a time: exit 0 means that what is installed is what runs, unless
\* an earlier run stopped halfway.
THEOREM ConvergedOnSuccessHolds == OneRunner => (Spec => []ConvergedOnSuccess)
<1> SUFFICES ASSUME OneRunner PROVE Spec => []ConvergedOnSuccess
  OBVIOUS
<1>1. IInv => ConvergedOnSuccess
  <2> SUFFICES ASSUME IInv, NEW r \in Runners,
                      At(r, "done"), run[r].code = ExitOK, ~halfway
               PROVE  Converged(run[r].unit, run[r].commit)
    BY DEF ConvergedOnSuccess
  <2>1. Installed(r) /\ Settled(r) /\ TypeOK
    BY DEF IInv, Sole, InstalledOnSuccess
  <2>2. loaded = unitFile /\ Runs(FALSE, FALSE)
    BY <2>1 DEF Settled
  <2>3. running \in [unit : Units, bin : Bytes] /\ BuildOf[binFile] # None
    BY <2>1 DEF Installed, TypeOK
  <2>4. running.unit = unitFile /\ running.bin = binFile
    BY <2>1, <2>2, <2>3 DEF Runs, Installed
  <2>5. running = [unit |-> unitFile, bin |-> binFile]
    BY <2>3, <2>4
  <2> QED BY <2>1, <2>2, <2>5 DEF Installed, Converged
<1> QED BY <1>1, Invariance, PTL

\* One run at a time: a run that finds the host converged changes nothing on it.
THEOREM NoOpHolds == OneRunner => (Spec => NoOpWhenConverged)
<1> SUFFICES ASSUME OneRunner PROVE Spec => NoOpWhenConverged
  OBVIOUS
<1>1. IInv /\ [Next]_vars => [\A r \in Runners : run[r].noop => UNCHANGED host]_vars
  BY NoOpStep
<1> QED BY <1>1, Invariance, PTL DEF Spec, NoOpWhenConverged
=============================================================================
