----------------------------- MODULE Deployment -----------------------------
(***************************************************************************)
(* From a values file to a serving daemon: "clagentic-directory update"    *)
(* loads and validates the file (internal/update/values.go, valuespath.go),*)
(* renders a systemd unit from it (unit.go), restarts the unit and probes  *)
(* /readyz (converge.go); systemd starts the daemon with the rendered      *)
(* flags, and the daemon checks them again, one after the other, as it     *)
(* starts (cmd/clagentic-directory/main.go).  Two checks of one command    *)
(* line, written apart, and a second unit when the file renames the first. *)
(* What an update changes on the host it changes step by step and may leave*)
(* half done, as in module Converge, which also follows the binary, its    *)
(* record and runs at the same time.                                       *)
(***************************************************************************)
EXTENDS Integers

CONSTANTS
  Bases,      \* values files an operator starts from
  Seconds,    \* whole seconds of the readyz.timeout of each form
  None,       \* no unit installed, nothing read
  MaxEdits,   \* bound: edits of the values file and changes of the binary
  MaxTrouble  \* bound: turns of the registry for the worse and daemon crashes

-----------------------------------------------------------------------------
(* The values file: its keys, and for each the forms that are told apart.  *)

Unset == ""

\* Keys that are rendered as daemon flags, and the other keys of the unit text.
ModeKeys == [file |-> {"registry_dir", "vocab_file"},
             git  |-> {"git_url", "git_ref", "git_subpath", "git_vocab",
                       "git_poll", "cache_dir", "keyfile"}]
WatchKeys == {"watch_url", "watch_interval", "watch_window"}
UsageKeys == {"usage_url", "usage_window"}
DaemonKeys == {"registry_source", "listen", "log_level", "base_dir", "mcp"}
                \cup ModeKeys.file \cup ModeKeys.git \cup WatchKeys \cup UsageKeys
UnitKeys == DaemonKeys \cup {"user", "install_path", "env_file"}
Keys == UnitKeys \cup
  {"schema", "name", "dir", "source_dir", "source_ref", "source_url", "package",
   "readyz_url", "token_file", "timeout", "supersedes"}

Required == {"schema", "dir", "user", "install_path", "source_dir", "registry_source"}
Paths == {"dir", "env_file", "install_path", "source_dir", "token_file",
          "registry_dir", "vocab_file", "cache_dir", "keyfile", "base_dir"}
Durations == {"git_poll", "watch_interval", "watch_window", "usage_window"}
Names == {"default", "renamed"}  \* unit.name left unset, or set

Contents == [k \in Paths |->
  CASE k = "env_file" -> {"plain"} [] k = "token_file" -> {"stale"} [] OTHER -> {}]

\* "control" holds a control character; "spaced" is an absolute path with a
\* blank or a %; "climbing" has a ".." left once cleaned; "malformed" is not
\* host:port, "anyport" is a host:port whose port no URL can name (":0");
\* "garbled" is not a duration, "negative" is one no ticker takes; "short" is
\* below a second; "elsewhere" is a sound URL that is not this daemon's.  A
\* "plain" env_file sets no token, a "stale" token_file holds another one.
Forms == [k \in Keys |-> {Unset} \cup
  CASE k = "registry_source"   -> {"file", "git", "bad"}
    [] k = "supersedes"        -> Names \cup {"bad"}
    [] k = "mcp"               -> {"good"}
    [] k \in Paths             -> {"good", "relative", "control", "spaced"}
                                   \cup Contents[k]
    [] k \in Durations         -> {"good", "garbled", "negative"}
    [] k = "timeout"           -> {"good", "garbled", "negative", "short"}
    [] k = "listen"            -> {"good", "control", "malformed", "anyport"}
    [] k = "git_vocab"         -> {"good", "control", "climbing"}
    [] k \in {"git_url", "git_ref", "git_subpath"} -> {"good", "control"}
    [] k = "readyz_url"        -> {"good", "bad", "elsewhere"}
    [] OTHER                   -> {"good", "bad"}]

Form == UNION {Forms[k] : k \in Keys}
ValuesFiles == {v \in [Keys -> Form] : \A k \in Keys : v[k] \in Forms[k]}
UnitTexts == {u \in [UnitKeys -> Form] : \A k \in UnitKeys : u[k] \in Forms[k]}

\* A file update may trust, one with another owner or mode, a symlink.
Sorts == {"own", "foreign", "link"}
Files == [sort : Sorts, values : ValuesFiles]

Set(v, ks) == {k \in ks : v[k] # Unset}

ASSUME BasesAssumption == Bases \subseteq ValuesFiles
ASSUME NoneAssumption == None \notin Files \cup ValuesFiles \cup UnitTexts
ASSUME SecondsAssumption == Seconds \in [{Unset, "good", "short"} -> Nat]
ASSUME BoundsAssumption == MaxEdits \in Nat /\ MaxTrouble \in Nat

VARIABLES
  file,      \* the values file: what it is on disk, and its values
  update,    \* the run of the update subcommand
  unit,      \* the installed unit files, by unit name
  loaded,    \* the unit texts systemd has in memory
  enabled,   \* the units that are enabled
  daemon,    \* the process of each unit
  registry,  \* what loading the registry yields: agents, none, or an error
  \* History, read by one property alone:
  halfway,   \* units that an update has changed and not restarted since
  edits, trouble

systemd == <<unit, loaded, enabled, halfway>>
vars == <<file, update, systemd, daemon, registry, edits, trouble>>

ExitOK == 0
ExitInvalid == 2
ExitPrivilege == 3
ExitApply == 4
ExitReadyz == 5

-----------------------------------------------------------------------------
(* What update accepts: Values.Validate.  It reports every problem at once; *)
(* a file is accepted when there is none.                                   *)

\* optAbs: a path that is set is absolute and free of control characters.
PathsSound(v) == \A k \in Paths : v[k] \notin {"relative", "control"}

\* Mutant: nobody looks at listen.
TextSound_NoListen(v) ==
  \A k \in {"git_url", "git_ref", "git_subpath", "git_vocab"} : v[k] # "control"

\* Text that is rendered or listened on holds no control character.
TextSound(v) ==
  \A k \in {"git_url", "git_ref", "git_subpath", "git_vocab", "listen"} :
    v[k] # "control"

\* Patterns, prefixes and fixed alternatives.
WordsSound(v) ==
  \A k \in {"schema", "name", "user", "source_ref", "source_url", "package",
            "registry_source", "log_level", "readyz_url", "supersedes"} :
    v[k] # "bad"

\* Mutant: a daemon duration that parses is good enough.
DurationsSound_AnySign(v) == \A k \in Durations : v[k] # "garbled"

\* time.ParseDuration, and positive.
DurationsSound(v) == \A k \in Durations : v[k] \notin {"garbled", "negative"}

\* systemd neither unquotes EnvironmentFile= nor leaves its % alone.
EnvFileSound(v) == v["env_file"] # "spaced"

\* The keys of one registry source are refused under the other.
ModeSound(v) ==
  \/ /\ v["registry_source"] = "file"
     /\ v["registry_dir"] # Unset
     /\ Set(v, ModeKeys.git) = {}
  \/ /\ v["registry_source"] = "git"
     /\ v["git_url"] # Unset
     /\ Set(v, ModeKeys.file) = {}

SelfBuildOn(v) == Set(v, {"mcp", "watch_url", "usage_url"}) # {}

\* Mutant: intervals and windows are let through without a mechanism.
SelfBuildSound_Loose(v) ==
  /\ v["watch_url"] # "bad" /\ v["usage_url"] # "bad"
  /\ SelfBuildOn(v) <=> v["base_dir"] # Unset

\* A mechanism's keys need its URL, and the base directory goes with a mechanism.
SelfBuildSound(v) ==
  /\ v["watch_url"] # "bad" /\ v["usage_url"] # "bad"
  /\ v["watch_url"] = Unset => Set(v, WatchKeys) = {}
  /\ v["usage_url"] = Unset => Set(v, UsageKeys) = {}
  /\ SelfBuildOn(v) <=> v["base_dir"] # Unset

\* Without a probe URL, daemon.listen must be one a URL can be made from.
ProbeSound(v) ==
  /\ v["readyz_url"] = Unset => v["listen"] # "malformed"
  /\ v["timeout"] \in {Unset, "good", "short"}

Valid(v) ==
  /\ Set(v, Required) = Required
  /\ PathsSound(v)
  /\ TextSound(v)
  /\ WordsSound(v)
  /\ DurationsSound(v)
  /\ EnvFileSound(v)
  /\ ModeSound(v)
  /\ SelfBuildSound(v)
  /\ ProbeSound(v)

\* A file that unit text is made from; a key left unset leaves its flag out.
Rendered(v) == [k \in UnitKeys |-> v[k]]

\* quoteArg panics on a control character, rawPath on a blank or a % as well.
RenderPanics(v) ==
  (\E k \in UnitKeys : v[k] = "control") \/ v["env_file"] = "spaced"

OwnUnit(v) == IF v["name"] = Unset THEN "default" ELSE "renamed"

\* Mutant: once a second until the timeout has gone by.
Attempts_Whole(v) == Seconds[v["timeout"]]

\* waitReady asks once, then once a second until the timeout has gone by.
Attempts(v) == Seconds[v["timeout"]] + 1

-----------------------------------------------------------------------------
(* The daemon: main reads its flags, opens the store, starts the self-build *)
(* mechanisms and listens.  Each stage may refuse and exit; systemd starts  *)
(* the unit again (Restart=on-failure).                                     *)

Registries == {"agents", "empty", "error"}
Stages == {"flags", "store", "mechanisms", "bind"}
Causes == {"none", "flags", "store", "vocab", "mechanisms", "panic", "listen", "port", "crash"}

\* A process: its flags, those it has read, why it ended, and what it serves:
\* "stale" is a registry whose last three syncs failed.
Process(pc, args, used, why, serves) ==
  [pc |-> pc, args |-> args, used |-> used, why |-> why, serves |-> serves]
Down == Process("down", None, {}, "none", "empty")
Starting(a) == Process("flags", a, {}, "none", "empty")

Become(n, d) == daemon' = [daemon EXCEPT ![n] = d]
Exit(n, cause) ==
  Become(n, Process("exited", daemon[n].args, daemon[n].used, cause, daemon[n].serves))
Reach(n, stage, keys, serves) ==
  Become(n, Process(stage, daemon[n].args, daemon[n].used \cup keys, "none", serves))

\* The flag package parses durations; checkVocabFlags and the switch on
\* --registry-source follow.  --log-level takes any word.
FlagsRefused(a) ==
  \/ \E k \in Durations : a[k] = "garbled"
  \/ a["registry_source"] = "git" /\ a["vocab_file"] # Unset
  \/ a["registry_source"] = "file" /\ a["git_vocab"] # Unset
  \/ a["registry_source"] \notin {"file", "git"}
  \/ a["registry_source"] = "file" /\ a["registry_dir"] = Unset
  \/ a["registry_source"] = "git" /\ a["git_url"] = Unset

ParseFlags(n) ==
  /\ daemon[n].pc = "flags"
  /\ IF FlagsRefused(daemon[n].args)
     THEN Exit(n, "flags")
     ELSE Reach(n, "store", {"registry_source", "log_level"}, "empty")
  /\ UNCHANGED <<file, update, systemd, registry, edits, trouble>>

\* NewFileStore, or NewGitStore: a first load that fails is fatal, the path of
\* a vocabulary must stay inside the clone, and the poll loop's ticker takes no
\* negative interval.  A registry without agents is served like any other.
OpenStore(n) ==
  LET a == daemon[n].args
      git == a["registry_source"] = "git"
  IN  /\ daemon[n].pc = "store"
      /\ IF registry = "error" THEN Exit(n, "store")
         ELSE IF git /\ a["git_vocab"] = "climbing" THEN Exit(n, "vocab")
         ELSE IF git /\ a["git_poll"] = "negative" THEN Exit(n, "panic")
         ELSE Reach(n, "mechanisms", ModeKeys[a["registry_source"]], registry)
      /\ UNCHANGED <<file, update, systemd, registry, edits, trouble>>

MechanismKeys(a) ==
  (IF a["watch_url"] # Unset THEN WatchKeys \cup {"base_dir"} ELSE {})
    \cup (IF a["usage_url"] # Unset THEN UsageKeys \cup {"base_dir"} ELSE {})

\* A mechanism that is on and has its URL starts a ticker of its own.  MCP
\* discovery is built and dropped: it runs from the inspect subcommand.
StartMechanisms(n) ==
  LET a == daemon[n].args
  IN  /\ daemon[n].pc = "mechanisms"
      /\ IF \/ SelfBuildOn(a) /\ a["base_dir"] = Unset
            \/ a["watch_url"] = "bad"
            \/ a["usage_url"] = "bad"
         THEN Exit(n, "mechanisms")
         ELSE IF \/ a["watch_url"] # Unset /\ a["watch_interval"] = "negative"
                 \/ a["usage_url"] # Unset /\ a["usage_window"] = "negative"
         THEN Exit(n, "panic")
         ELSE Reach(n, "bind", MechanismKeys(a), daemon[n].serves)
      /\ UNCHANGED <<file, update, systemd, registry, edits, trouble>>

\* The port another unit's daemon of this program holds.
PortHeld(n) ==
  \E m \in Names \ {n} : /\ daemon[m].pc = "serving"
                         /\ daemon[m].args["listen"] = daemon[n].args["listen"]
                         /\ daemon[n].args["listen"] # "anyport"

\* ListenAndServe: the address must be one, and the port free.
Bind(n) ==
  /\ daemon[n].pc = "bind"
  /\ IF daemon[n].args["listen"] = "malformed" THEN Exit(n, "listen")
     ELSE IF PortHeld(n) THEN Exit(n, "port")
     ELSE Reach(n, "serving", {"listen"}, daemon[n].serves)
  /\ UNCHANGED <<file, update, systemd, registry, edits, trouble>>

\* A serving daemon loads its registry again.  What cannot be loaded leaves what
\* is served in place, but the git store's third failed sync in a row shows.
Refresh(n) ==
  LET d == daemon[n]
  IN  /\ d.pc = "serving"
      /\ registry = "error" => d.args["registry_source"] = "git"
      /\ Become(n, [d EXCEPT !.serves = IF registry = "error" THEN "stale" ELSE registry])
      /\ UNCHANGED <<file, update, systemd, registry, edits, trouble>>

Crash(n) ==
  /\ trouble < MaxTrouble
  /\ daemon[n].pc = "serving"
  /\ Exit(n, "crash")
  /\ trouble' = trouble + 1
  /\ UNCHANGED <<file, update, systemd, registry, edits>>

\* Mutant: Restart=on-abnormal: an exit code of the daemon's own is final.
Respawn_Abnormal(n) ==
  /\ daemon[n].pc = "exited" /\ daemon[n].why \in {"panic", "crash"}
  /\ Become(n, Starting(loaded[n]))
  /\ UNCHANGED <<file, update, systemd, registry, edits, trouble>>

\* systemd starts a unit whose process failed, with the text it has loaded.
Respawn(n) ==
  /\ daemon[n].pc = "exited"
  /\ Become(n, Starting(loaded[n]))
  /\ UNCHANGED <<file, update, systemd, registry, edits, trouble>>

-----------------------------------------------------------------------------
(* The world: the operator edits the file, something replaces it, the       *)
(* registry loses its agents or cannot be loaded, and is mended.            *)

EditValues ==
  /\ edits < MaxEdits
  /\ \/ \E k \in Keys : \E f \in Forms[k] \ {file.values[k]} :
          file' = [sort |-> file.sort, values |-> [file.values EXCEPT ![k] = f]]
     \/ \E v \in Bases \ {file.values} : file' = [sort |-> file.sort, values |-> v]
     \/ \E s \in Sorts \ {file.sort} : file' = [sort |-> s, values |-> file.values]
  /\ edits' = edits + 1
  /\ UNCHANGED <<update, systemd, daemon, registry, trouble>>

Worsen ==
  /\ trouble < MaxTrouble
  /\ registry' \in {"empty", "error"} \ {registry}
  /\ trouble' = trouble + 1
  /\ UNCHANGED <<file, update, systemd, daemon, edits>>

Mend ==
  /\ registry # "agents"
  /\ registry' = "agents"
  /\ UNCHANGED <<file, update, systemd, daemon, edits, trouble>>

-----------------------------------------------------------------------------
(* One run of update. *)

Idle == [pc |-> "idle", handle |-> None, given |-> None, unitChanged |-> FALSE,
         binaryChanged |-> FALSE, left |-> 0, missed |-> 0, code |-> ExitOK]
Ended(u, code) == [u EXCEPT !.pc = "done", !.left = 0, !.code = code]
Goto(pc) == update' = [update EXCEPT !.pc = pc]
At(pc) == update.pc = pc

\* readValuesFile looks at the path first and refuses a symlink.
StatValues ==
  /\ At("idle") \/ At("done")
  /\ update' = IF file.sort = "link" THEN Ended(Idle, ExitInvalid)
               ELSE [Idle EXCEPT !.pc = "open"]
  /\ UNCHANGED <<file, systemd, daemon, registry, edits, trouble>>

\* O_NOFOLLOW: a symlink put there since is refused as well.
OpenValues ==
  /\ At("open")
  /\ update' = IF file.sort = "link" THEN Ended(update, ExitInvalid)
               ELSE [update EXCEPT !.pc = "check", !.handle = file]
  /\ UNCHANGED <<file, systemd, daemon, registry, edits, trouble>>

\* Mutant: the descriptor is checked and the path is read again.
ReadValues_Path ==
  /\ At("check")
  /\ update' = IF update.handle.sort # "own" THEN Ended(update, ExitInvalid)
               ELSE [update EXCEPT !.pc = "validate", !.given = file.values]
  /\ UNCHANGED <<file, systemd, daemon, registry, edits, trouble>>

\* The file update has open: type, owner and mode, then the bytes.
ReadValues ==
  /\ At("check")
  /\ update' = IF update.handle.sort # "own" THEN Ended(update, ExitInvalid)
               ELSE [update EXCEPT !.pc = "validate", !.given = update.handle.values]
  /\ UNCHANGED <<file, systemd, daemon, registry, edits, trouble>>

ValidateValues ==
  /\ At("validate")
  /\ update' = IF Valid(update.given) THEN [update EXCEPT !.pc = "export"]
               ELSE Ended(update, ExitInvalid)
  /\ UNCHANGED <<file, systemd, daemon, registry, edits, trouble>>

\* The token file is read, the unit rendered, the source exported and built.
\* Nothing on the host has changed yet when one of these fails: a missing token
\* file and a source_dir that is no checkout are invalid values, a caller who is
\* not root lacks the privilege, and the rest cannot be applied.
Export ==
  /\ At("export")
  /\ \/ \E c \in {ExitInvalid, ExitPrivilege, ExitApply} : update' = Ended(update, c)
     \/ RenderPanics(update.given) /\ Goto("panicked")
     \/ ~RenderPanics(update.given) /\ Goto("write")
  /\ UNCHANGED <<file, systemd, daemon, registry, edits, trouble>>

\* The unit that the values are for, and the others they list.
Own == OwnUnit(update.given)
Others == ({update.given["supersedes"]} \cap Names) \ {Own}

Active(n) == daemon[n].pc \notin {"down", "exited"}

\* The unit file is replaced when it differs.
WriteUnit ==
  /\ At("write")
  /\ IF unit[Own] = Rendered(update.given)
     THEN Goto("swap") /\ UNCHANGED unit
     ELSE /\ unit' = [unit EXCEPT ![Own] = Rendered(update.given)]
          /\ update' = [update EXCEPT !.pc = "reload", !.unitChanged = TRUE]
  /\ UNCHANGED <<file, loaded, enabled, halfway, daemon, registry, edits, trouble>>

\* systemctl daemon-reload.
DaemonReload ==
  /\ At("reload")
  /\ loaded' = unit
  /\ Goto("swap")
  /\ UNCHANGED <<file, unit, enabled, halfway, daemon, registry, edits, trouble>>

\* The binary is replaced when the build gave another one.
Swap ==
  /\ At("swap")
  /\ \/ Goto("stop") /\ UNCHANGED edits
     \/ /\ edits < MaxEdits
        /\ edits' = edits + 1
        /\ update' = [update EXCEPT !.pc = "stop", !.binaryChanged = TRUE]
  /\ UNCHANGED <<file, systemd, daemon, registry, trouble>>

\* A superseded unit is stopped if it is active: one that waits for systemd to
\* start it again is not.
StopOthers ==
  /\ At("stop")
  /\ daemon' = [n \in Names |-> IF n \in Others /\ Active(n) THEN Down ELSE daemon[n]]
  /\ Goto("disable")
  /\ UNCHANGED <<file, systemd, registry, edits, trouble>>

\* It is disabled if it is enabled, on which systemctl reloads the manager; what
\* systemd is about to start it starts all the same.
DisableOthers ==
  /\ At("disable")
  /\ enabled' = enabled \ Others
  /\ loaded' = IF Others \cap enabled # {} THEN unit ELSE loaded
  /\ Goto("enable")
  /\ UNCHANGED <<file, unit, halfway, daemon, registry, edits, trouble>>

\* The own unit is enabled if it is not; this reloads the manager as well.
Enable ==
  /\ At("enable")
  /\ enabled' = enabled \cup {Own}
  /\ loaded' = IF Own \in enabled THEN loaded ELSE unit
  /\ Goto("restart")
  /\ UNCHANGED <<file, unit, halfway, daemon, registry, edits, trouble>>

\* Mutant: the service restarts for a new binary alone.
NeedsRestart_Binary == update.binaryChanged \/ ~Active(Own)

NeedsRestart == update.unitChanged \/ update.binaryChanged \/ ~Active(Own)

\* The service is restarted, with the text systemd has loaded, when its unit or
\* binary changed or it is not active.
Restart ==
  /\ At("restart")
  /\ IF NeedsRestart
     THEN /\ Become(Own, Starting(loaded[Own]))
          /\ halfway' = IF loaded[Own] = unit[Own] THEN halfway \ {Own} ELSE halfway
     ELSE UNCHANGED <<daemon, halfway>>
  /\ Goto("record")
  /\ UNCHANGED <<file, unit, loaded, enabled, registry, edits, trouble>>

\* The install record is written (module Converge) and the waiting begins.
WriteRecord ==
  /\ At("record")
  /\ update' = [update EXCEPT !.pc = "probe", !.left = Attempts(update.given)]
  /\ UNCHANGED <<file, systemd, daemon, registry, edits, trouble>>

\* The run has changed the unit and has not restarted it.
Midway == update.unitChanged /\ update.pc \notin {"record", "probe", "done"}

\* Any of these steps fails, and what the steps before it changed stays changed;
\* a restart that fails may have stopped the service.  A run that is killed
\* leaves the host the same way.
Halts ==
  /\ update.pc \in {"write", "reload", "swap", "stop", "disable", "enable", "restart", "record"}
  /\ update' = Ended(update, ExitApply)
  /\ halfway' = IF Midway THEN halfway \cup {Own} ELSE halfway
  /\ \/ UNCHANGED daemon
     \/ At("restart") /\ NeedsRestart /\ Become(Own, Down)
  /\ UNCHANGED <<file, unit, loaded, enabled, registry, edits, trouble>>

\* The daemon asks for no token, or is sent the one it asks for.
Admitted(v, a) ==
  a["env_file"] \in {Unset, "plain"} \/ v["token_file"] \notin {Unset, "stale"}

\* The daemon of a unit answers 200 on the URL that v gives: it serves there,
\* lets the prober in, has agents and is not stale.
Answers(v, n) ==
  /\ daemon[n].pc = "serving"
  /\ daemon[n].args["listen"] = v["listen"]
  /\ v["readyz_url"] = Unset => v["listen"] # "anyport"
  /\ Admitted(v, daemon[n].args)
  /\ daemon[n].serves = "agents"

\* A URL that is not this daemon's may be answered by anybody.
Replies(v) ==
  IF v["readyz_url"] = "elsewhere" THEN BOOLEAN ELSE {\E n \in Names : Answers(v, n)}

\* The daemon of v's unit serves with the flags v gives it.
Serves(v) ==
  daemon[OwnUnit(v)].pc = "serving" /\ daemon[OwnUnit(v)].args = Rendered(v)

\* It has agents, and is not stale.
ReadyFor(v) == Serves(v) /\ daemon[OwnUnit(v)].serves = "agents"

\* An attempt that is not answered with 200; "missed" counts those of a daemon
\* that was not ready or did not answer within the client's five seconds.
Missed(timely) ==
  update' = [update EXCEPT !.left = update.left - 1,
               !.missed = IF timely /\ ReadyFor(update.given) THEN update.missed
                          ELSE update.missed + 1]

\* The deferred removal of the staged file may fail a run that has succeeded.
Succeeded == \E c \in {ExitOK, ExitApply} : update' = Ended(update, c)

\* Mutant: the loop has no end.
Probe_Endless ==
  /\ At("probe")
  /\ \E timely \in BOOLEAN : \E reply \in Replies(update.given) :
       IF timely /\ reply THEN Succeeded ELSE Missed(timely)
  /\ UNCHANGED <<file, systemd, daemon, registry, edits, trouble>>

Probe ==
  /\ At("probe")
  /\ \E timely \in BOOLEAN : \E reply \in Replies(update.given) :
       IF update.left = 0 THEN update' = Ended(update, ExitReadyz)
       ELSE IF timely /\ reply THEN Succeeded
       ELSE Missed(timely)
  /\ UNCHANGED <<file, systemd, daemon, registry, edits, trouble>>

-----------------------------------------------------------------------------
Init ==
  /\ file \in [sort : Sorts, values : Bases]
  /\ update = Idle
  /\ unit = [n \in Names |-> None]
  /\ loaded = [n \in Names |-> None]
  /\ enabled = {}
  /\ daemon = [n \in Names |-> Down]
  /\ registry \in Registries
  /\ halfway = {}
  /\ edits = 0
  /\ trouble = 0

Converge ==
  \/ Export \/ WriteUnit \/ DaemonReload \/ Swap \/ StopOthers \/ DisableOthers
  \/ Enable \/ Restart \/ WriteRecord \/ Halts \/ Probe

Update == StatValues \/ OpenValues \/ ReadValues \/ ValidateValues \/ Converge

Daemon(n) ==
  ParseFlags(n) \/ OpenStore(n) \/ StartMechanisms(n) \/ Bind(n) \/ Respawn(n)

Next ==
  \/ EditValues \/ Worsen \/ Mend
  \/ Update
  \/ \E n \in Names : Daemon(n) \/ Refresh(n) \/ Crash(n)

\* The daemon's own steps, and systemd's restart five seconds after a failure:
\* five starts in ten seconds, systemd's limit, are never reached.
Fairness == \A n \in Names : WF_vars(Daemon(n))

Spec == Init /\ [][Next]_vars /\ Fairness

-----------------------------------------------------------------------------
(* Correctness. *)

Labels == {"idle", "open", "check", "validate", "export", "panicked", "write", "reload",
           "swap", "stop", "disable", "enable", "restart", "record", "probe", "done"}

Runs == [pc : Labels, handle : Files \cup {None}, given : ValuesFiles \cup {None},
         unitChanged : BOOLEAN, binaryChanged : BOOLEAN, left : Nat, missed : Nat,
         code : {ExitOK, ExitInvalid, ExitPrivilege, ExitApply, ExitReadyz}]
Processes == [pc : Stages \cup {"down", "exited", "serving"},
              args : UnitTexts \cup {None}, used : SUBSET DaemonKeys, why : Causes,
              serves : {"agents", "empty", "stale"}]

TypeOK ==
  /\ file \in Files
  /\ update \in Runs
  /\ unit \in [Names -> UnitTexts \cup {None}]
  /\ loaded \in [Names -> UnitTexts \cup {None}]
  /\ enabled \subseteq Names
  /\ daemon \in [Names -> Processes]
  /\ registry \in Registries
  /\ halfway \subseteq Names
  /\ edits \in 0..MaxEdits /\ trouble \in 0..MaxTrouble

\* What update runs as root comes from a file it found to be its own, whatever
\* took the file's place between the look at the path and the read
\* (readValuesFile checks the descriptor it reads).
TrustedRead ==
  update.given # None =>
    update.handle.sort = "own" /\ update.given = update.handle.values

\* Rendering a file that was accepted never panics: no control character and,
\* in EnvironmentFile=, no blank or % reaches quoteArg or rawPath.
RenderTotal == update.pc # "panicked"

\* A daemon that update installed is turned away by its own command line in two
\* cases only, which Validate lets through: a listen that is not host:port beside
\* a readyz.url, and a registry_git_vocab that climbs out of the clone.  Every
\* other start fails for the registry, the port or a crash, whatever order the
\* daemon's checks come in.
AcceptedStarts ==
  \A n \in Names :
    /\ daemon[n].why \notin {"flags", "mechanisms", "panic"}
    /\ daemon[n].why = "listen" => daemon[n].args["listen"] = "malformed"
    /\ daemon[n].why = "vocab" => daemon[n].args["git_vocab"] = "climbing"

\* A key of the values file that nothing reads: MCP discovery's switch, and
\* with it alone the base directory.
Idled(a) ==
  {"mcp"} \cup (IF Set(a, {"watch_url", "usage_url"}) = {} THEN {"base_dir"} ELSE {})

\* Every daemon key that is set has been read by the time the daemon serves:
\* none is of the wrong mode or of a mechanism that is off, which the daemon
\* would pass over in silence.  MCP discovery's switch is the exception.
NothingIgnored ==
  \A n \in Names : daemon[n].pc = "serving" =>
    Set(daemon[n].args, DaemonKeys) \subseteq
      daemon[n].used \cup Idled(daemon[n].args)

\* A probe that cannot succeed: it goes somewhere else, to no port, or without
\* the token the daemon asks for.
Blind(v) ==
  \/ v["readyz_url"] = "elsewhere"
  \/ v["readyz_url"] = Unset /\ v["listen"] = "anyport"
  \/ ~Admitted(v, v)

\* Update gives up on readiness only after an attempt at once and one more for
\* each second of the timeout, each of which found the daemon not serving the
\* flags it was given, without agents, with a stale registry, or too slow to
\* answer: the derived URL is the one listened on, the token read is the one
\* sent, and the shortest timeout still asks once.
GivesUpFairly ==
  (update.pc = "done" /\ update.code = ExitReadyz) =>
    update.missed > Seconds[update.given["timeout"]] \/ Blind(update.given)

\* Another unit of this program serves where v would: one that v does not list
\* under supersedes, or one that was waiting for systemd to start it again when
\* update came to stop it.
Rival(v) ==
  \E n \in Names \ {OwnUnit(v)} :
    daemon[n].pc = "serving" /\ daemon[n].args["listen"] = v["listen"]

Succeeds == update.pc = "probe" /\ update'.pc = "done" /\ update'.code = ExitOK

\* Update succeeds only while the daemon of its unit is serving with the flags
\* of the values it was given: over any number of runs an earlier process, or
\* the service of an earlier text, answers for it only if an update had changed
\* that unit and stopped before its restart, and nothing has restarted it since.
\* A rival unit or a probe URL of someone else's deceives it too.
SucceedsTruthfully ==
  [][Succeeds => \/ Serves(update.given)
                 \/ OwnUnit(update.given) \in halfway
                 \/ Rival(update.given)
                 \/ update.given["readyz_url"] = "elsewhere"]_vars

-----------------------------------------------------------------------------
(* The inductive invariant behind the safety properties (DeploymentProofs).*)

\* What of Valid the daemon checks again.
Launchable(a) == DurationsSound(a) /\ ModeSound(a) /\ SelfBuildSound(a)

Applying == {"write", "reload", "swap", "stop", "disable", "enable", "restart", "record", "probe"}

Opened ==
  /\ update.pc = "check" => update.handle # None
  /\ update.pc \in {"open", "check"} => update.given = None
Accepted ==
  /\ update.pc \in {"validate", "export"} \cup Applying => update.given # None
  /\ update.pc \in {"export"} \cup Applying => Valid(update.given)

\* Every text that was installed, loaded or started with may be launched.
Launching ==
  \A n \in Names :
    /\ unit[n] # None => Launchable(unit[n])
    /\ loaded[n] # None => unit[n] # None /\ Launchable(loaded[n])
    /\ daemon[n].pc # "down" =>
         loaded[n] # None /\ daemon[n].args # None /\ Launchable(daemon[n].args)
    /\ n \in enabled => loaded[n] # None

\* What a daemon has read at each stage.
Consulted(d) ==
  /\ d.pc \in {"store", "mechanisms", "bind", "serving"} =>
       {"registry_source", "log_level"} \subseteq d.used
  /\ d.pc \in {"mechanisms", "bind", "serving"} =>
       ModeKeys[d.args["registry_source"]] \subseteq d.used
  /\ d.pc \in {"bind", "serving"} => MechanismKeys(d.args) \subseteq d.used
  /\ d.pc = "serving" => "listen" \in d.used

\* A unit that no run has left halfway, and none is changing, runs its installed text.
Current ==
  \A n \in Names :
    n \in halfway \/ (Midway /\ n = Own) \/
      /\ loaded[n] = unit[n]
      /\ daemon[n].pc # "down" => daemon[n].args = unit[n]

\* What a run has done by each of its steps.
Done ==
  /\ update.pc \in Applying \ {"write"} => unit[Own] = Rendered(update.given)
  /\ update.pc \in {"swap", "stop", "disable", "enable", "restart"} /\ update.unitChanged =>
       loaded[Own] = unit[Own]
  /\ update.pc \in {"idle", "open", "check", "validate", "export", "write"} => ~update.unitChanged
  /\ update.pc \in {"restart", "record", "probe"} => Own \in enabled
  /\ update.pc \notin {"probe", "done"} => update.missed = 0

\* Of a probe that is not blind, every attempt so far was missed.
Probing ==
  update.pc = "probe" =>
    Blind(update.given) \/ update.missed + update.left = Attempts(update.given)

IInv ==
  /\ TypeOK
  /\ TrustedRead
  /\ RenderTotal
  /\ AcceptedStarts
  /\ GivesUpFairly
  /\ Opened
  /\ Accepted
  /\ Launching
  /\ Current
  /\ \A n \in Names : Consulted(daemon[n])
  /\ Done
  /\ Probing

-----------------------------------------------------------------------------
(* Liveness. *)

\* What of a command line Validate lets through and the daemon refuses.
Climbs(a) == a["listen"] = "malformed" \/ a["git_vocab"] = "climbing"

\* The unit is started and nothing outside its command line keeps it down: the
\* registry loads and no other unit of this program is up.
Startable(n) ==
  /\ registry # "error"
  /\ daemon[n].pc # "down"
  /\ ~Climbs(loaded[n])
  /\ \A m \in Names \ {n} : daemon[m].pc = "down"

\* How many steps of its own a daemon is from serving.
Distance == [exited |-> 5, flags |-> 4, store |-> 3, mechanisms |-> 2, bind |-> 1, serving |-> 0]

\* Every such step of a unit that can start brings it nearer: no check of the
\* daemon, in whatever order they come, sends it back while its registry can be
\* read.  (The safety half of ComesUp.)
ComesNearer ==
  [][\A n \in Names :
       Startable(n) /\ ~Climbs(daemon[n].args) /\ Daemon(n) =>
         Distance[daemon'[n].pc] = Distance[daemon[n].pc] - 1]_vars

\* A unit that systemd has started ends up serving once its registry can be
\* loaded for good, however often it failed to start before: systemd keeps
\* starting it.  A unit whose env_file is missing, which systemd does not start,
\* a daemon that crashes again and again, and a port held by another program
\* are outside the model.
ComesUp ==
  \A n \in Names : <>[]Startable(n) => <>[](daemon[n].pc = "serving")
=============================================================================
