-------------------------- MODULE DeploymentProofs ---------------------------
(***************************************************************************)
(* Proofs about Deployment, for any set of starting values files, readiness*)
(* timeouts, edits and troubles: what update accepts, the daemon it        *)
(* installs accepts too, and what update says of readiness is so.          *)
(***************************************************************************)
EXTENDS Deployment, TLAPS

\* The stages of a process, and the labels of a run.
Conditions == Stages \cup {"down", "exited", "serving"}

-----------------------------------------------------------------------------
(* The unit text made from a values file. *)

\* The unit text says what the values file says of every key it has.
LEMMA RenderedKeeps ==
  ASSUME NEW v \in ValuesFiles
  PROVE  /\ Rendered(v) \in UnitTexts
         /\ \A k \in UnitKeys : Rendered(v)[k] = v[k]
<1>1. UnitKeys \subseteq Keys
  BY DEF Keys
<1>2. \A k \in UnitKeys : v[k] \in Forms[k] /\ v[k] \in Form
  BY <1>1 DEF ValuesFiles, Form
<1> QED
  BY <1>1, <1>2 DEF Rendered, UnitTexts

\* What Validate asks of the daemon's keys, it asks of the daemon's flags.
LEMMA RenderedLaunches ==
  ASSUME NEW v \in ValuesFiles, Valid(v)
  PROVE  Launchable(Rendered(v))
<1> DEFINE u == Rendered(v)
<1>1. \A k \in UnitKeys : u[k] = v[k]
  BY RenderedKeeps
<1>2. /\ Durations \subseteq UnitKeys
      /\ ModeKeys["file"] \subseteq UnitKeys /\ ModeKeys["git"] \subseteq UnitKeys
      /\ WatchKeys \subseteq UnitKeys /\ UsageKeys \subseteq UnitKeys
      /\ {"registry_source", "registry_dir", "git_url", "base_dir", "mcp", "watch_url",
          "usage_url"} \subseteq UnitKeys
  BY DEF Durations, UnitKeys, DaemonKeys, ModeKeys, WatchKeys, UsageKeys
<1>3. \A ks : ks \subseteq UnitKeys => Set(u, ks) = Set(v, ks)
  BY <1>1 DEF Set
<1> HIDE DEF u
<1>4. DurationsSound(u)
  BY <1>1, <1>2 DEF Valid, DurationsSound
<1>5. ModeSound(u)
  BY <1>1, <1>2, <1>3 DEF Valid, ModeSound
<1>6. SelfBuildSound(u)
  <2>1. SelfBuildOn(u) <=> SelfBuildOn(v)
    BY <1>2, <1>3 DEF SelfBuildOn
  <2> QED
    BY <2>1, <1>1, <1>2, <1>3 DEF Valid, SelfBuildSound
<1> QED
  BY <1>4, <1>5, <1>6 DEF Launchable, u

\* Nothing that Validate accepts makes quoteArg or rawPath panic.
LEMMA ValidRenders ==
  ASSUME NEW v \in ValuesFiles, Valid(v)
  PROVE  ~RenderPanics(v)
<1>1. \A k \in Keys : v[k] \in Forms[k]
  BY DEF ValuesFiles
<1>2. \A k \in UnitKeys : k \notin Paths /\ k \notin {"git_url", "git_ref", "git_subpath",
                                                     "git_vocab", "listen"} => v[k] # "control"
  <2> SUFFICES ASSUME NEW k \in UnitKeys, k \notin Paths,
                      k \notin {"git_url", "git_ref", "git_subpath", "git_vocab", "listen"}
               PROVE  "control" \notin Forms[k]
    BY <1>1 DEF Keys
  <2> QED
    BY DEF Forms, Contents, Keys, UnitKeys, Unset, Names, Durations, DaemonKeys
<1> QED
  BY <1>2 DEF Valid, PathsSound, TextSound, EnvFileSound, RenderPanics

\* A launchable unit text is refused neither by the flags nor by the mechanisms.
LEMMA LaunchableStarts ==
  ASSUME NEW a, Launchable(a)
  PROVE  /\ ~FlagsRefused(a)
         /\ a["registry_source"] \in {"file", "git"}
         /\ a["git_poll"] # "negative"
         /\ a["watch_interval"] # "negative"
         /\ a["usage_window"] # "negative"
         /\ ~(SelfBuildOn(a) /\ a["base_dir"] = Unset)
         /\ a["watch_url"] # "bad" /\ a["usage_url"] # "bad"
<1>1. a["registry_source"] = "git" => a["vocab_file"] = Unset
  BY DEF Launchable, ModeSound, Set, ModeKeys, Unset
<1>2. a["registry_source"] = "file" => a["git_vocab"] = Unset
  BY DEF Launchable, ModeSound, Set, ModeKeys, Unset
<1>3. \A k \in Durations : a[k] \notin {"garbled", "negative"}
  BY DEF Launchable, DurationsSound
<1> QED
  BY <1>1, <1>2, <1>3 DEF Launchable, ModeSound, SelfBuildSound, FlagsRefused, Durations

\* Once it has read what it reads, such a daemon has passed over no key.
LEMMA LaunchableReads ==
  ASSUME NEW a, Launchable(a)
  PROVE  Set(a, DaemonKeys) \subseteq
           {"registry_source", "log_level", "listen"} \cup ModeKeys[a["registry_source"]]
             \cup MechanismKeys(a) \cup Idled(a)
<1> SUFFICES ASSUME NEW k \in DaemonKeys, a[k] # Unset
             PROVE  k \in {"registry_source", "log_level", "listen"}
                            \cup ModeKeys[a["registry_source"]]
                            \cup MechanismKeys(a) \cup Idled(a)
  BY DEF Set
<1>1. CASE k \in ModeKeys["file"] \cup ModeKeys["git"]
  <2>1. a["registry_source"] = "file" => k \notin ModeKeys["git"]
    BY DEF Launchable, ModeSound, Set
  <2>2. a["registry_source"] = "git" => k \notin ModeKeys["file"]
    BY DEF Launchable, ModeSound, Set
  <2> QED
    BY <1>1, <2>1, <2>2, LaunchableStarts
<1>2. CASE k \in WatchKeys
  <2>1. a["watch_url"] # Unset
    BY <1>2 DEF Launchable, SelfBuildSound, Set
  <2> QED
    BY <1>2, <2>1 DEF MechanismKeys
<1>3. CASE k \in UsageKeys
  <2>1. a["usage_url"] # Unset
    BY <1>3 DEF Launchable, SelfBuildSound, Set
  <2> QED
    BY <1>3, <2>1 DEF MechanismKeys
<1>4. CASE k = "base_dir"
  <2>1. CASE a["watch_url"] = Unset /\ a["usage_url"] = Unset
    BY <1>4, <2>1 DEF Idled, Set
  <2>2. CASE a["watch_url"] # Unset \/ a["usage_url"] # Unset
    BY <1>4, <2>2 DEF MechanismKeys
  <2> QED
    BY <2>1, <2>2
<1>5. CASE k \in {"registry_source", "log_level", "listen", "mcp"}
  BY <1>5 DEF Idled
<1> QED
  BY <1>1, <1>2, <1>3, <1>4, <1>5 DEF DaemonKeys

-----------------------------------------------------------------------------
(* A step of one unit's process. *)

\* It keeps IInv when the process is what IInv says of one.
LEMMA ProcessStep ==
  ASSUME IInv, NEW n \in Names, NEW d \in Processes, Become(n, d),
         UNCHANGED <<file, update, systemd, registry, edits>>,
         trouble' \in 0..MaxTrouble,
         loaded[n] # None, d.args # None, Launchable(d.args),
         \/ d.args = daemon[n].args /\ daemon[n].pc # "down"
         \/ d.args = loaded[n],
         d.why \notin {"flags", "mechanisms", "panic"},
         d.why = "listen" => d.args["listen"] = "malformed",
         d.why = "vocab" => d.args["git_vocab"] = "climbing",
         Consulted(d)
  PROVE  IInv'
<1>1. \A m \in Names : daemon'[m] = IF m = n THEN d ELSE daemon[m]
  BY DEF IInv, TypeOK, Become
<1>2. UNCHANGED <<unit, loaded, enabled, halfway>>
  BY DEF systemd
<1>3. TypeOK'
  BY <1>2 DEF IInv, TypeOK, Become
<1>4. TrustedRead' /\ RenderTotal' /\ Opened' /\ Accepted' /\ GivesUpFairly' /\ Probing'
  BY DEF IInv, TrustedRead, RenderTotal, Opened, Accepted, GivesUpFairly, Probing
<1>5. Done'
  BY <1>2 DEF IInv, Done, Own
<1>6. AcceptedStarts' /\ Launching'
  BY <1>1, <1>2 DEF IInv, AcceptedStarts, Launching
<1>7. Current'
  BY <1>1, <1>2 DEF IInv, Current, Midway, Own
<1>8. \A m \in Names : Consulted(daemon'[m])
  BY <1>1 DEF IInv
<1> QED
  BY <1>3, <1>4, <1>5, <1>6, <1>7, <1>8 DEF IInv

\* A process that is not down has a text that may be launched.
LEMMA ProcessLaunchable ==
  ASSUME IInv, NEW n \in Names, daemon[n].pc # "down"
  PROVE  /\ loaded[n] # None /\ loaded[n] \in UnitTexts /\ Launchable(loaded[n])
         /\ daemon[n].args # None /\ Launchable(daemon[n].args)
         /\ daemon[n] \in Processes /\ Consulted(daemon[n])
BY DEF IInv, TypeOK, Launching

\* An exit keeps IInv when its cause is not the command line, or one of the two
\* mistakes in it that Validate lets through.
LEMMA ExitStep ==
  ASSUME IInv, NEW n \in Names, daemon[n].pc # "down",
         NEW c \in {"store", "vocab", "listen", "port", "crash"}, Exit(n, c),
         c = "listen" => daemon[n].args["listen"] = "malformed",
         c = "vocab" => daemon[n].args["git_vocab"] = "climbing",
         UNCHANGED <<file, update, systemd, registry, edits>>, trouble' \in 0..MaxTrouble
  PROVE  IInv'
<1> DEFINE d == Process("exited", daemon[n].args, daemon[n].used, c, daemon[n].serves)
<1>1. d \in Processes
  BY ProcessLaunchable DEF Process, Processes, Causes
<1>2. Consulted(d) /\ d.args = daemon[n].args /\ d.why = c
  BY DEF Consulted, Process
<1>3. Become(n, d)
  BY DEF Exit
<1>4. loaded[n] # None /\ daemon[n].args # None /\ Launchable(daemon[n].args)
  BY ProcessLaunchable
<1> HIDE DEF d
<1> QED
  BY <1>1, <1>2, <1>3, <1>4, ProcessStep

\* Reaching the next stage keeps IInv when what that stage implies was read.
LEMMA ReachStep ==
  ASSUME IInv, NEW n \in Names, daemon[n].pc # "down",
         NEW s \in Stages \cup {"serving"}, NEW keys \in SUBSET DaemonKeys,
         NEW serves \in {"agents", "empty", "stale"}, Reach(n, s, keys, serves),
         Consulted(Process(s, daemon[n].args, daemon[n].used \cup keys, "none", serves)),
         UNCHANGED <<file, update, systemd, registry, edits, trouble>>
  PROVE  IInv'
<1> DEFINE d == Process(s, daemon[n].args, daemon[n].used \cup keys, "none", serves)
<1>1. d \in Processes
  BY ProcessLaunchable DEF Process, Processes, Causes, Stages
<1>2. Become(n, d)
  BY DEF Reach
<1>3. d.args = daemon[n].args /\ d.why = "none" /\ Consulted(d)
  BY DEF Process
<1>4. trouble' \in 0..MaxTrouble
  BY DEF IInv, TypeOK
<1>5. loaded[n] # None /\ daemon[n].args # None /\ Launchable(daemon[n].args)
  BY ProcessLaunchable
<1> HIDE DEF d
<1> QED
  BY <1>1, <1>2, <1>3, <1>4, <1>5, ProcessStep

-----------------------------------------------------------------------------
(* The daemon's actions keep IInv. *)

\* A daemon reads only keys that it has a flag for.
LEMMA KeysAreFlags ==
  /\ {"registry_source", "log_level", "listen"} \subseteq DaemonKeys
  /\ \A s \in {"file", "git"} : ModeKeys[s] \subseteq DaemonKeys
  /\ \A a : MechanismKeys(a) \subseteq DaemonKeys
BY DEF DaemonKeys, ModeKeys, MechanismKeys, WatchKeys, UsageKeys

LEMMA ParseFlagsStep ==
  ASSUME IInv, NEW n \in Names, ParseFlags(n)
  PROVE  IInv'
<1>1. daemon[n].pc = "flags" /\ UNCHANGED <<file, update, systemd, registry, edits, trouble>>
  BY DEF ParseFlags
<1>2. Reach(n, "store", {"registry_source", "log_level"}, "empty")
  BY <1>1, ProcessLaunchable, LaunchableStarts DEF ParseFlags
<1>3. Consulted(Process("store", daemon[n].args,
                        daemon[n].used \cup {"registry_source", "log_level"}, "none", "empty"))
  BY DEF Consulted, Process
<1> QED
  BY <1>1, <1>2, <1>3, ReachStep, KeysAreFlags DEF Stages

LEMMA OpenStoreStep ==
  ASSUME IInv, NEW n \in Names, OpenStore(n)
  PROVE  IInv'
<1> DEFINE a == daemon[n].args
           keys == ModeKeys[a["registry_source"]]
<1>1. daemon[n].pc = "store" /\ UNCHANGED <<file, update, systemd, registry, edits, trouble>>
  BY DEF OpenStore
<1>2. /\ a["registry_source"] \in {"file", "git"} /\ a["git_poll"] # "negative"
      /\ Consulted(daemon[n])
  BY <1>1, ProcessLaunchable, LaunchableStarts
<1>3. CASE Exit(n, "store") \/ (a["git_vocab"] = "climbing" /\ Exit(n, "vocab"))
  BY <1>1, <1>3, ExitStep DEF IInv, TypeOK
<1>4. CASE registry # "error" /\ Reach(n, "mechanisms", keys, registry)
  <2>1. Consulted(Process("mechanisms", a, daemon[n].used \cup keys, "none", registry))
    BY <1>1, <1>2 DEF Consulted, Process
  <2>2. keys \in SUBSET DaemonKeys
    BY <1>2, KeysAreFlags
  <2>3. registry \in {"agents", "empty", "stale"}
    BY <1>4 DEF IInv, TypeOK, Registries
  <2> QED
    BY <1>1, <1>4, <2>1, <2>2, <2>3, ReachStep DEF Stages
<1> QED
  BY <1>2, <1>3, <1>4 DEF OpenStore

LEMMA StartMechanismsStep ==
  ASSUME IInv, NEW n \in Names, StartMechanisms(n)
  PROVE  IInv'
<1> DEFINE a == daemon[n].args
           keys == MechanismKeys(a)
           serves == daemon[n].serves
<1>1. daemon[n].pc = "mechanisms" /\ UNCHANGED <<file, update, systemd, registry, edits, trouble>>
  BY DEF StartMechanisms
<1>2. Reach(n, "bind", keys, serves) /\ Consulted(daemon[n]) /\ daemon[n] \in Processes
  BY <1>1, ProcessLaunchable, LaunchableStarts DEF StartMechanisms
<1>3. Consulted(Process("bind", a, daemon[n].used \cup keys, "none", serves))
  BY <1>1, <1>2 DEF Consulted, Process
<1>4. keys \in SUBSET DaemonKeys /\ serves \in {"agents", "empty", "stale"}
  BY <1>2, KeysAreFlags DEF Processes
<1> QED
  BY <1>1, <1>2, <1>3, <1>4, ReachStep DEF Stages

LEMMA BindStep ==
  ASSUME IInv, NEW n \in Names, Bind(n)
  PROVE  IInv'
<1>1. daemon[n].pc = "bind" /\ UNCHANGED <<file, update, systemd, registry, edits, trouble>>
  BY DEF Bind
<1>2. CASE Exit(n, "port") \/ (daemon[n].args["listen"] = "malformed" /\ Exit(n, "listen"))
  BY <1>1, <1>2, ExitStep DEF IInv, TypeOK
<1>3. CASE Reach(n, "serving", {"listen"}, daemon[n].serves)
  <2>1. Consulted(daemon[n]) /\ daemon[n].serves \in {"agents", "empty", "stale"}
    BY <1>1, ProcessLaunchable DEF Processes
  <2>2. Consulted(Process("serving", daemon[n].args, daemon[n].used \cup {"listen"}, "none",
                          daemon[n].serves))
    BY <1>1, <2>1 DEF Consulted, Process
  <2> QED
    BY <1>1, <1>3, <2>1, <2>2, ReachStep, KeysAreFlags
<1> QED
  BY <1>2, <1>3 DEF Bind

LEMMA RefreshStep ==
  ASSUME IInv, NEW n \in Names, Refresh(n)
  PROVE  IInv'
<1> DEFINE now == IF registry = "error" THEN "stale" ELSE registry
           d == [daemon[n] EXCEPT !.serves = now]
<1>1. daemon[n].pc = "serving" /\ UNCHANGED <<file, update, systemd, registry, edits, trouble>>
  BY DEF Refresh
<1>2. daemon[n] \in Processes /\ now \in {"agents", "empty", "stale"}
  BY DEF IInv, TypeOK, Registries
<1>3. d \in Processes
  BY <1>2 DEF Processes
<1>4. d.pc = daemon[n].pc /\ d.args = daemon[n].args /\ d.used = daemon[n].used
      /\ d.why = daemon[n].why
  BY <1>2 DEF Processes
<1>5. Become(n, d) /\ trouble' \in 0..MaxTrouble
  BY <1>1 DEF Refresh, IInv, TypeOK
<1> HIDE DEF d, now
<1>6. Consulted(d)
  BY <1>1, <1>4, ProcessLaunchable DEF Consulted
<1>7. /\ d.why \notin {"flags", "mechanisms", "panic"}
      /\ d.why = "listen" => d.args["listen"] = "malformed"
      /\ d.why = "vocab" => d.args["git_vocab"] = "climbing"
  BY <1>4 DEF IInv, AcceptedStarts
<1>8. loaded[n] # None /\ daemon[n].args # None /\ Launchable(daemon[n].args)
  BY <1>1, ProcessLaunchable
<1> QED
  BY <1>1, <1>3, <1>4, <1>5, <1>6, <1>7, <1>8, ProcessStep

LEMMA CrashStep ==
  ASSUME IInv, NEW n \in Names, Crash(n)
  PROVE  IInv'
<1>1. trouble' \in 0..MaxTrouble
  BY BoundsAssumption DEF IInv, TypeOK, Crash
<1> QED
  BY <1>1, ExitStep DEF Crash

LEMMA RespawnStep ==
  ASSUME IInv, NEW n \in Names, Respawn(n)
  PROVE  IInv'
<1> DEFINE d == Starting(loaded[n])
<1>1. loaded[n] # None /\ loaded[n] \in UnitTexts /\ Launchable(loaded[n])
  BY ProcessLaunchable DEF Respawn
<1>2. d \in Processes
  BY <1>1 DEF Starting, Process, Processes, Stages, Causes
<1>3. Consulted(d) /\ d.args = loaded[n] /\ d.why = "none"
  BY DEF Consulted, Starting, Process
<1>4. Become(n, d) /\ UNCHANGED <<file, update, systemd, registry, edits, trouble>>
  BY DEF Respawn
<1>5. trouble' \in 0..MaxTrouble
  BY <1>4 DEF IInv, TypeOK
<1> HIDE DEF d
<1> QED
  BY <1>1, <1>2, <1>3, <1>4, <1>5, ProcessStep

-----------------------------------------------------------------------------
(* A step of update that leaves the host alone. *)

\* It keeps IInv when the run it leads to is of its type and is what IInv says of
\* a run that has changed nothing it has not restarted.
LEMMA RunStep ==
  ASSUME IInv, ~Midway, NEW u \in Runs, update' = u,
         UNCHANGED <<file, systemd, daemon, registry, edits, trouble>>,
         u.pc # "panicked",
         u.given # None => u.handle.sort = "own" /\ u.given = u.handle.values,
         u.pc = "check" => u.handle # None,
         u.pc \in {"open", "check"} => u.given = None,
         u.pc \in {"validate", "export"} \cup Applying => u.given # None,
         u.pc \in {"export"} \cup Applying => Valid(u.given),
         u.pc = "done" /\ u.code = ExitReadyz =>
           u.missed > Seconds[u.given["timeout"]] \/ Blind(u.given),
         u.pc = "probe" => Blind(u.given) \/ u.missed + u.left = Attempts(u.given),
         u.pc \notin {"probe", "done"} => u.missed = 0 /\ ~u.unitChanged,
         u.pc \in Applying \ {"write"} =>
           u.pc = "probe" /\ update.pc \in {"record", "probe"} /\ u.given = update.given
  PROVE  IInv'
<1>1. UNCHANGED <<unit, loaded, enabled, halfway>>
  BY DEF systemd
<1>2. TypeOK'
  BY <1>1 DEF IInv, TypeOK
<1>3. TrustedRead' /\ RenderTotal' /\ Opened' /\ Accepted'
  BY DEF TrustedRead, RenderTotal, Opened, Accepted
<1>4. GivesUpFairly' /\ Probing'
  BY DEF GivesUpFairly, Probing
<1>5. Done'
  BY <1>1 DEF IInv, Done, Own, Applying
<1>6. AcceptedStarts' /\ Launching' /\ \A n \in Names : Consulted(daemon'[n])
  BY <1>1 DEF IInv, AcceptedStarts, Launching
<1>7. Current'
  BY <1>1 DEF IInv, Current
<1> QED
  BY <1>2, <1>3, <1>4, <1>5, <1>6, <1>7 DEF IInv

\* A run that has changed nothing yet, or has restarted what it changed.
LEMMA NotMidway ==
  ASSUME IInv, update.pc \in {"idle", "open", "check", "validate", "export", "write", "record",
                              "probe", "done"}
  PROVE  ~Midway
BY DEF IInv, Done, Midway

\* The runs that end are of their type, and end as they say.
LEMMA EndedIs ==
  ASSUME NEW u \in Runs,
         NEW c \in {ExitOK, ExitInvalid, ExitPrivilege, ExitApply, ExitReadyz}
  PROVE  /\ Ended(u, c) \in Runs
         /\ Ended(u, c).pc = "done" /\ Ended(u, c).code = c
         /\ Ended(u, c).given = u.given /\ Ended(u, c).handle = u.handle
         /\ Ended(u, c).missed = u.missed /\ Ended(u, c).unitChanged = u.unitChanged
BY DEF Runs, Ended, Labels

\* A run that ends, the host as it was, without having given up on readiness.
LEMMA EndedStep ==
  ASSUME IInv, ~Midway, NEW c \in {ExitOK, ExitInvalid, ExitPrivilege, ExitApply},
         update' = Ended(update, c),
         UNCHANGED <<file, systemd, daemon, registry, edits, trouble>>
  PROVE  IInv'
<1> DEFINE u == Ended(update, c)
<1>1. /\ u \in Runs /\ u.pc = "done" /\ u.code = c /\ u.given = update.given
      /\ u.handle = update.handle
  BY EndedIs DEF IInv, TypeOK
<1>2. u.code # ExitReadyz
  BY <1>1 DEF ExitOK, ExitInvalid, ExitPrivilege, ExitApply, ExitReadyz
<1>3. u.given # None => u.handle.sort = "own" /\ u.given = u.handle.values
  BY <1>1 DEF IInv, TrustedRead
<1>4. u.pc \notin {"validate", "export", "probe"} \cup Applying
  BY <1>1 DEF Applying
<1> HIDE DEF u
<1> QED
  BY <1>1, <1>2, <1>3, <1>4, RunStep DEF u

LEMMA StatValuesStep ==
  ASSUME IInv, StatValues
  PROVE  IInv'
<1>1. Idle \in Runs /\ Idle.given = None
  BY DEF Idle, Runs, Labels
<1>2. ~Midway
  BY NotMidway DEF StatValues, At
<1>3. CASE update' = Ended(Idle, ExitInvalid)
  <2> DEFINE u == Ended(Idle, ExitInvalid)
  <2>1. u \in Runs /\ u.pc = "done" /\ u.given = None /\ u.code = ExitInvalid
    BY <1>1, EndedIs
  <2>2. u.pc \notin {"validate", "export", "probe"} \cup Applying
    BY <2>1 DEF Applying
  <2> HIDE DEF u
  <2> QED
    BY <1>2, <1>3, <2>1, <2>2, RunStep DEF StatValues, u, ExitInvalid, ExitReadyz
<1>4. CASE update' = [Idle EXCEPT !.pc = "open"]
  <2> DEFINE u == [Idle EXCEPT !.pc = "open"]
  <2>1. u \in Runs /\ u.pc = "open" /\ u.given = None /\ u.missed = 0 /\ ~u.unitChanged
    BY DEF Idle, Runs, Labels
  <2>2. u.pc \notin {"validate", "export", "probe"} \cup Applying
    BY <2>1 DEF Applying
  <2> HIDE DEF u
  <2> QED
    BY <1>2, <1>4, <2>1, <2>2, RunStep DEF StatValues, u
<1> QED
  BY <1>3, <1>4 DEF StatValues

LEMMA OpenValuesStep ==
  ASSUME IInv, OpenValues
  PROVE  IInv'
<1>1. /\ update \in Runs /\ update.pc = "open" /\ file \in Files /\ update.given = None
      /\ update.missed = 0 /\ ~update.unitChanged
  BY DEF IInv, TypeOK, Opened, Done, OpenValues, At
<1>2. ~Midway
  BY <1>1, NotMidway
<1>3. CASE update' = Ended(update, ExitInvalid)
  BY <1>2, <1>3, EndedStep DEF OpenValues
<1>4. CASE update' = [update EXCEPT !.pc = "check", !.handle = file]
  <2> DEFINE u == [update EXCEPT !.pc = "check", !.handle = file]
  <2>1. u \in Runs
    BY <1>1 DEF Runs, Labels
  <2>2. file # None
    BY <1>1, NoneAssumption
  <2>3. u.pc = "check" /\ u.handle = file /\ u.given = None /\ u.missed = 0 /\ ~u.unitChanged
    BY <1>1 DEF Runs
  <2>4. u.pc \notin {"validate", "export", "probe"} \cup Applying
    BY <2>3 DEF Applying
  <2> HIDE DEF u
  <2> QED
    BY <1>2, <1>4, <2>1, <2>2, <2>3, <2>4, RunStep DEF OpenValues, u
<1> QED
  BY <1>3, <1>4 DEF OpenValues

LEMMA ReadValuesStep ==
  ASSUME IInv, ReadValues
  PROVE  IInv'
<1>1. /\ update \in Runs /\ update.pc = "check" /\ update.handle \in Files
      /\ update.missed = 0 /\ ~update.unitChanged
  BY DEF IInv, TypeOK, Opened, Done, ReadValues, Runs, At
<1>2. ~Midway
  BY <1>1, NotMidway
<1>3. CASE update.handle.sort # "own"
  BY <1>2, <1>3, EndedStep DEF ReadValues
<1>4. CASE update.handle.sort = "own"
  <2> DEFINE u == [update EXCEPT !.pc = "validate", !.given = update.handle.values]
  <2>1. update' = u
    BY <1>4 DEF ReadValues
  <2>2. u \in Runs
    BY <1>1 DEF Runs, Labels, Files
  <2>3. update.handle.values # None
    BY <1>1, NoneAssumption DEF Files
  <2>4. /\ u.pc = "validate" /\ u.handle = update.handle /\ u.given = update.handle.values
        /\ u.missed = 0 /\ ~u.unitChanged
    BY <1>1 DEF Runs
  <2>5. u.pc \notin {"export", "probe"} \cup Applying
    BY <2>4 DEF Applying
  <2> HIDE DEF u
  <2> QED
    BY <1>2, <1>4, <2>1, <2>2, <2>3, <2>4, <2>5, RunStep DEF ReadValues
<1> QED
  BY <1>3, <1>4

LEMMA ValidateValuesStep ==
  ASSUME IInv, ValidateValues
  PROVE  IInv'
<1>1. /\ update \in Runs /\ update.pc = "validate" /\ update.given # None
      /\ update.handle.sort = "own" /\ update.given = update.handle.values
      /\ update.missed = 0 /\ ~update.unitChanged
  BY DEF IInv, TypeOK, TrustedRead, Accepted, Done, ValidateValues, At
<1>2. ~Midway
  BY <1>1, NotMidway
<1>3. CASE ~Valid(update.given)
  BY <1>2, <1>3, EndedStep DEF ValidateValues
<1>4. CASE Valid(update.given)
  <2> DEFINE u == [update EXCEPT !.pc = "export"]
  <2>1. u \in Runs
    BY <1>1 DEF Runs, Labels
  <2>2. /\ u.pc = "export" /\ u.given = update.given /\ u.handle = update.handle
        /\ u.missed = 0 /\ ~u.unitChanged
    BY <1>1 DEF Runs
  <2>3. update' = u
    BY <1>4 DEF ValidateValues
  <2>4. u.pc \notin Applying
    BY <2>2 DEF Applying
  <2> HIDE DEF u
  <2> QED
    BY <1>1, <1>2, <1>4, <2>1, <2>2, <2>3, <2>4, RunStep DEF ValidateValues
<1> QED
  BY <1>3, <1>4

\* What holds of every run that has accepted its values.
LEMMA AcceptedRun ==
  ASSUME IInv, update.pc \in {"export"} \cup Applying
  PROVE  /\ update \in Runs /\ update.given # None /\ update.given \in ValuesFiles
         /\ Valid(update.given)
         /\ update.handle.sort = "own" /\ update.given = update.handle.values
         /\ Own \in Names
BY DEF IInv, TypeOK, TrustedRead, Accepted, Runs, Own, OwnUnit, Names

LEMMA ExportStep ==
  ASSUME IInv, Export
  PROVE  IInv'
<1>1. update.pc = "export"
  BY DEF Export, At
<1>2. /\ ~Midway /\ ~RenderPanics(update.given)
      /\ update.missed = 0 /\ ~update.unitChanged
  BY <1>1, NotMidway, AcceptedRun, ValidRenders DEF IInv, Done
<1>3. ASSUME NEW c \in {ExitInvalid, ExitPrivilege, ExitApply}, update' = Ended(update, c)
      PROVE  IInv'
  BY <1>2, <1>3, EndedStep DEF Export
<1>4. CASE Goto("write")
  <2> DEFINE u == [update EXCEPT !.pc = "write"]
  <2>1. u \in Runs
    BY <1>1, AcceptedRun DEF Runs, Labels
  <2>2. /\ u.pc = "write" /\ u.given = update.given /\ u.handle = update.handle
        /\ u.missed = 0 /\ ~u.unitChanged
    BY <1>1, <1>2, AcceptedRun DEF Runs
  <2>3. update' = u
    BY <1>4 DEF Goto
  <2> HIDE DEF u
  <2> QED
    BY <1>1, <1>2, <2>1, <2>2, <2>3, AcceptedRun, RunStep DEF Export
<1> QED
  BY <1>2, <1>3, <1>4 DEF Export

\* Asking once and once a second makes one attempt more than there are seconds.
LEMMA AttemptsPositive ==
  ASSUME NEW v, Valid(v)
  PROVE  Attempts(v) \in Nat /\ Attempts(v) > Seconds[v["timeout"]]
BY SecondsAssumption DEF Valid, ProbeSound, Attempts

LEMMA WriteRecordStep ==
  ASSUME IInv, WriteRecord
  PROVE  IInv'
<1> DEFINE u == [update EXCEPT !.pc = "probe", !.left = Attempts(update.given)]
<1>1. update.pc = "record" /\ update.pc \in Applying /\ update.missed = 0
  BY DEF WriteRecord, At, Applying, IInv, Done
<1>2. u \in Runs
  BY <1>1, AcceptedRun, AttemptsPositive DEF Runs, Labels
<1>3. /\ u.pc = "probe" /\ u.given = update.given /\ u.handle = update.handle
      /\ u.missed = 0 /\ u.left = Attempts(update.given)
  BY <1>1, AcceptedRun DEF Runs
<1>4. u.missed + u.left = Attempts(u.given)
  BY <1>1, <1>3, AcceptedRun, AttemptsPositive
<1>5. update' = u /\ ~Midway
  BY <1>1, NotMidway DEF WriteRecord
<1> HIDE DEF u
<1> QED
  BY <1>1, <1>2, <1>3, <1>4, <1>5, AcceptedRun, RunStep DEF WriteRecord

\* A daemon that is ready for v answers v's probe, unless it is blind.
LEMMA ReadyAnswers ==
  ASSUME NEW v \in ValuesFiles, ReadyFor(v), ~Blind(v)
  PROVE  Replies(v) = {TRUE}
<1>1. Rendered(v)["listen"] = v["listen"] /\ Rendered(v)["env_file"] = v["env_file"]
  BY RenderedKeeps DEF UnitKeys, DaemonKeys
<1>2. OwnUnit(v) \in Names
  BY DEF OwnUnit, Names
<1>3. Answers(v, OwnUnit(v))
  BY <1>1 DEF ReadyFor, Serves, Blind, Answers, Admitted
<1> QED
  BY <1>2, <1>3 DEF Replies, Blind

LEMMA ProbeStep ==
  ASSUME IInv, Probe
  PROVE  IInv'
<1> DEFINE v == update.given
<1>1. /\ update.pc = "probe" /\ update.pc \in Applying /\ ~Midway
      /\ UNCHANGED <<file, systemd, daemon, registry, edits, trouble>>
  BY NotMidway DEF Probe, At, Applying
<1>2. /\ update \in Runs /\ v # None /\ v \in ValuesFiles /\ Valid(v)
      /\ update.handle.sort = "own" /\ v = update.handle.values
      /\ update.left \in Nat /\ update.missed \in Nat
      /\ Blind(v) \/ update.missed + update.left = Attempts(v)
  BY <1>1, AcceptedRun DEF IInv, Probing, Runs
<1>3. PICK timely \in BOOLEAN, reply \in Replies(v) :
        IF update.left = 0 THEN update' = Ended(update, ExitReadyz)
        ELSE IF timely /\ reply THEN Succeeded
        ELSE Missed(timely)
  BY DEF Probe
<1>4. CASE update.left = 0
  <2> DEFINE u == Ended(update, ExitReadyz)
  <2>1. /\ u \in Runs /\ u.pc = "done" /\ u.given = v /\ u.handle = update.handle
        /\ u.missed = update.missed
    BY <1>2, EndedIs
  <2>2. u.missed > Seconds[u.given["timeout"]] \/ Blind(u.given)
    BY <1>2, <1>4, <2>1, AttemptsPositive
  <2>3. update' = u
    BY <1>3, <1>4
  <2>4. u.pc \notin {"validate", "export", "probe"} \cup Applying
    BY <2>1 DEF Applying
  <2> HIDE DEF u
  <2> QED
    BY <1>1, <1>2, <2>1, <2>2, <2>3, <2>4, RunStep
<1>5. CASE Succeeded
  BY <1>1, <1>5, EndedStep DEF Succeeded
<1>6. CASE update.left # 0 /\ ~(timely /\ reply) /\ Missed(timely)
  <2> DEFINE hit == timely /\ ReadyFor(v)
             misses == IF hit THEN update.missed ELSE update.missed + 1
             u == [update EXCEPT !.left = update.left - 1, !.missed = misses]
  <2>1. update' = u
    BY <1>6 DEF Missed
  <2>2. misses = update.missed \/ misses = update.missed + 1
    BY Zenon
  <2>3. Blind(v) \/ misses = update.missed + 1
    <3>1. ASSUME ~Blind(v), ReadyFor(v) PROVE reply
      <4>1. Replies(v) = {TRUE}
        BY <1>2, <3>1, ReadyAnswers
      <4>2. reply = TRUE
        BY <4>1
      <4> QED
        BY <4>2, Zenon
    <3>2. Blind(v) \/ ~hit
      BY <1>6, <3>1, Zenon
    <3> HIDE DEF hit
    <3> QED
      BY <3>2
  <2> HIDE DEF misses
  <2>4. u \in Runs
    <3>1. update.left - 1 \in Nat
      <4>1. update.left # 0
        BY <1>6, Zenon
      <4> QED
        BY <1>2, <4>1
    <3>2. misses \in Nat
      BY <1>2, <2>2
    <3> QED
      BY <1>2, <3>1, <3>2 DEF Runs
  <2>5. /\ u.pc = "probe" /\ u.handle = update.handle /\ u.given = v
        /\ u.missed = misses /\ u.left = update.left - 1
    BY <1>1, <1>2 DEF Runs
  <2>6. Blind(u.given) \/ u.missed + u.left = Attempts(u.given)
    BY <1>2, <2>3, <2>5
  <2> HIDE DEF u
  <2> QED
    BY <1>1, <1>2, <2>1, <2>4, <2>5, <2>6, RunStep
<1> QED
  BY <1>3, <1>4, <1>5, <1>6

-----------------------------------------------------------------------------
(* The steps of update that change the host. *)

\* What such a step does to the run: it goes on with the values it has, or it
\* ends without having given up on readiness.
LEMMA ConvergeRun ==
  ASSUME IInv, update.pc \in Applying \ {"probe"}, NEW u \in Runs, update' = u, file' = file,
         u.given = update.given, u.handle = update.handle, u.missed = update.missed,
         \/ u.pc \in Applying \ {"write", "probe"}
         \/ u.pc = "done" /\ u.code # ExitReadyz
  PROVE  /\ TrustedRead' /\ RenderTotal' /\ Opened' /\ Accepted' /\ GivesUpFairly' /\ Probing'
         /\ Own' = Own /\ u.missed = 0
<1>1. /\ update.given # None /\ Valid(update.given)
      /\ update.handle.sort = "own" /\ update.given = update.handle.values
  BY AcceptedRun
<1>2. update.missed = 0
  BY DEF IInv, Done, Applying
<1>3. u.pc \notin {"open", "check", "panicked", "probe"}
  BY DEF Applying
<1>4. Own' = Own /\ u.missed = 0
  BY <1>2 DEF Own
<1>5. /\ update'.given # None /\ Valid(update'.given)
      /\ update'.handle.sort = "own" /\ update'.given = update'.handle.values
  BY <1>1
<1>6. TrustedRead' /\ Accepted'
  BY <1>5 DEF TrustedRead, Accepted
<1>7. RenderTotal' /\ Opened'
  BY <1>3 DEF RenderTotal, Opened
<1>8. Probing'
  BY <1>3 DEF Probing
<1>9. GivesUpFairly'
  <2>1. ~(u.pc = "done" /\ u.code = ExitReadyz)
    BY DEF Applying
  <2> QED
    BY <2>1 DEF GivesUpFairly
<1> QED
  BY <1>4, <1>6, <1>7, <1>8, <1>9

\* The run that goes on at another label.
LEMMA GotoIs ==
  ASSUME update \in Runs, NEW pc \in Labels, Goto(pc)
  PROVE  /\ update' \in Runs /\ update'.pc = pc
         /\ update'.given = update.given /\ update'.handle = update.handle
         /\ update'.missed = update.missed /\ update'.unitChanged = update.unitChanged
BY DEF Goto, Runs

\* Where no process and no installed text changes, neither do their properties.
LEMMA ProcessesKept ==
  ASSUME IInv, UNCHANGED daemon
  PROVE  AcceptedStarts' /\ \A n \in Names : Consulted(daemon'[n])
BY DEF IInv, AcceptedStarts

LEMMA WriteUnitStep ==
  ASSUME IInv, WriteUnit
  PROVE  IInv'
<1> DEFINE text == Rendered(update.given)
<1>1. /\ update.pc = "write" /\ update.pc \in Applying \ {"probe"} /\ ~Midway
      /\ UNCHANGED <<file, loaded, enabled, halfway, daemon, registry, edits, trouble>>
  BY NotMidway DEF WriteUnit, At, Applying
<1>2. update \in Runs /\ Own \in Names /\ ~update.unitChanged
  BY <1>1, AcceptedRun DEF IInv, Done
<1>3. text \in UnitTexts /\ text # None /\ Launchable(text)
  BY <1>1, AcceptedRun, RenderedKeeps, RenderedLaunches, NoneAssumption
<1>4. AcceptedStarts' /\ \A n \in Names : Consulted(daemon'[n])
  BY <1>1, ProcessesKept
<1>5. CASE unit[Own] = text /\ Goto("swap") /\ UNCHANGED unit
  <2>1. /\ update' \in Runs /\ update'.pc = "swap" /\ update'.given = update.given
        /\ update'.handle = update.handle /\ update'.missed = update.missed
        /\ ~update'.unitChanged
    BY <1>2, <1>5, GotoIs DEF Labels
  <2>2. /\ TrustedRead' /\ RenderTotal' /\ Opened' /\ Accepted' /\ GivesUpFairly' /\ Probing'
        /\ Own' = Own /\ update'.missed = 0
    BY <1>1, <2>1, ConvergeRun DEF Applying
  <2>3. TypeOK'
    BY <1>1, <1>5, <2>1 DEF IInv, TypeOK
  <2>4. Launching' /\ Current'
    BY <1>1, <1>5 DEF IInv, Launching, Current
  <2>5. Done'
    BY <1>1, <1>5, <2>1, <2>2 DEF Done
  <2> QED
    BY <1>4, <2>2, <2>3, <2>4, <2>5 DEF IInv
<1>6. CASE /\ unit' = [unit EXCEPT ![Own] = text]
           /\ update' = [update EXCEPT !.pc = "reload", !.unitChanged = TRUE]
  <2>1. /\ update' \in Runs /\ update'.pc = "reload" /\ update'.given = update.given
        /\ update'.handle = update.handle /\ update'.missed = update.missed
        /\ update'.unitChanged
    BY <1>2, <1>6 DEF Runs, Labels
  <2>2. /\ TrustedRead' /\ RenderTotal' /\ Opened' /\ Accepted' /\ GivesUpFairly' /\ Probing'
        /\ Own' = Own /\ update'.missed = 0
    BY <1>1, <2>1, ConvergeRun DEF Applying
  <2> HIDE DEF text
  <2>3. /\ unit' \in [Names -> UnitTexts \cup {None}]
        /\ \A n \in Names : unit'[n] = IF n = Own THEN text ELSE unit[n]
    BY <1>2, <1>3, <1>6 DEF IInv, TypeOK
  <2>4. TypeOK'
    BY <1>1, <2>1, <2>3 DEF IInv, TypeOK
  <2>5. Launching'
    BY <1>1, <1>3, <2>3 DEF IInv, Launching
  <2>6. Midway'
    BY <2>1 DEF Midway
  <2>7. Current'
    BY <1>1, <2>2, <2>3, <2>6 DEF IInv, Current
  <2>8. Done'
    BY <1>2, <2>1, <2>2, <2>3 DEF Done, text
  <2> QED
    BY <1>4, <2>2, <2>4, <2>5, <2>7, <2>8 DEF IInv
<1> QED
  BY <1>5, <1>6 DEF WriteUnit

\* A reload makes systemd's texts the installed ones.
LEMMA ReloadKeeps ==
  ASSUME IInv, loaded' = unit, UNCHANGED <<unit, daemon, halfway>>,
         enabled' \subseteq Names,
         \A n \in enabled' : unit[n] # None,
         Midway' <=> Midway, Own' = Own
  PROVE  Launching' /\ Current'
BY DEF IInv, Launching, Current

\* A step that changes neither the texts nor the processes keeps what IInv says
\* of them.
LEMMA HostKept ==
  ASSUME IInv, UNCHANGED <<unit, loaded, daemon, halfway>>,
         enabled' \subseteq Names,
         \A n \in enabled' : loaded[n] # None,
         Midway' <=> Midway, Own' = Own
  PROVE  Launching' /\ Current'
BY DEF IInv, Launching, Current

LEMMA DaemonReloadStep ==
  ASSUME IInv, DaemonReload
  PROVE  IInv'
<1>1. /\ update.pc = "reload" /\ update.pc \in Applying \ {"probe"} /\ loaded' = unit
      /\ UNCHANGED <<file, unit, enabled, halfway, daemon, registry, edits, trouble>>
  BY DEF DaemonReload, At, Applying
<1>2. update \in Runs
  BY <1>1, AcceptedRun
<1>3. /\ update' \in Runs /\ update'.pc = "swap" /\ update'.given = update.given
      /\ update'.handle = update.handle /\ update'.missed = update.missed
      /\ update'.unitChanged = update.unitChanged
  BY <1>2, GotoIs DEF DaemonReload, Labels
<1>4. /\ TrustedRead' /\ RenderTotal' /\ Opened' /\ Accepted' /\ GivesUpFairly' /\ Probing'
      /\ Own' = Own /\ update'.missed = 0
  BY <1>1, <1>3, ConvergeRun DEF Applying
<1>5. TypeOK'
  BY <1>1, <1>3 DEF IInv, TypeOK
<1>6. Midway' <=> Midway
  BY <1>1, <1>3 DEF Midway
<1>7. Launching' /\ Current'
  <2>1. enabled \subseteq Names /\ \A n \in enabled : unit[n] # None
    BY DEF IInv, TypeOK, Launching
  <2> QED
    BY <1>1, <1>4, <1>6, <2>1, ReloadKeeps
<1>8. Done'
  BY <1>1, <1>3, <1>4 DEF IInv, Done, Applying
<1> QED
  BY <1>1, <1>4, <1>5, <1>7, <1>8, ProcessesKept DEF IInv

LEMMA SwapStep ==
  ASSUME IInv, Swap
  PROVE  IInv'
<1>1. /\ update.pc = "swap" /\ update.pc \in Applying \ {"probe"}
      /\ UNCHANGED <<file, systemd, daemon, registry, trouble>>
      /\ UNCHANGED <<unit, loaded, enabled, halfway>>
  BY DEF Swap, At, Applying, systemd
<1>2. update \in Runs
  BY <1>1, AcceptedRun
<1>3. edits' \in 0..MaxEdits
  BY BoundsAssumption DEF Swap, IInv, TypeOK
<1>4. /\ update' \in Runs /\ update'.pc = "stop" /\ update'.given = update.given
      /\ update'.handle = update.handle /\ update'.missed = update.missed
      /\ update'.unitChanged = update.unitChanged
  BY <1>2 DEF Swap, Goto, Runs, Labels
<1>5. /\ TrustedRead' /\ RenderTotal' /\ Opened' /\ Accepted' /\ GivesUpFairly' /\ Probing'
      /\ Own' = Own /\ update'.missed = 0
  BY <1>1, <1>4, ConvergeRun DEF Applying
<1>6. TypeOK'
  BY <1>1, <1>3, <1>4 DEF IInv, TypeOK
<1>7. Midway' <=> Midway
  BY <1>1, <1>4 DEF Midway
<1>8. Launching' /\ Current'
  <2>1. enabled \subseteq Names /\ \A n \in enabled : loaded[n] # None
    BY DEF IInv, TypeOK, Launching
  <2> QED
    BY <1>1, <1>5, <1>7, <2>1, HostKept
<1>9. Done'
  BY <1>1, <1>4, <1>5 DEF IInv, Done, Applying
<1> QED
  BY <1>1, <1>5, <1>6, <1>8, <1>9, ProcessesKept DEF IInv

\* A process that goes down or is left alone.
LEMMA DownKeeps ==
  ASSUME IInv, NEW S, daemon' = [n \in Names |-> IF n \in S THEN Down ELSE daemon[n]],
         UNCHANGED <<unit, loaded, enabled>>
  PROVE  /\ daemon' \in [Names -> Processes]
         /\ AcceptedStarts' /\ Launching' /\ \A n \in Names : Consulted(daemon'[n])
         /\ \A n \in Names : daemon'[n].pc # "down" => daemon'[n] = daemon[n]
<1>1. /\ Down \in Processes /\ Down.pc = "down" /\ Down.why = "none" /\ Consulted(Down)
  BY DEF Down, Process, Processes, Causes, Consulted
<1>2. \A n \in Names : daemon'[n] = Down \/ daemon'[n] = daemon[n]
  OBVIOUS
<1>3. daemon' \in [Names -> Processes]
  BY <1>1 DEF IInv, TypeOK
<1>4. AcceptedStarts' /\ Launching'
  BY <1>1, <1>2 DEF IInv, AcceptedStarts, Launching
<1> QED
  BY <1>1, <1>2, <1>3, <1>4 DEF IInv

LEMMA StopOthersStep ==
  ASSUME IInv, StopOthers
  PROVE  IInv'
<1> DEFINE S == {n \in Others : Active(n)}
<1>1. /\ update.pc = "stop" /\ update.pc \in Applying \ {"probe"}
      /\ UNCHANGED <<file, registry, edits, trouble>>
      /\ UNCHANGED <<unit, loaded, enabled, halfway>>
      /\ daemon' = [n \in Names |-> IF n \in S THEN Down ELSE daemon[n]]
  BY DEF StopOthers, At, Applying, systemd
<1>2. update \in Runs
  BY <1>1, AcceptedRun
<1>3. /\ update' \in Runs /\ update'.pc = "disable" /\ update'.given = update.given
      /\ update'.handle = update.handle /\ update'.missed = update.missed
      /\ update'.unitChanged = update.unitChanged
  BY <1>2, GotoIs DEF StopOthers, Labels
<1>4. /\ TrustedRead' /\ RenderTotal' /\ Opened' /\ Accepted' /\ GivesUpFairly' /\ Probing'
      /\ Own' = Own /\ update'.missed = 0
  BY <1>1, <1>3, ConvergeRun DEF Applying
<1> HIDE DEF S
<1>5. /\ daemon' \in [Names -> Processes]
      /\ AcceptedStarts' /\ Launching' /\ \A n \in Names : Consulted(daemon'[n])
      /\ \A n \in Names : daemon'[n].pc # "down" => daemon'[n] = daemon[n]
  BY <1>1, DownKeeps
<1>6. TypeOK'
  BY <1>1, <1>3, <1>5 DEF IInv, TypeOK
<1>7. Midway' <=> Midway
  BY <1>1, <1>3 DEF Midway
<1>8. Current'
  BY <1>1, <1>4, <1>5, <1>7 DEF IInv, Current
<1>9. Done'
  BY <1>1, <1>3, <1>4 DEF IInv, Done, Applying
<1> QED
  BY <1>4, <1>5, <1>6, <1>8, <1>9 DEF IInv

LEMMA DisableOthersStep ==
  ASSUME IInv, DisableOthers
  PROVE  IInv'
<1>1. /\ update.pc = "disable" /\ update.pc \in Applying \ {"probe"}
      /\ UNCHANGED <<file, unit, halfway, daemon, registry, edits, trouble>>
      /\ enabled' = enabled \ Others
      /\ loaded' = unit \/ loaded' = loaded
  BY DEF DisableOthers, At, Applying
<1>2. update \in Runs
  BY <1>1, AcceptedRun
<1>3. /\ update' \in Runs /\ update'.pc = "enable" /\ update'.given = update.given
      /\ update'.handle = update.handle /\ update'.missed = update.missed
      /\ update'.unitChanged = update.unitChanged
  BY <1>2, GotoIs DEF DisableOthers, Labels
<1>4. /\ TrustedRead' /\ RenderTotal' /\ Opened' /\ Accepted' /\ GivesUpFairly' /\ Probing'
      /\ Own' = Own /\ update'.missed = 0
  BY <1>1, <1>3, ConvergeRun DEF Applying
<1>5. TypeOK'
  BY <1>1, <1>3 DEF IInv, TypeOK
<1>6. Midway' <=> Midway
  BY <1>1, <1>3 DEF Midway
<1>7. Launching' /\ Current'
  <2>1. enabled' \subseteq Names /\ \A n \in enabled' : loaded[n] # None /\ unit[n] # None
    BY <1>1 DEF IInv, TypeOK, Launching
  <2> QED
    BY <1>1, <1>4, <1>6, <2>1, ReloadKeeps, HostKept
<1>8. Done'
  BY <1>1, <1>3, <1>4 DEF IInv, Done, Applying
<1> QED
  BY <1>1, <1>4, <1>5, <1>7, <1>8, ProcessesKept DEF IInv

LEMMA EnableStep ==
  ASSUME IInv, Enable
  PROVE  IInv'
<1>1. /\ update.pc = "enable" /\ update.pc \in Applying \ {"probe"}
      /\ UNCHANGED <<file, unit, halfway, daemon, registry, edits, trouble>>
      /\ enabled' = enabled \cup {Own}
      /\ loaded' = IF Own \in enabled THEN loaded ELSE unit
  BY DEF Enable, At, Applying
<1>2. update \in Runs /\ Own \in Names
  BY <1>1, AcceptedRun
<1>3. /\ update' \in Runs /\ update'.pc = "restart" /\ update'.given = update.given
      /\ update'.handle = update.handle /\ update'.missed = update.missed
      /\ update'.unitChanged = update.unitChanged
  BY <1>2, GotoIs DEF Enable, Labels
<1>4. /\ TrustedRead' /\ RenderTotal' /\ Opened' /\ Accepted' /\ GivesUpFairly' /\ Probing'
      /\ Own' = Own /\ update'.missed = 0
  BY <1>1, <1>3, ConvergeRun DEF Applying
<1>5. unit[Own] # None
  <2>1. unit[Own] = Rendered(update.given)
    BY <1>1 DEF IInv, Done
  <2> QED
    BY <1>1, <2>1, AcceptedRun, RenderedKeeps, NoneAssumption
<1>6. TypeOK'
  BY <1>1, <1>2, <1>3 DEF IInv, TypeOK
<1>7. Midway' <=> Midway
  BY <1>1, <1>3 DEF Midway
<1>8. Launching' /\ Current'
  <2>1. enabled' \subseteq Names /\ \A n \in enabled' : unit[n] # None
    BY <1>1, <1>2, <1>5 DEF IInv, TypeOK, Launching
  <2>2. CASE Own \in enabled
    <3>1. \A n \in enabled' : loaded[n] # None
      BY <1>1, <2>2 DEF IInv, TypeOK, Launching
    <3> QED
      BY <1>1, <1>4, <1>7, <2>1, <2>2, <3>1, HostKept
  <2>3. CASE Own \notin enabled
    BY <1>1, <1>4, <1>7, <2>1, <2>3, ReloadKeeps
  <2> QED
    BY <2>2, <2>3
<1>9. Done'
  BY <1>1, <1>3, <1>4 DEF IInv, Done, Applying
<1> QED
  BY <1>1, <1>4, <1>6, <1>8, <1>9, ProcessesKept DEF IInv

LEMMA RestartStep ==
  ASSUME IInv, Restart
  PROVE  IInv'
<1>1. /\ update.pc = "restart" /\ update.pc \in Applying \ {"probe"}
      /\ UNCHANGED <<file, unit, loaded, enabled, registry, edits, trouble>>
  BY DEF Restart, At, Applying
<1>2. update \in Runs /\ Own \in Names
  BY <1>1, AcceptedRun
<1>3. /\ update' \in Runs /\ update'.pc = "record" /\ update'.given = update.given
      /\ update'.handle = update.handle /\ update'.missed = update.missed
      /\ update'.unitChanged = update.unitChanged
  BY <1>2, GotoIs DEF Restart, Labels
<1>4. /\ TrustedRead' /\ RenderTotal' /\ Opened' /\ Accepted' /\ GivesUpFairly' /\ Probing'
      /\ Own' = Own /\ update'.missed = 0
  BY <1>1, <1>3, ConvergeRun DEF Applying
<1>5. Done'
  BY <1>1, <1>3, <1>4 DEF IInv, Done, Applying
<1>6. CASE NeedsRestart
  <2> DEFINE d == Starting(loaded[Own])
  <2>1. /\ Become(Own, d)
        /\ halfway' = IF loaded[Own] = unit[Own] THEN halfway \ {Own} ELSE halfway
    BY <1>6 DEF Restart
  <2>2. loaded[Own] # None /\ loaded[Own] \in UnitTexts /\ Launchable(loaded[Own])
    BY <1>1, <1>2 DEF IInv, TypeOK, Done, Launching
  <2>3. d \in Processes /\ Consulted(d) /\ d.args = loaded[Own] /\ d.why = "none"
    BY <2>2 DEF Starting, Process, Processes, Stages, Causes, Consulted
  <2> HIDE DEF d
  <2>4. /\ daemon' \in [Names -> Processes]
        /\ \A n \in Names : daemon'[n] = IF n = Own THEN d ELSE daemon[n]
    BY <1>2, <2>1, <2>3 DEF IInv, TypeOK, Become
  <2>5. TypeOK'
    BY <1>1, <1>3, <2>1, <2>4 DEF IInv, TypeOK
  <2>6. AcceptedStarts' /\ Launching' /\ \A n \in Names : Consulted(daemon'[n])
    BY <1>1, <2>2, <2>3, <2>4 DEF IInv, AcceptedStarts, Launching
  <2>7. update.unitChanged => loaded[Own] = unit[Own]
    BY <1>1 DEF IInv, Done
  <2>8. ASSUME NEW n \in Names, n \notin halfway'
        PROVE  /\ loaded'[n] = unit'[n]
               /\ daemon'[n].pc # "down" => daemon'[n].args = unit'[n]
    <3>1. CASE n = Own
      <4>1. loaded[n] = unit[n]
        BY <2>1, <2>7, <2>8, <3>1 DEF IInv, Current, Midway
      <4> QED
        BY <1>1, <2>3, <2>4, <3>1, <4>1
    <3>2. CASE n # Own
      BY <1>1, <2>1, <2>4, <2>8, <3>2 DEF IInv, Current
    <3> QED
      BY <3>1, <3>2
  <2>9. Current'
    BY <2>8 DEF Current
  <2> QED
    BY <1>4, <1>5, <2>5, <2>6, <2>9 DEF IInv
<1>7. CASE ~NeedsRestart
  <2>1. UNCHANGED <<daemon, halfway>> /\ ~update.unitChanged
    BY <1>7 DEF Restart, NeedsRestart
  <2>2. TypeOK'
    BY <1>1, <1>3, <2>1 DEF IInv, TypeOK
  <2>3. ~Midway /\ ~Midway'
    BY <1>3, <2>1 DEF Midway
  <2>4. Launching' /\ Current'
    <3>1. enabled' \subseteq Names /\ \A n \in enabled' : loaded[n] # None
      BY <1>1 DEF IInv, TypeOK, Launching
    <3> QED
      BY <1>1, <1>4, <2>1, <2>3, <3>1, HostKept
  <2> QED
    BY <1>4, <1>5, <2>1, <2>2, <2>4, ProcessesKept DEF IInv
<1> QED
  BY <1>6, <1>7

LEMMA HaltsStep ==
  ASSUME IInv, Halts
  PROVE  IInv'
<1> DEFINE u == Ended(update, ExitApply)
<1>1. /\ update.pc \in Applying \ {"probe"} /\ update' = u
      /\ UNCHANGED <<file, unit, loaded, enabled, registry, edits, trouble>>
      /\ halfway' = IF Midway THEN halfway \cup {Own} ELSE halfway
  BY DEF Halts, Applying
<1>2. update \in Runs /\ Own \in Names
  BY <1>1, AcceptedRun
<1>3. /\ u \in Runs /\ u.pc = "done" /\ u.code = ExitApply /\ u.given = update.given
      /\ u.handle = update.handle /\ u.missed = update.missed
  BY <1>2, EndedIs
<1>4. ExitApply # ExitReadyz
  BY DEF ExitApply, ExitReadyz
<1> HIDE DEF u
<1>5. /\ TrustedRead' /\ RenderTotal' /\ Opened' /\ Accepted' /\ GivesUpFairly' /\ Probing'
      /\ Own' = Own /\ u.missed = 0
  BY <1>1, <1>3, <1>4, ConvergeRun
<1>6. Done'
  BY <1>1, <1>3 DEF Done, Applying
<1>7. /\ daemon' \in [Names -> Processes]
      /\ AcceptedStarts' /\ Launching' /\ \A n \in Names : Consulted(daemon'[n])
      /\ \A n \in Names : daemon'[n].pc # "down" => daemon'[n] = daemon[n]
  <2>1. CASE UNCHANGED daemon
    BY <1>1, <2>1, ProcessesKept DEF IInv, TypeOK, Launching
  <2>2. CASE Become(Own, Down)
    <3>1. daemon' = [n \in Names |-> IF n \in {Own} THEN Down ELSE daemon[n]]
      BY <2>2 DEF Become, IInv, TypeOK
    <3> QED
      BY <1>1, <3>1, DownKeeps
  <2> QED
    BY <2>1, <2>2 DEF Halts
<1>8. TypeOK'
  BY <1>1, <1>2, <1>3, <1>7 DEF IInv, TypeOK
<1>9. Current'
  BY <1>1, <1>7 DEF IInv, Current
<1> QED
  BY <1>5, <1>6, <1>7, <1>8, <1>9 DEF IInv

-----------------------------------------------------------------------------
(* The inductive invariant. *)

\* The world outside disturbs nothing that IInv relates.
LEMMA WorldStep ==
  ASSUME IInv, EditValues \/ Worsen \/ Mend
  PROVE  IInv'
<1>1. UNCHANGED <<update, systemd, daemon>> /\ UNCHANGED <<unit, loaded, enabled, halfway>>
  BY DEF EditValues, Worsen, Mend, systemd
<1>2. file' \in Files
  <2>1. CASE EditValues
    <3>1. \A k \in Keys : \A f \in Forms[k] :
            [file.values EXCEPT ![k] = f] \in ValuesFiles
      BY DEF IInv, TypeOK, Files, ValuesFiles, Form
    <3> QED
      BY <2>1, <3>1, BasesAssumption DEF EditValues, IInv, TypeOK, Files
  <2> QED
    BY <2>1 DEF Worsen, Mend, IInv, TypeOK
<1>3. registry' \in Registries /\ edits' \in 0..MaxEdits /\ trouble' \in 0..MaxTrouble
  BY BoundsAssumption DEF EditValues, Worsen, Mend, Registries, IInv, TypeOK
<1>4. TypeOK'
  BY <1>1, <1>2, <1>3 DEF IInv, TypeOK
<1> QED
  BY <1>1, <1>4 DEF IInv, TrustedRead, RenderTotal, AcceptedStarts, GivesUpFairly, Opened,
                    Accepted, Launching, Current, Midway, Own, Done, Probing

LEMMA IInvInit == Init => IInv
<1> SUFFICES ASSUME Init PROVE IInv
  OBVIOUS
<1>1. /\ Idle \in Runs /\ Idle.pc = "idle" /\ Idle.given = None /\ Idle.missed = 0
      /\ ~Idle.unitChanged
  BY DEF Idle, Runs, Labels
<1>2. Down \in Processes /\ Down.pc = "down" /\ Down.why = "none" /\ Consulted(Down)
  BY DEF Down, Process, Processes, Causes, Consulted
<1>3. TypeOK
  BY <1>1, <1>2, BasesAssumption, BoundsAssumption DEF Init, TypeOK, Files
<1>4. TrustedRead /\ RenderTotal /\ GivesUpFairly /\ Opened /\ Accepted /\ Probing /\ Done
  BY <1>1 DEF Init, TrustedRead, RenderTotal, GivesUpFairly, Opened, Accepted, Probing, Done,
              Applying
<1>5. AcceptedStarts /\ Launching /\ Current /\ \A n \in Names : Consulted(daemon[n])
  BY <1>2 DEF Init, AcceptedStarts, Launching, Current
<1> QED
  BY <1>3, <1>4, <1>5 DEF IInv

\* IInv is inductive.
LEMMA IInvStep == IInv /\ [Next]_vars => IInv'
<1> SUFFICES ASSUME IInv, [Next]_vars PROVE IInv'
  OBVIOUS
<1>1. CASE EditValues \/ Worsen \/ Mend
  BY <1>1, WorldStep
<1>2. CASE Update
  BY <1>2, StatValuesStep, OpenValuesStep, ReadValuesStep, ValidateValuesStep, ExportStep,
     WriteUnitStep, DaemonReloadStep, SwapStep, StopOthersStep, DisableOthersStep,
     EnableStep, RestartStep, WriteRecordStep, HaltsStep, ProbeStep DEF Update, Converge
<1>3. CASE \E n \in Names : Daemon(n) \/ Refresh(n) \/ Crash(n)
  BY <1>3, ParseFlagsStep, OpenStoreStep, StartMechanismsStep, BindStep, RespawnStep,
     RefreshStep, CrashStep DEF Daemon
<1>4. CASE UNCHANGED vars
  BY <1>4 DEF vars, systemd, IInv, TypeOK, TrustedRead, RenderTotal, AcceptedStarts,
              GivesUpFairly, Opened, Accepted, Launching, Current, Midway, Own, Done, Probing
<1> QED
  BY <1>1, <1>2, <1>3, <1>4 DEF Next


-----------------------------------------------------------------------------
(* The theorems. *)

\* The inductive invariant holds in every reachable state.
THEOREM Invariance == Spec => []IInv
BY IInvInit, IInvStep, PTL DEF Spec

\* The values file, the run, the unit texts and the processes keep their types.
THEOREM TypeCorrect == Spec => []TypeOK
<1>1. IInv => TypeOK
  BY DEF IInv
<1> QED
  BY <1>1, Invariance, PTL

\* Whatever replaces the values file while update looks at it, opens it and
\* checks it, what update goes on with was read from a file of its own.
THEOREM TrustedReadHolds == Spec => []TrustedRead
<1>1. IInv => TrustedRead
  BY DEF IInv
<1> QED
  BY <1>1, Invariance, PTL

\* No values file that Validate accepts makes the unit's rendering panic.
THEOREM RenderTotalHolds == Spec => []RenderTotal
<1>1. IInv => RenderTotal
  BY DEF IInv
<1> QED
  BY <1>1, Invariance, PTL

\* A daemon that update installed is turned away by its own command line for a
\* malformed listen or a climbing registry_git_vocab alone, for every values
\* file: apart from these two the daemon's checks ask no more than update's.
THEOREM AcceptedStartsHolds == Spec => []AcceptedStarts
<1>1. IInv => AcceptedStarts
  BY DEF IInv
<1> QED
  BY <1>1, Invariance, PTL

\* A daemon that serves has read every key its values file set, but for MCP
\* discovery's.
THEOREM NothingIgnoredHolds == Spec => []NothingIgnored
<1>1. IInv => NothingIgnored
  <2> SUFFICES ASSUME IInv, NEW n \in Names, daemon[n].pc = "serving"
               PROVE  Set(daemon[n].args, DaemonKeys) \subseteq
                        daemon[n].used \cup Idled(daemon[n].args)
    BY DEF NothingIgnored
  <2>1. Launchable(daemon[n].args) /\ Consulted(daemon[n])
    BY ProcessLaunchable DEF IInv
  <2> QED
    BY <2>1, LaunchableReads DEF Consulted
<1> QED
  BY <1>1, Invariance, PTL

\* Update exits 5 only after more attempts than its timeout has seconds, each of
\* which met a daemon that was not ready or not in time, or with a probe that
\* cannot reach it: for every timeout, the shortest included.
THEOREM GivesUpFairlyHolds == Spec => []GivesUpFairly
<1>1. IInv => GivesUpFairly
  BY DEF IInv
<1> QED
  BY <1>1, Invariance, PTL

\* A run that ends well does so by a probe that was answered.
LEMMA SucceedsAnswered ==
  ASSUME IInv, Next, Succeeds, update.given["readyz_url"] # "elsewhere"
  PROVE  \E n \in Names : Answers(update.given, n)
<1>1. Probe
  <2>1. update.pc = "probe" /\ update' # update
    BY DEF Succeeds
  <2>2. ~(EditValues \/ Worsen \/ Mend)
    BY <2>1 DEF EditValues, Worsen, Mend
  <2>3. ~(StatValues \/ OpenValues \/ ReadValues \/ ValidateValues \/ Export)
    BY <2>1 DEF At, StatValues, OpenValues, ReadValues, ValidateValues, Export
  <2>4. ~(WriteUnit \/ DaemonReload \/ Swap \/ StopOthers \/ DisableOthers)
    BY <2>1 DEF At, WriteUnit, DaemonReload, Swap, StopOthers, DisableOthers
  <2>5. ~(Enable \/ Restart \/ WriteRecord \/ Halts)
    BY <2>1 DEF At, Enable, Restart, WriteRecord, Halts
  <2>6. \A n \in Names : ~(Daemon(n) \/ Refresh(n) \/ Crash(n))
    BY <2>1 DEF Daemon, ParseFlags, OpenStore, StartMechanisms, Bind, Respawn, Refresh, Crash
  <2> QED
    BY <2>2, <2>3, <2>4, <2>5, <2>6 DEF Next, Update, Converge
<1>2. update \in Runs /\ update.pc = "probe"
  BY DEF IInv, TypeOK, Succeeds
<1>3. update' # Ended(update, ExitReadyz)
  <2>1. Ended(update, ExitReadyz).code = ExitReadyz
    BY <1>2 DEF Ended, Runs
  <2> QED
    BY <2>1 DEF Succeeds, ExitOK, ExitReadyz
<1>4. \A timely : ~Missed(timely)
  BY <1>2 DEF Missed, Succeeds, Runs
<1>5. TRUE \in Replies(update.given)
  BY <1>1, <1>3, <1>4, Zenon DEF Probe
<1> QED
  BY <1>5, Zenon DEF Replies

\* When update exits 0 the daemon of its unit serves with the flags it was
\* given, unless a run had changed that unit and stopped short of its restart, or
\* a rival unit or somebody else's URL answered for it.
THEOREM SucceedsTruthfullyHolds == Spec => SucceedsTruthfully
<1>1. IInv /\ [Next]_vars =>
        [Succeeds => \/ Serves(update.given)
                     \/ OwnUnit(update.given) \in halfway
                     \/ Rival(update.given)
                     \/ update.given["readyz_url"] = "elsewhere"]_vars
  <2> SUFFICES ASSUME IInv, Next, Succeeds, update.given["readyz_url"] # "elsewhere",
                      Own \notin halfway
               PROVE  Serves(update.given) \/ Rival(update.given)
    BY DEF Own
  <2>1. PICK n \in Names : Answers(update.given, n)
    BY SucceedsAnswered
  <2>2. CASE n = Own
    <3>1. unit[Own] = Rendered(update.given) /\ ~Midway
      BY DEF IInv, Done, Applying, Succeeds, Midway
    <3>2. daemon[Own].pc = "serving" => daemon[Own].args = unit[Own]
      BY <2>2, <3>1 DEF IInv, Current
    <3> QED
      BY <2>1, <2>2, <3>1, <3>2 DEF Answers, Serves, Own
  <2>3. CASE n # Own
    BY <2>1, <2>3 DEF Answers, Rival, Own
  <2> QED
    BY <2>2, <2>3
<1> QED
  BY <1>1, Invariance, PTL DEF Spec, SucceedsTruthfully

-----------------------------------------------------------------------------
(* What the way to a serving daemon rests on. *)

\* A process that reaches a stage is at that stage.
LEMMA ReachedStage ==
  ASSUME IInv, NEW n \in Names, NEW s, NEW keys, NEW serves, Reach(n, s, keys, serves)
  PROVE  daemon'[n].pc = s
BY DEF IInv, TypeOK, Reach, Become, Process

\* Nobody else has the port of a unit that is alone.
LEMMA AloneBinds ==
  ASSUME NEW n \in Names, Startable(n)
  PROVE  ~PortHeld(n)
<1>1. \A m \in Names \ {n} : daemon[m].pc # "serving"
  BY DEF Startable
<1> QED
  BY <1>1 DEF PortHeld

\* While its registry can be loaded, a unit that can start takes no step of its
\* own but one stage forward: the flags parse, the store opens, the mechanisms
\* start and the port is free, and after an exit it is started again.
LEMMA DaemonAdvances ==
  ASSUME IInv, NEW n \in Names, Startable(n), ~Climbs(daemon[n].args), Daemon(n)
  PROVE  <<daemon[n].pc, daemon'[n].pc>> \in
           {<<"exited", "flags">>, <<"flags", "store">>, <<"store", "mechanisms">>,
            <<"mechanisms", "bind">>, <<"bind", "serving">>}
<1>1. CASE ParseFlags(n)
  <2>0. daemon[n].pc = "flags" /\ Launchable(daemon[n].args)
    BY <1>1, ProcessLaunchable DEF ParseFlags, IInv
  <2>1. Reach(n, "store", {"registry_source", "log_level"}, "empty")
    BY <1>1, <2>0, LaunchableStarts DEF ParseFlags
  <2> QED
    BY <2>0, <2>1, ReachedStage
<1>2. CASE OpenStore(n)
  <2>0. daemon[n].pc = "store" /\ Launchable(daemon[n].args)
    BY <1>2, ProcessLaunchable DEF OpenStore, IInv
  <2>1. daemon[n].args["git_vocab"] # "climbing" /\ registry # "error"
    BY DEF Climbs, Startable
  <2>2. Reach(n, "mechanisms", ModeKeys[daemon[n].args["registry_source"]], registry)
    BY <1>2, <2>0, <2>1, LaunchableStarts DEF OpenStore
  <2> QED
    BY <2>0, <2>2, ReachedStage
<1>3. CASE StartMechanisms(n)
  <2>0. daemon[n].pc = "mechanisms" /\ Launchable(daemon[n].args)
    BY <1>3, ProcessLaunchable DEF StartMechanisms, IInv
  <2>1. Reach(n, "bind", MechanismKeys(daemon[n].args), daemon[n].serves)
    BY <1>3, <2>0, LaunchableStarts DEF StartMechanisms
  <2> QED
    BY <2>0, <2>1, ReachedStage
<1>4. CASE Bind(n)
  <2>0. daemon[n].pc = "bind" /\ daemon[n].args["listen"] # "malformed"
    BY <1>4 DEF Bind, Climbs
  <2>2. Reach(n, "serving", {"listen"}, daemon[n].serves)
    BY <1>4, <2>0, AloneBinds DEF Bind
  <2> QED
    BY <2>0, <2>2, ReachedStage
<1>5. CASE Respawn(n)
  BY <1>5 DEF Respawn, Become, Starting, Process, IInv, TypeOK
<1> QED
  BY <1>1, <1>2, <1>3, <1>4, <1>5 DEF Daemon

\* Every step of its own brings a daemon that can start nearer to serving, for
\* any values file that update accepts and whatever happened before: five such
\* steps with a registry that loads, and it serves.
THEOREM ComesNearerHolds == Spec => ComesNearer
<1> DEFINE Nearer ==
      \A n \in Names :
        Startable(n) /\ ~Climbs(daemon[n].args) /\ Daemon(n) =>
          Distance[daemon'[n].pc] = Distance[daemon[n].pc] - 1
<1>1. IInv /\ [Next]_vars => [Nearer]_vars
  <2> SUFFICES ASSUME IInv, NEW n \in Names, Startable(n), ~Climbs(daemon[n].args), Daemon(n)
               PROVE  Distance[daemon'[n].pc] = Distance[daemon[n].pc] - 1
    OBVIOUS
  <2> QED
    BY DaemonAdvances DEF Distance
<1> QED
  BY <1>1, Invariance, PTL DEF Spec, ComesNearer
=============================================================================
