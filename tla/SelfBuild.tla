----------------------------- MODULE SelfBuild ------------------------------
(***************************************************************************)
(* The self-build mechanisms (internal/selfbuild): a source watcher and a  *)
(* usage inference run as goroutines of the daemon, "inspect" is a command *)
(* of its own; all of them write proposals into one directory, under a     *)
(* file name made of the agent and the second.  An operator reads them.    *)
(*                                                                         *)
(* Time goes by in ticks of one second, between any two steps.  What the   *)
(* memory API, the event store and the registry answer is the              *)
(* environment's choice, within what the code asks of them.                *)
(***************************************************************************)
EXTENDS Naturals, Sequences

CONSTANTS
  Agents,      \* agent names
  NoAgent,     \* an event that is of no agent definition file
  FileNames,   \* agent names once sanitized, the stems of file names
  FileName,    \* the one each agent has
  Pairs,       \* <<actor, next actor>> sequences that may be observed
  Registries,  \* what hot reloads may bring: the pairs a registry registers
  Window,      \* SourceWatchConfig.RateWindow, in ticks
  NoFile,      \* no file of that name was written this second
  Redelivers,  \* the memory API answers with old events too (it gets no cursor)
  Mixes,       \* the sets of mechanisms that may be in use together
  MaxEvents    \* bound: the length of the file-diff stream

ASSUME NamesAssumption ==
  /\ NoAgent \notin Agents
  /\ NoFile \notin FileNames
  /\ FileName \in [Agents -> FileNames]
ASSUME PairsAssumption ==
  Pairs \subseteq Agents \X Agents /\ Registries \subseteq SUBSET Pairs
ASSUME BoundsAssumption == Window \in Nat /\ Window > 0 /\ MaxEvents \in Nat
ASSUME SwitchAssumption ==
  Redelivers \in BOOLEAN /\ Mixes \subseteq SUBSET {"watch", "usage", "inspect"}

VARIABLES
  mix,      \* the mechanisms in use, for good
  stream,   \* the memory API's file-diff events: the agent each is about
  registry, \* the pairs the served registry registers
  today,    \* the proposal each file name has that was written this second
  age,      \* ticks since lastSeen[agent], up to Window; Window if never
  watch,    \* the source watcher: where it is, the events it has and has had
  usage,    \* the usage inference: where it is, what it has to look up or write
  \* History, read by the properties alone:
  written,  \* proposals ever written
  lost,     \* those whose file another one replaced
  gap,      \* ticks since the watcher wrote for each agent, up to Window
  served,   \* the observed pairs, and the registries served, in this analysis
  parity    \* whether the daemon has been restarted an odd number of times

vars == <<mix, stream, registry, today, age, watch, usage, written, lost, gap, served, parity>>
disk == <<today, written, lost>>

\* An event is known by its agent and its place in the stream.
Events == Agents \X (1..MaxEvents)

Proposals == [source : {"watch", "usage", "inspect"}, agent : Agents,
              about : SUBSET (Events \cup Pairs)]

TypeOK ==
  /\ mix \in Mixes
  /\ stream \in Seq(Agents \cup {NoAgent}) /\ Len(stream) <= MaxEvents
  /\ registry \in Registries
  /\ today \in [FileNames -> written \cup {NoFile}]
  /\ age \in [Agents -> 0..Window]
  /\ watch \in [pc : {"idle", "event", "mark"}, next : 1..(MaxEvents + 1),
                upto : 0..MaxEvents, had : 0..MaxEvents]
  /\ usage \in [pc : {"idle", "lookup", "write"}, todo : SUBSET Pairs, drift : SUBSET Pairs]
  /\ written \subseteq Proposals
  /\ lost \subseteq written
  /\ gap \in [Agents -> 0..Window]
  /\ served \in [observed : SUBSET Pairs, registries : SUBSET Registries]
  /\ parity \in BOOLEAN

Resting == [pc |-> "idle", next |-> 1, upto |-> 0, had |-> 0]
NoAnalysis == [pc |-> "idle", todo |-> {}, drift |-> {}]
NothingServed == [observed |-> {}, registries |-> {}]

Init ==
  /\ mix \in Mixes
  /\ stream = <<>>
  /\ registry \in Registries
  /\ today = [n \in FileNames |-> NoFile]
  /\ age = [a \in Agents |-> Window]
  /\ watch = Resting
  /\ usage = NoAnalysis
  /\ written = {} /\ lost = {}
  /\ gap = [a \in Agents |-> Window]
  /\ served = NothingServed
  /\ parity = FALSE

-----------------------------------------------------------------------------
(* The environment. *)

\* A file is edited: the memory API has one more event.  (Only the watcher asks.)
Edit ==
  /\ "watch" \in mix
  /\ Len(stream) < MaxEvents
  /\ \E a \in Agents \cup {NoAgent} : stream' = Append(stream, a)
  /\ UNCHANGED <<registry, disk, age, watch, usage, gap, served, parity>>

\* The store reloads.  (Only the usage inference asks it.)
HotReload ==
  /\ "usage" \in mix
  /\ registry' \in Registries \ {registry}
  /\ served' = IF usage.pc = "idle" THEN served
               ELSE [served EXCEPT !.registries = @ \cup {registry'}]
  /\ UNCHANGED <<stream, disk, age, watch, usage, gap, parity>>

\* One tick older, up to the window.
Older(n) == IF n < Window THEN n + 1 ELSE n

Tick ==
  /\ today' = [n \in FileNames |-> NoFile]
  /\ age' = [a \in Agents |-> Older(age[a])]
  /\ gap' = [a \in Agents |-> Older(gap[a])]
  /\ UNCHANGED <<stream, registry, watch, usage, written, lost, served, parity>>

\* The daemon restarts: lastSeen is gone, and the tickers of both loops fire
\* only after their intervals, of a second or more.
Restart ==
  /\ today' = [n \in FileNames |-> NoFile]
  /\ age' = [a \in Agents |-> Window]
  /\ gap' = [a \in Agents |-> Window]
  /\ watch' = [Resting EXCEPT !.had = watch.had]
  /\ usage' = NoAnalysis
  /\ served' = NothingServed
  /\ parity' = ~parity
  /\ UNCHANGED <<stream, registry, written, lost>>

-----------------------------------------------------------------------------
(* writer.go *)

\* WriteProposedChange: os.WriteFile replaces a file that has the name.
Put(p) ==
  LET name == FileName[p.agent]
  IN  /\ today' = [today EXCEPT ![name] = p]
      /\ written' = written \cup {p}
      /\ lost' = (lost \cup ({today[name]} \ {NoFile})) \ {p}

-----------------------------------------------------------------------------
(* sourcewatch.go *)

\* Mutant: the watcher asks only for events it has not had.
First_Cursor == watch.had + 1

\* The first event the memory API answers with.
First == IF Redelivers THEN 1 ELSE watch.had + 1

\* poll: the events are fetched and decoded.  (When that fails, nothing is done.)
Poll ==
  /\ "watch" \in mix
  /\ watch.pc = "idle"
  /\ watch' = [pc |-> "event", next |-> First, upto |-> Len(stream), had |-> Len(stream)]
  /\ UNCHANGED <<stream, registry, disk, age, usage, gap, served, parity>>

AtEvent == watch.pc = "event" /\ watch.next <= watch.upto
Agent == stream[watch.next]
NextEvent == watch' = [watch EXCEPT !.pc = "event", !.next = @ + 1]

\* Mutant: the window ends a tick early.
Fresh_Early(a) == age[a] + 1 >= Window

\* Not isDupe: no proposal of the watcher for the agent within the window.
Fresh(a) == age[a] >= Window

\* Not an agent definition file, no agent to be made out, or a duplicate.
Skip ==
  /\ AtEvent
  /\ Agent \in Agents => ~Fresh(Agent)
  /\ NextEvent
  /\ UNCHANGED <<stream, registry, disk, age, usage, gap, served, parity>>

\* A proposal derived from this event alone is written, ...
Propose ==
  /\ AtEvent
  /\ Agent \in Agents /\ Fresh(Agent)
  /\ Put([source |-> "watch", agent |-> Agent, about |-> {<<Agent, watch.next>>}])
  /\ watch' = [watch EXCEPT !.pc = "mark"]
  /\ gap' = [gap EXCEPT ![Agent] = 0]
  /\ UNCHANGED <<stream, registry, age, usage, served, parity>>

\* Mutant: the time is noted although nothing was written.
ProposeFails_Marked ==
  /\ AtEvent
  /\ Agent \in Agents /\ Fresh(Agent)
  /\ age' = [age EXCEPT ![Agent] = 0]
  /\ NextEvent
  /\ UNCHANGED <<stream, registry, disk, usage, gap, served, parity>>

\* (or the file cannot be written, which is logged) ...
ProposeFails ==
  /\ AtEvent
  /\ Agent \in Agents /\ Fresh(Agent)
  /\ NextEvent
  /\ UNCHANGED <<stream, registry, disk, age, usage, gap, served, parity>>

\* Mutant: the time is not noted.
MarkSeen_Never ==
  /\ watch.pc = "mark"
  /\ NextEvent
  /\ UNCHANGED <<stream, registry, disk, age, usage, gap, served, parity>>

\* ... and markSeen notes the time.
MarkSeen ==
  /\ watch.pc = "mark"
  /\ age' = [age EXCEPT ![Agent] = 0]
  /\ NextEvent
  /\ UNCHANGED <<stream, registry, disk, usage, gap, served, parity>>

EventsDone ==
  /\ watch.pc = "event"
  /\ watch.next > watch.upto
  /\ watch' = [Resting EXCEPT !.had = watch.had]
  /\ UNCHANGED <<stream, registry, disk, age, usage, gap, served, parity>>

-----------------------------------------------------------------------------
(* usage.go *)

\* analyze: the events of the window are fetched and aggregated.
Fetch ==
  /\ "usage" \in mix
  /\ usage.pc = "idle"
  /\ \E observed \in SUBSET Pairs :
       /\ usage' = [pc |-> "lookup", todo |-> observed, drift |-> {}]
       /\ served' = [observed |-> observed, registries |-> {registry}]
  /\ UNCHANGED <<stream, registry, disk, age, watch, gap, parity>>

\* Mutant: the lookup asks who comes before, not who comes after.
Registered_Swapped(p) == <<p[2], p[1]>> \in registry

\* isRegistered, through FindBySequencing of the served registry.
Registered(p) == p \in registry

\* emitDrift looks the pairs up one by one, each in what is served then.
LookUp ==
  /\ usage.pc = "lookup"
  /\ \E p \in usage.todo :
       usage' = [usage EXCEPT !.todo = @ \ {p},
                              !.drift = IF Registered(p) THEN @ ELSE @ \cup {p}]
  /\ UNCHANGED <<stream, registry, disk, age, watch, gap, served, parity>>

LookedUp ==
  /\ usage.pc = "lookup"
  /\ usage.todo = {}
  /\ usage' = [usage EXCEPT !.pc = "write"]
  /\ UNCHANGED <<stream, registry, disk, age, watch, gap, served, parity>>

DriftOf(a) == {p \in usage.drift : p[1] = a}

\* One report for each actor with drift, in no order.
Report ==
  /\ usage.pc = "write"
  /\ \E a \in Agents :
       /\ DriftOf(a) # {}
       /\ usage' = [usage EXCEPT !.drift = @ \ DriftOf(a)]
       /\ \/ Put([source |-> "usage", agent |-> a, about |-> DriftOf(a)])
          \/ UNCHANGED disk
  /\ UNCHANGED <<stream, registry, age, watch, gap, served, parity>>

Reported ==
  /\ usage.pc = "write"
  /\ usage.drift = {}
  /\ usage' = NoAnalysis
  /\ served' = NothingServed
  /\ UNCHANGED <<stream, registry, disk, age, watch, gap, parity>>

-----------------------------------------------------------------------------
(* mcp.go: somebody runs "inspect" for an agent; the tools list is fetched. *)
Inspect ==
  /\ "inspect" \in mix
  /\ \E a \in Agents : Put([source |-> "inspect", agent |-> a, about |-> {}])
  /\ UNCHANGED <<stream, registry, age, watch, usage, gap, served, parity>>

-----------------------------------------------------------------------------
WatchStep == Poll \/ Skip \/ Propose \/ ProposeFails \/ MarkSeen \/ EventsDone
UsageStep == Fetch \/ LookUp \/ LookedUp \/ Report \/ Reported

Next ==
  /\ UNCHANGED mix
  /\ \/ Edit \/ HotReload \/ Tick \/ Restart
     \/ WatchStep \/ UsageStep \/ Inspect

Spec == Init /\ [][Next]_vars

(***************************************************************************)
(* The watcher keeps polling and going through its events (WF), time goes  *)
(* by (WF), and writes for an agent do not fail for ever (SF).             *)
(* Nothing is assumed of restarts or of anybody's edits.                   *)
(***************************************************************************)
FairSpec ==
  /\ Spec
  /\ WF_vars(UNCHANGED mix /\ WatchStep) /\ WF_vars(UNCHANGED mix /\ Tick)
  /\ \A a \in Agents : SF_vars(UNCHANGED mix /\ Propose /\ Agent = a)

-----------------------------------------------------------------------------
(* What the mechanisms promise. *)

\* A proposal the watcher has written is on disk until an operator takes it:
\* where it works alone, none is replaced by another (SELF-BUILD.md: one file
\* per agent and timestamp, read and removed by an operator).
Kept == mix = {"watch"} => lost = {}

\* Within one life of the daemon the watcher writes for an agent at most once
\* per window, whatever polls answer and however long its steps take.
RateLimited ==
  [][\A a \in Agents : gap'[a] = 0 /\ gap[a] # 0 => gap[a] >= Window]_vars

\* What an analysis is about to report was unregistered in a registry served
\* meanwhile, and it misses no observed pair that every registry served
\* meanwhile lacks, however hot reloads fall between its lookups.
DriftExact ==
  /\ \A p \in usage.drift :
       p \in served.observed /\ \E R \in served.registries : p \notin R
  /\ usage.pc = "lookup" =>
       \A p \in served.observed \ usage.todo :
         (\A R \in served.registries : p \notin R) => p \in usage.drift

\* Where the watcher is: the event it is at, or has just proposed for, is one
\* it was given.
Watching ==
  /\ watch.pc # "idle" => watch.upto <= Len(stream)
  /\ watch.pc = "mark" => watch.next <= watch.upto /\ Agent \in Agents

\* lastSeen is no older than the last proposal of the agent, ...
Marking(a) == watch.pc = "mark" /\ Agent = a
Aging == \A a \in Agents : age[a] <= gap[a] \/ Marking(a)

\* ... and as young as the agent's file of this second, if there is one: but for
\* the proposal yet to be marked.
Posting ==
  mix = {"watch"} => \A a \in Agents : today[FileName[a]] = NoFile \/ age[a] = 0 \/ Marking(a)

\* An analysis goes by registries that were served meanwhile, today's included.
Analysing ==
  /\ usage.pc = "idle" => usage.todo = {} /\ usage.drift = {}
  /\ usage.pc # "idle" => "usage" \in mix /\ registry \in served.registries
  /\ usage.todo \subseteq served.observed

\* An agent is held back within a window only for a proposal that was written:
\* no failed write, no batch given up halfway and no restart costs an agent its
\* turn.  (The safety half of AgentsProposed.)
Proposed(a) == \E p \in written : p.source = "watch" /\ p.agent = a
HeldBack == \A a \in Agents : ~Fresh(a) \/ Marking(a) => Proposed(a)

\* A poll's events of an agent without any proposal are each tried, and passed
\* over only by a write that fails; and a poll whose answer has old events
\* begins with the first there ever was.
NothingPassedOver ==
  [][/\ \A a \in Agents :
          AtEvent /\ Agent = a /\ ~Proposed(a) /\ watch' # watch /\ parity' = parity =>
            Propose \/ ProposeFails
     /\ Redelivers /\ watch.pc = "idle" /\ watch'.pc # "idle" =>
          watch'.next = 1 /\ watch'.upto = Len(stream)]_vars

\* The inductive invariant of the proofs; with file names that tell the agents
\* apart, Posting and Kept join it.
IInv == TypeOK /\ Watching /\ Aging /\ Analysing /\ DriftExact

\* An agent whose definition file was edited gets a proposal in the end, even
\* when writes fail at first, as long as the daemon is not restarted for ever.
AgentsProposed ==
  "watch" \in mix /\ <>[][FALSE]_parity =>
    \A a \in Agents :
      (\E i \in DOMAIN stream : stream[i] = a) ~> Proposed(a)
=============================================================================
