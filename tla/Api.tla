-------------------------------- MODULE Api ---------------------------------
(***************************************************************************)
(* The HTTP API (internal/api/handlers.go) between the store it reads and  *)
(* the Go client that decodes its answers (client/go/client.go).           *)
(*                                                                         *)
(* The store is here what a handler can see of it: the registry it serves  *)
(* and, when it is a git store, the count of failed syncs.  A sync swaps   *)
(* the registry in and counts its success in two steps, and readyz reads   *)
(* the one and then the other; every other handler reads one registry once.*)
(***************************************************************************)
EXTENDS Routing

CONSTANTS
  Setups,              \* what main may have started: [git, auth], BOOLEAN each
  StaleFetchThreshold,
  Paths,               \* what may stand for a name at the end of a path
  TrimSuffix,          \* ... and what is left of it without ".json"
  Queries,             \* what may be asked of find: [intent, kind, after]
  Unset,               \* a parameter that is missing or empty
  Oversized,           \* values that ValidateFindParam refuses
  Failed, TimedOut,    \* what the client returns instead of agents
  None                 \* no argument, request, response or result

ASSUME SetupsAssumption == Setups \subseteq [git : BOOLEAN, auth : BOOLEAN]
ASSUME ThresholdAssumption == StaleFetchThreshold \in Nat \ {0}
ASSUME PathsAssumption == Names \subseteq Paths /\ TrimSuffix \in [Paths -> Paths]
ASSUME QueriesAssumption ==
  \A q \in Queries : q.intent \in Terms \cup Oversized \cup {Unset}

VARIABLES
  setup,      \* how main wired the handler
  registry,   \* the agents the served snapshot has
  swapped,    \* a sync has swapped its registry in and not yet counted itself
  failures,   \* failed syncs since the last success, up to the threshold
  at,         \* where the request in flight is: idle, asked, listed, answered
  request,    \* [route, arg, authorized]
  response,   \* [status, shape, agents]
  told,       \* what the last request brought the client that made it
  moments     \* of the readyz in flight: how the store has been since it came in

store == <<registry, swapped, failures>>
vars == <<setup, store, at, request, response, told, moments>>

Args == [agents |-> {None}, agent |-> Paths, card |-> Paths, find |-> Queries,
         healthz |-> {None}, readyz |-> {None}]
Routes == DOMAIN Args
Requests == UNION {[route : {r}, arg : Args[r], authorized : BOOLEAN] : r \in Routes}

Init ==
  /\ setup \in Setups
  /\ registry \in Registries
  /\ swapped = FALSE
  /\ failures = 0
  /\ at = "idle"
  /\ request = None
  /\ response = None
  /\ told = None
  /\ moments = {}

-----------------------------------------------------------------------------
(* What readyz reads. *)

Loaded(reg) == Agents(reg) # {}

\* Mutant: a failure too late.
Stale_Late(count) == count > StaleFetchThreshold

Stale(count) == count >= StaleFetchThreshold

\* How the store is: ready, or without agents or three failed syncs behind.
Moment(reg, count) == IF Loaded(reg) /\ count < StaleFetchThreshold THEN "ready" ELSE "unready"

\* A step of the store while a readyz request is in flight is part of what its
\* answer may be true of.
Observed(events) ==
  moments' = IF at \in {"asked", "listed"} /\ request.route = "readyz"
             THEN moments \cup {Moment(registry', failures')} \cup events
             ELSE moments

-----------------------------------------------------------------------------
(* The store (internal/store), as far as a handler can see it. *)

\* Another registry: one agent added, removed or changed.
Edited == \E n \in Names : \E c \in (Cards \cup {Missing}) \ {registry[n]} :
            registry' = [registry EXCEPT ![n] = c]

\* A file store reloads, and reports no syncs.
HotReload ==
  /\ ~setup.git
  /\ Edited
  /\ UNCHANGED <<setup, swapped, failures, at, request, response, told>>
  /\ Observed({})

\* syncNow puts a new snapshot in place ...
SyncSwap ==
  /\ setup.git /\ ~swapped
  /\ Edited
  /\ swapped' = TRUE
  /\ UNCHANGED <<setup, failures, at, request, response, told>>
  /\ Observed(IF Loaded(registry') THEN {} ELSE {"emptied"})

\* ... or finds the served one current; recordSync then counts from zero again.
SyncRecord ==
  /\ setup.git
  /\ swapped' = FALSE
  /\ failures' = 0
  /\ UNCHANGED <<setup, registry, at, request, response, told>>
  /\ Observed({})

\* syncNow fails, and recordSync counts it.
SyncFails ==
  /\ setup.git /\ ~swapped
  /\ failures < StaleFetchThreshold
  /\ failures' = failures + 1
  /\ UNCHANGED <<setup, registry, swapped, at, request, response, told>>
  /\ Observed({})

-----------------------------------------------------------------------------
(* Requests. *)

\* Someone sends a request.
Call ==
  /\ at = "idle"
  /\ at' = "asked"
  /\ request' \in Requests
  /\ told' = None
  /\ moments' = IF request'.route = "readyz" THEN {Moment(registry, failures)} ELSE {}
  /\ UNCHANGED <<setup, store, response>>

\* A handler writes its response.
Reply(status, shape, agents) ==
  /\ at' = "answered"
  /\ response' = [status |-> status, shape |-> shape, agents |-> agents]
  /\ UNCHANGED <<setup, store, request, told, moments>>

\* requireAuth: all routes but healthz ask for the token, if there is one.
Allowed == request.route = "healthz" \/ ~setup.auth \/ request.authorized

Refuse ==
  /\ at = "asked" /\ ~Allowed
  /\ Reply(401, "text", <<>>)

\* Register, and the handler of a route comes to run.
Turn(route) == at = "asked" /\ request.route = route /\ Allowed

Healthz ==
  /\ Turn("healthz")
  /\ Reply(200, "status", <<>>)

ListAgents ==
  /\ Turn("agents")
  /\ \E all \in SetToSeqs(Agents(registry)) : Reply(200, "array", all)

\* Mutant: an unknown name is answered like a known one.
GetAgent_Unchecked ==
  /\ Turn("agent")
  /\ Reply(200, "agent", <<request.arg>>)

GetAgent ==
  /\ Turn("agent")
  /\ IF request.arg \in Agents(registry)
     THEN Reply(200, "agent", <<request.arg>>)
     ELSE Reply(404, "error", <<>>)

AgentCard ==
  /\ Turn("card")
  /\ LET name == TrimSuffix[request.arg]
     IN  IF name \in Agents(registry)
         THEN Reply(200, "card", <<name>>)
         ELSE Reply(404, "error", <<>>)

\* The agents that declare a trigger, in any order: a Go map is ranged over.
FindByConversationKind(reg, kind) == SetToSeqs({n \in Agents(reg) : kind \in reg[n].kinds})

FindBySequencing(reg, afterAgent) == SetToSeqs({n \in Agents(reg) : afterAgent \in reg[n].afters})

\* What find may answer: the first parameter that is given decides.
Answers(reg, q) ==
  IF q.intent # Unset THEN FindByCapability(reg, {q.intent})
  ELSE IF q.kind # Unset THEN FindByConversationKind(reg, q.kind)
  ELSE FindBySequencing(reg, q.after)

\* Every parameter is checked, the ones that will not be used included.
Acceptable(q) ==
  LET given == {q.intent, q.kind, q.after}
  IN  given \cap Oversized = {} /\ given # {Unset}

FindRejects ==
  /\ Turn("find") /\ ~Acceptable(request.arg)
  /\ Reply(400, "error", <<>>)

\* Mutant: matches are written without the envelope.
Envelope_Bare(agents) == IF agents = <<>> THEN "envelope" ELSE "array"

\* findResult and emptyFindResult.
Envelope(agents) == "envelope"

Find ==
  /\ Turn("find") /\ Acceptable(request.arg)
  /\ \E agents \in Answers(registry, request.arg) : Reply(200, Envelope(agents), agents)

\* readyz looks for agents ...
ReadyzAgents ==
  /\ Turn("readyz")
  /\ IF Loaded(registry)
     THEN /\ at' = "listed"
          /\ UNCHANGED <<setup, store, request, response, told, moments>>
     ELSE Reply(503, "status", <<>>)

\* ... and then at the syncs, if the store reports any.
ReadyzSync ==
  /\ at = "listed"
  /\ Reply(IF setup.git /\ Stale(failures) THEN 503 ELSE 200, "status", <<>>)

-----------------------------------------------------------------------------
(* The Go client (client/go/client.go). *)

Target == [agents |-> "array", agent |-> "agent", find |-> "envelope"]

\* get: only a 200 is decoded.  JSON has no array where an object is expected
\* and no object where an array is; of another object nothing is taken.
Decode(route, resp) ==
  IF resp.status # 200 THEN Failed
  ELSE IF resp.shape = Target[route] THEN resp.agents
  ELSE IF "array" \in {resp.shape, Target[route]} THEN Failed
  ELSE <<>>

Done(result) ==
  /\ at' = "idle"
  /\ told' = result
  /\ request' = None
  /\ response' = None
  /\ moments' = {}
  /\ UNCHANGED <<setup, store>>

\* The response of a route the client has a method for is decoded by it.
Return ==
  /\ at = "answered"
  /\ Done(IF request.route \in DOMAIN Target THEN Decode(request.route, response) ELSE None)

\* The connection breaks, or ten seconds are over.
GiveUp ==
  /\ at # "idle"
  /\ Done(TimedOut)

Handle ==
  \/ Refuse \/ Healthz \/ ListAgents \/ GetAgent \/ AgentCard
  \/ FindRejects \/ Find \/ ReadyzAgents \/ ReadyzSync

Next ==
  \/ HotReload \/ SyncSwap \/ SyncRecord \/ SyncFails
  \/ Call \/ Handle \/ Return \/ GiveUp

Spec == Init /\ [][Next]_vars

-----------------------------------------------------------------------------
(* Properties. *)

\* Answers of the API: a known status, and agents by their names, each once.
TypeOK ==
  /\ setup \in Setups
  /\ registry \in Registries
  /\ swapped \in BOOLEAN
  /\ failures \in 0..StaleFetchThreshold
  /\ at \in {"idle", "asked", "listed", "answered"}
  /\ IF at = "idle" THEN request = None ELSE request \in Requests
  /\ at = "listed" => request.route = "readyz"
  /\ IF at = "answered"
     THEN /\ response.status \in {200, 400, 401, 404, 503}
          /\ ToSet(response.agents) \subseteq Names
          /\ IsInjective(response.agents)
     ELSE response = None
  /\ moments \subseteq {"ready", "unready", "emptied"}

\* A find by intent writes its answer.
FindsByIntent ==
  /\ at = "asked" /\ at' = "answered"
  /\ request.route = "find" /\ response'.status = 200
  /\ request.arg.intent # Unset

\* An answer that tiers 1 to 3 resolve is all the agents closest to the query
\* and no other, trusted ones first, whatever mixture of relations the registry
\* has ("an exact match is never diluted", match.go); one that they do not is no
\* longer than tier 4's limit.
ClosestRanked == [][
  FindsByIntent =>
    LET answer == response'.agents
        raw == {request.arg.intent}
    IN  IF Resolved(registry, raw)
        THEN /\ ToSet(answer) = Closest(registry, raw)
             /\ \A i, j \in 1..Len(answer) : i < j => Before(registry, answer[i], answer[j])
        ELSE Len(answer) <= BM25TopN]_vars

\* Agents whose texts score alike stand in the order of rankAgents, so that the
\* same query has the same answer ("ties broken by rankAgents (canonical trust
\* label, then name) for determinism", bm25.go).
TiesRanked == [][
  FindsByIntent /\ ~Resolved(registry, {request.arg.intent}) =>
    LET answer == response'.agents
        words == WordsOf[request.arg.intent]
    IN  \A i, j \in 1..Len(answer) :
          i < j /\ registry[answer[i]].words \cap words = registry[answer[j]].words \cap words
            => Before(registry, answer[i], answer[j])]_vars

\* readyz answers for a moment of the request: 200 says that the store then had
\* agents and was not stale, unless a sync took the last agent away between the
\* two reads, and 503 that it then was not ready, although the agents and the
\* count of failures are read apart and a sync changes them one after the other.
ReadyHonest ==
  at = "answered" /\ request.route = "readyz" =>
    /\ response.status = 200 => moments \cap {"ready", "emptied"} # {}
    /\ response.status = 503 => "unready" \in moments

\* What a request in flight rests on: the store's present state is among its
\* moments; past the first read of readyz either it has been ready, or a sync
\* has emptied it, or it still has agents and is stale; a file store never is;
\* and a response has the shape the client expects of its route.
IInv ==
  /\ setup \in Setups
  /\ failures \in Nat
  /\ ~setup.git => failures = 0
  /\ at \in {"idle", "asked", "listed", "answered"}
  /\ at \in {"asked", "listed"} /\ request.route = "readyz" => Moment(registry, failures) \in moments
  /\ at = "listed" =>
       /\ request.route = "readyz"
       /\ \/ moments \cap {"ready", "emptied"} # {}
          \/ Loaded(registry) /\ failures >= StaleFetchThreshold
  /\ at = "answered" /\ request.route \in DOMAIN Target /\ response.status = 200 =>
       response.shape = Target[request.route]
  /\ ReadyHonest

\* The Go client reads every answer for what it is: agents when the server
\* found the query acceptable, the match and the miss alike, and an error only
\* when the server sent one or the connection broke.
ClientTold == [][
  at = "answered" /\ at' = "idle" /\ request.route \in DOMAIN Target =>
    \/ told' = TimedOut
    \/ told' = (IF response.status = 200 THEN response.agents ELSE Failed)]_vars
=============================================================================
