----------------------------- MODULE ApiProofs ------------------------------
(***************************************************************************)
(* Proofs about Api, for every registry, vocabulary and query: what a find *)
(* is answered with, what readyz says, and what the client reads.          *)
(***************************************************************************)
EXTENDS Api, RoutingProofs

-----------------------------------------------------------------------------
(* Requests. *)

USE ThresholdAssumption, SetupsAssumption

\* Nothing is in flight at first.
LEMMA InitInv == Init => IInv
BY DEF Init, IInv, ReadyHonest

\* A step of the store only adds to the moments of a readyz in flight, among
\* them the state it leads to.
LEMMA ObservedFacts ==
  ASSUME NEW events, Observed(events), at \in {"asked", "listed"}, request.route = "readyz"
  PROVE  /\ Moment(registry', failures') \in moments'
         /\ moments \subseteq moments'
         /\ events \subseteq moments'
BY DEF Observed

\* What no step of the store changes.
Mine == <<setup, at, request, response, told>>

\* A step of the store keeps the invariant, if the count stays a number, stays
\* 0 without git, and a stale store with agents stays one, or becomes ready, or
\* is seen to be emptied.
LEMMA StoreStep ==
  ASSUME IInv, NEW events, UNCHANGED Mine, Observed(events),
         failures' \in Nat, ~setup.git => failures' = 0,
         Loaded(registry) /\ failures >= StaleFetchThreshold =>
              \/ Loaded(registry') /\ failures' >= StaleFetchThreshold
              \/ Moment(registry', failures') = "ready"
              \/ "emptied" \in events
  PROVE  IInv'
<1>1. at' \in {"idle", "asked", "listed", "answered"} /\ setup' \in Setups
  BY DEF IInv, Mine
<1>2. at' \in {"asked", "listed"} /\ request'.route = "readyz" =>
        Moment(registry', failures') \in moments'
  BY ObservedFacts DEF Mine
<1>3. ASSUME at' = "listed"
      PROVE  /\ request'.route = "readyz"
             /\ \/ moments' \cap {"ready", "emptied"} # {}
                \/ Loaded(registry') /\ failures' >= StaleFetchThreshold
  <2>1. at = "listed" /\ request.route = "readyz" /\ request' = request
    BY <1>3 DEF IInv, Mine
  <2>2. /\ Moment(registry', failures') \in moments'
        /\ moments \subseteq moments' /\ events \subseteq moments'
    BY <2>1, ObservedFacts
  <2>3. CASE moments \cap {"ready", "emptied"} # {}
    BY <2>1, <2>2, <2>3
  <2>4. CASE Loaded(registry) /\ failures >= StaleFetchThreshold
    BY <2>1, <2>2, <2>4
  <2> QED BY <2>1, <2>3, <2>4 DEF IInv
<1>4. /\ at' = "answered" /\ request'.route \in DOMAIN Target /\ response'.status = 200 =>
           response'.shape = Target[request'.route]
      /\ ReadyHonest'
  <2>1. CASE at = "answered"
    <3>1. moments' = moments
      BY <2>1 DEF Observed
    <3> QED BY <3>1 DEF IInv, ReadyHonest, Mine
  <2>2. CASE at # "answered"
    BY <2>2 DEF ReadyHonest, Mine
  <2> QED BY <2>1, <2>2
<1> QED BY <1>1, <1>2, <1>3, <1>4 DEF IInv, Mine

\* A response keeps the invariant when its shape is the route's and, of readyz,
\* when it is true of some moment.
LEMMA ReplyStep ==
  ASSUME IInv, at \in {"asked", "listed"}, NEW status, NEW shape, NEW agents,
         Reply(status, shape, agents),
         request.route \in DOMAIN Target /\ status = 200 => shape = Target[request.route],
         request.route = "readyz" =>
           /\ status = 200 => moments \cap {"ready", "emptied"} # {}
           /\ status = 503 => "unready" \in moments
  PROVE  IInv'
<1>1. /\ at' = "answered" /\ response'.status = status /\ response'.shape = shape
      /\ request' = request /\ moments' = moments
      /\ setup' = setup /\ failures' = failures
  BY DEF Reply, store
<1> QED BY <1>1 DEF IInv, ReadyHonest

\* The end of a request leaves nothing in flight.
LEMMA DoneStep ==
  ASSUME IInv, NEW result, Done(result)
  PROVE  IInv'
BY DEF IInv, ReadyHonest, Done, store

\* Every step keeps the invariant.
LEMMA NextInv == IInv /\ [Next]_vars => IInv'
<1> SUFFICES ASSUME IInv, [Next]_vars PROVE IInv'
  OBVIOUS
<1>1. CASE HotReload
  <2>1. /\ UNCHANGED Mine /\ Observed({}) /\ failures' = failures /\ ~setup.git
    BY <1>1 DEF HotReload, Mine
  <2>2. failures' \in Nat /\ failures' = 0 /\ failures = 0 /\ ~(failures >= StaleFetchThreshold)
    BY <2>1 DEF IInv
  <2> QED BY <2>1, <2>2, StoreStep
<1>2. CASE SyncSwap
  <2> DEFINE events == IF Loaded(registry') THEN {} ELSE {"emptied"}
  <2>1. /\ UNCHANGED Mine /\ Observed(events) /\ failures' = failures /\ setup.git
    BY <1>2 DEF SyncSwap, Mine
  <2>2. failures' \in Nat
    BY <2>1 DEF IInv
  <2>3. Loaded(registry') \/ "emptied" \in events
    OBVIOUS
  <2> HIDE DEF events
  <2>4. Loaded(registry) /\ failures >= StaleFetchThreshold =>
          \/ Loaded(registry') /\ failures' >= StaleFetchThreshold
          \/ "emptied" \in events
    BY <2>1, <2>3
  <2> QED BY <2>1, <2>2, <2>4, StoreStep
<1>3. CASE SyncRecord
  <2>1. /\ UNCHANGED Mine /\ Observed({}) /\ failures' = 0 /\ registry' = registry /\ setup.git
    BY <1>3 DEF SyncRecord, Mine
  <2>2. Loaded(registry) => Moment(registry', failures') = "ready"
    BY <2>1 DEF Moment
  <2>3. failures' \in Nat
    BY <2>1
  <2> QED BY <2>1, <2>2, <2>3, StoreStep
<1>4. CASE SyncFails
  <2>1. /\ UNCHANGED Mine /\ Observed({}) /\ registry' = registry /\ setup.git
    BY <1>4 DEF SyncFails, Mine
  <2>2. failures' \in Nat /\ (failures >= StaleFetchThreshold => failures' >= StaleFetchThreshold)
    BY <1>4 DEF SyncFails, IInv
  <2> QED BY <2>1, <2>2, StoreStep
<1>5. CASE Call
  <2>1. /\ at' = "asked" /\ setup' = setup /\ failures' = failures /\ registry' = registry
        /\ request'.route = "readyz" => Moment(registry, failures) \in moments'
    BY <1>5 DEF Call, store
  <2> QED BY <2>1 DEF IInv, ReadyHonest
<1>6. CASE Refuse
  BY <1>6, ReplyStep DEF Refuse
<1>7. CASE Healthz
  BY <1>7, ReplyStep DEF Healthz, Turn, Target
<1>8. CASE ListAgents
  BY <1>8, ReplyStep DEF ListAgents, Turn, Target
<1>9. CASE GetAgent
  <2>1. CASE request.arg \in Agents(registry)
    BY <1>9, <2>1, ReplyStep DEF GetAgent, Turn, Target
  <2>2. CASE request.arg \notin Agents(registry)
    BY <1>9, <2>2, ReplyStep DEF GetAgent, Turn, Target
  <2> QED BY <2>1, <2>2
<1>10. CASE AgentCard
  <2>1. CASE TrimSuffix[request.arg] \in Agents(registry)
    BY <1>10, <2>1, ReplyStep DEF AgentCard, Turn, Target
  <2>2. CASE TrimSuffix[request.arg] \notin Agents(registry)
    BY <1>10, <2>2, ReplyStep DEF AgentCard, Turn, Target
  <2> QED BY <2>1, <2>2
<1>11. CASE FindRejects
  BY <1>11, ReplyStep DEF FindRejects, Turn
<1>12. CASE Find
  BY <1>12, ReplyStep DEF Find, Turn, Target, Envelope
<1>13. CASE ReadyzAgents
  <2>1. at = "asked" /\ request.route = "readyz" /\ Moment(registry, failures) \in moments
    BY <1>13 DEF ReadyzAgents, Turn, IInv
  <2>2. CASE Loaded(registry)
    <3>1. /\ at' = "listed" /\ request' = request /\ moments' = moments
          /\ setup' = setup /\ registry' = registry /\ failures' = failures
      BY <1>13, <2>2 DEF ReadyzAgents, store
    <3>2. CASE failures >= StaleFetchThreshold
      BY <2>1, <2>2, <3>1, <3>2 DEF IInv, ReadyHonest
    <3>3. CASE ~(failures >= StaleFetchThreshold)
      <4>1. failures < StaleFetchThreshold
        BY <3>3 DEF IInv
      <4>2. "ready" \in moments
        BY <2>1, <2>2, <4>1 DEF Moment
      <4> QED BY <2>1, <3>1, <4>2 DEF IInv, ReadyHonest
    <3> QED BY <3>2, <3>3
  <2>3. CASE ~Loaded(registry)
    <3>1. "unready" \in moments
      BY <2>1, <2>3 DEF Moment
    <3>2. Reply(503, "status", <<>>)
      BY <1>13, <2>3 DEF ReadyzAgents
    <3> QED BY <2>1, <3>1, <3>2, ReplyStep DEF Target
  <2> QED BY <2>2, <2>3
<1>14. CASE ReadyzSync
  <2>1. at = "listed" /\ request.route = "readyz" /\ Moment(registry, failures) \in moments
    BY <1>14 DEF ReadyzSync, IInv
  <2>2. CASE setup.git /\ Stale(failures)
    <3>1. "unready" \in moments
      BY <2>1, <2>2 DEF Moment, Stale, IInv
    <3>2. Reply(503, "status", <<>>)
      BY <1>14, <2>2 DEF ReadyzSync
    <3> QED BY <2>1, <3>1, <3>2, ReplyStep DEF Target
  <2>3. CASE ~(setup.git /\ Stale(failures))
    <3>1. ~(failures >= StaleFetchThreshold)
      BY <2>3 DEF Stale, IInv
    <3>2. moments \cap {"ready", "emptied"} # {}
      BY <2>1, <3>1 DEF IInv
    <3>3. Reply(200, "status", <<>>)
      BY <1>14, <2>3 DEF ReadyzSync
    <3> QED BY <2>1, <3>2, <3>3, ReplyStep DEF Target
  <2> QED BY <2>2, <2>3
<1>15. CASE Return
  BY <1>15, DoneStep DEF Return
<1>16. CASE GiveUp
  BY <1>16, DoneStep DEF GiveUp
<1>17. CASE UNCHANGED vars
  BY <1>17 DEF vars, store, IInv, ReadyHonest
<1> QED
  BY <1>1, <1>2, <1>3, <1>4, <1>5, <1>6, <1>7, <1>8, <1>9, <1>10, <1>11, <1>12, <1>13,
     <1>14, <1>15, <1>16, <1>17 DEF Next, Handle

\* The invariant holds in every reachable state.
THEOREM Invariance == Spec => []IInv
<1> QED BY InitInv, NextInv, PTL DEF Spec

\* readyz answers for a moment of the request, however the syncs fall between
\* its two reads.
THEOREM ReadyHonestHolds == Spec => []ReadyHonest
<1>1. IInv => ReadyHonest
  BY DEF IInv
<1> QED BY <1>1, Invariance, PTL

\* A step from a response to an idle API hands the client what the response
\* says, or breaks off.
LEMMA TellStep ==
  ASSUME IInv, [Next]_vars, at = "answered", at' = "idle", request.route \in DOMAIN Target
  PROVE  \/ told' = TimedOut
         \/ told' = (IF response.status = 200 THEN response.agents ELSE Failed)
<1>1. Return \/ GiveUp
  BY DEF Next, vars, Handle, HotReload, SyncSwap, SyncRecord, SyncFails, Call, Refuse, Healthz,
         ListAgents, GetAgent, AgentCard, FindRejects, Find, ReadyzAgents, ReadyzSync, Reply, Turn
<1>2. CASE Return
  <2>1. told' = Decode(request.route, response)
    BY <1>2 DEF Return, Done
  <2>2. response.status = 200 => response.shape = Target[request.route]
    BY DEF IInv
  <2> QED BY <2>1, <2>2 DEF Decode
<1>3. CASE GiveUp
  BY <1>3 DEF GiveUp, Done
<1> QED BY <1>1, <1>2, <1>3

\* The client reads agents from every 200, of a match and of a miss, and fails on
\* nothing else.
THEOREM ClientToldHolds == Spec => ClientTold
<1>1. IInv /\ [Next]_vars => [at = "answered" /\ at' = "idle" /\ request.route \in DOMAIN Target =>
        \/ told' = TimedOut
        \/ told' = (IF response.status = 200 THEN response.agents ELSE Failed)]_vars
  BY TellStep
<1> QED BY <1>1, Invariance, PTL DEF Spec, ClientTold

-----------------------------------------------------------------------------
(* Answers. *)

\* A request goes to a route of the API, with an argument of that route.
LEMMA RequestFacts ==
  ASSUME NEW r \in Requests
  PROVE  r.route \in Routes /\ r.arg \in Args[r.route] /\ r.authorized \in BOOLEAN
BY DEF Requests

\* A find that is let through and gives an intent gives a term.
LEMMA IntentIsTerm ==
  ASSUME NEW q \in Queries, Acceptable(q), q.intent # Unset
  PROVE  q.intent \in Terms
BY QueriesAssumption DEF Acceptable

\* An answer to a find by intent names agents of the registry, each once.  What
\* tiers 1 to 3 resolve is ranked, and what tier 4 says is not too long.
LEMMA IntentAnswer ==
  ASSUME NEW reg \in Registries, NEW intent \in Terms,
         NEW answer \in FindByCapability(reg, {intent})
  PROVE  /\ ToSet(answer) \subseteq Agents(reg)
         /\ IsInjective(answer)
         /\ IF Resolved(reg, {intent})
            THEN /\ ToSet(answer) = Closest(reg, {intent})
                 /\ \A i, j \in 1..Len(answer) : i < j => Before(reg, answer[i], answer[j])
            ELSE Len(answer) <= BM25TopN
<1>0. {intent} \in SUBSET Terms
  OBVIOUS
<1>1. CASE Resolved(reg, {intent})
  <2>1. Closest(reg, {intent}) \subseteq Agents(reg)
    BY DEF Closest
  <2> QED BY <1>0, <1>1, <2>1, ClosestInRank
<1>2. CASE ~Resolved(reg, {intent})
  <2>1. answer \in Bm25Fallback(reg, {intent})
    BY <1>0, <1>2, Unrelated
  <2>2. {n \in Agents(reg) : reg[n].words \cap WordsOf[intent] # {}} \subseteq Agents(reg)
    OBVIOUS
  <2>3. /\ ToSet(answer) \subseteq {n \in Agents(reg) : reg[n].words \cap WordsOf[intent] # {}}
        /\ IsInjective(answer)
        /\ Len(answer) <= BM25TopN
    BY <2>1, FallbackIsTop
  <2> QED BY <1>2, <2>2, <2>3
<1> QED BY <1>1, <1>2

\* Every answer of find names agents of the registry, each once.
LEMMA AnswersFacts ==
  ASSUME NEW reg \in Registries, NEW q \in Queries, Acceptable(q),
         NEW answer \in Answers(reg, q)
  PROVE  ToSet(answer) \subseteq Names /\ IsInjective(answer)
<1>1. CASE q.intent # Unset
  <2>1. q.intent \in Terms /\ answer \in FindByCapability(reg, {q.intent})
    BY <1>1, IntentIsTerm DEF Answers
  <2> QED BY <2>1, IntentAnswer DEF Agents
<1>2. CASE q.intent = Unset
  <2>1. PICK names \in SUBSET Agents(reg) : answer \in SetToSeqs(names)
    <3>1. CASE q.kind # Unset
      BY <1>2, <3>1 DEF Answers, FindByConversationKind
    <3>2. CASE q.kind = Unset
      BY <1>2, <3>2 DEF Answers, FindBySequencing
    <3> QED BY <3>1, <3>2
  <2>2. IsFiniteSet(names) /\ names \subseteq Names
    BY AgentsFinite
  <2> QED BY <2>1, <2>2, SeqsFacts
<1> QED BY <1>1, <1>2

\* An answer that names agents keeps the types.
LEMMA ReplyType ==
  ASSUME TypeOK, at \in {"asked", "listed"}, NEW status \in {200, 400, 401, 404, 503},
         NEW shape, NEW agents, Reply(status, shape, agents),
         ToSet(agents) \subseteq Names, IsInjective(agents)
  PROVE  TypeOK'
BY DEF Reply, TypeOK, store

\* No agents, and one: both are names, each once.
LEMMA ShortAnswers ==
  /\ ToSet(<<>>) \subseteq Names /\ IsInjective(<<>>)
  /\ \A n \in Names : ToSet(<<n>>) \subseteq Names /\ IsInjective(<<n>>)
BY DEF ToSet, IsInjective

\* A step of the store keeps the types, if its registry and its count have theirs.
LEMMA StoreType ==
  ASSUME TypeOK, NEW events \in SUBSET {"emptied"}, UNCHANGED Mine, Observed(events),
         registry' \in Registries, swapped' \in BOOLEAN, failures' \in 0..StaleFetchThreshold
  PROVE  TypeOK'
<1>1. moments' \subseteq {"ready", "unready", "emptied"}
  BY DEF Observed, Moment, TypeOK
<1> QED BY <1>1 DEF TypeOK, Mine

\* An edited registry is one.
LEMMA EditedType ==
  ASSUME registry \in Registries, Edited
  PROVE  registry' \in Registries
BY DEF Edited, Registries

\* A request in flight is one of the API's.
LEMMA InFlight ==
  ASSUME TypeOK, at # "idle"
  PROVE  request \in Requests
BY DEF TypeOK

\* Nothing is in flight at first.
LEMMA InitType == Init => TypeOK
<1>1. 0 \in 0..StaleFetchThreshold /\ FALSE \in BOOLEAN
  OBVIOUS
<1>2. Init => swapped \in BOOLEAN /\ failures \in 0..StaleFetchThreshold
  BY <1>1, Zenon DEF Init
<1>3. Init => at = "idle" /\ at # "listed" /\ at # "answered" /\ request = None /\ response = None
  BY DEF Init
<1>4. Init => setup \in Setups /\ registry \in Registries /\ moments \subseteq {"ready", "unready", "emptied"}
  BY DEF Init
<1> QED BY <1>2, <1>3, <1>4 DEF TypeOK

\* Every step keeps the types.
LEMMA NextType == TypeOK /\ [Next]_vars => TypeOK'
<1> SUFFICES ASSUME TypeOK, [Next]_vars PROVE TypeOK'
  OBVIOUS
<1>1. CASE HotReload
  BY <1>1, EditedType, StoreType DEF HotReload, Mine, TypeOK
<1>2. CASE SyncSwap
  <2>1. (IF Loaded(registry') THEN {} ELSE {"emptied"}) \in SUBSET {"emptied"}
    OBVIOUS
  <2> QED BY <1>2, <2>1, EditedType, StoreType DEF SyncSwap, Mine, TypeOK
<1>3. CASE SyncRecord
  <2>1. UNCHANGED Mine /\ Observed({}) /\ registry' \in Registries
    BY <1>3 DEF SyncRecord, Mine, TypeOK
  <2>2. swapped' \in BOOLEAN
    BY <1>3, Zenon DEF SyncRecord
  <2>3. failures' \in 0..StaleFetchThreshold
    BY <1>3 DEF SyncRecord
  <2>4. {} \in SUBSET {"emptied"}
    OBVIOUS
  <2> QED BY <2>1, <2>2, <2>3, <2>4, StoreType
<1>4. CASE SyncFails
  BY <1>4, StoreType DEF SyncFails, Mine, TypeOK
<1>5. CASE Call
  BY <1>5 DEF Call, TypeOK, store, Moment
<1>6. CASE Refuse
  BY <1>6, ShortAnswers, ReplyType DEF Refuse
<1>7. CASE Healthz
  BY <1>7, ShortAnswers, ReplyType DEF Healthz, Turn
<1>8. CASE ListAgents
  <2>1. PICK all \in SetToSeqs(Agents(registry)) : Reply(200, "array", all)
    BY <1>8 DEF ListAgents
  <2>2. Agents(registry) \in SUBSET Agents(registry) /\ registry \in Registries
    BY DEF TypeOK
  <2>3. IsFiniteSet(Agents(registry)) /\ Agents(registry) \subseteq Names
    BY <2>2, AgentsFinite
  <2>4. ToSet(all) \subseteq Names /\ IsInjective(all)
    BY <2>1, <2>3, SeqsFacts
  <2> QED BY <1>8, <2>1, <2>4, ReplyType DEF ListAgents, Turn
<1>9. CASE GetAgent
  <2>1. CASE request.arg \in Agents(registry)
    BY <1>9, <2>1, ShortAnswers, ReplyType DEF GetAgent, Turn, Agents
  <2>2. CASE request.arg \notin Agents(registry)
    BY <1>9, <2>2, ShortAnswers, ReplyType DEF GetAgent, Turn
  <2> QED BY <2>1, <2>2
<1>10. CASE AgentCard
  <2>1. CASE TrimSuffix[request.arg] \in Agents(registry)
    BY <1>10, <2>1, ShortAnswers, ReplyType DEF AgentCard, Turn, Agents
  <2>2. CASE TrimSuffix[request.arg] \notin Agents(registry)
    BY <1>10, <2>2, ShortAnswers, ReplyType DEF AgentCard, Turn
  <2> QED BY <2>1, <2>2
<1>11. CASE FindRejects
  BY <1>11, ShortAnswers, ReplyType DEF FindRejects, Turn
<1>12. CASE Find
  <2>1. at = "asked" /\ request.route = "find" /\ Acceptable(request.arg)
    BY <1>12 DEF Find, Turn
  <2>2. request.arg \in Queries
    BY <2>1, InFlight, RequestFacts DEF Args
  <2>3. PICK agents \in Answers(registry, request.arg) : Reply(200, Envelope(agents), agents)
    BY <1>12 DEF Find
  <2>4. registry \in Registries
    BY DEF TypeOK
  <2>5. ToSet(agents) \subseteq Names /\ IsInjective(agents)
    BY <2>1, <2>2, <2>3, <2>4, AnswersFacts
  <2> QED BY <2>1, <2>3, <2>5, ReplyType
<1>13. CASE ReadyzAgents
  <2>1. CASE Loaded(registry)
    <3>1. /\ at = "asked" /\ at' = "listed" /\ request.route = "readyz"
          /\ UNCHANGED <<setup, registry, swapped, failures, request, response, moments>>
      BY <1>13, <2>1 DEF ReadyzAgents, Turn, store
    <3>2. request \in Requests /\ response = None
      BY <3>1 DEF TypeOK
    <3> QED BY <3>1, <3>2 DEF TypeOK
  <2>2. CASE ~Loaded(registry)
    BY <1>13, <2>2, ShortAnswers, ReplyType DEF ReadyzAgents, Turn
  <2> QED BY <2>1, <2>2
<1>14. CASE ReadyzSync
  <2>1. (IF setup.git /\ Stale(failures) THEN 503 ELSE 200) \in {200, 400, 401, 404, 503}
    OBVIOUS
  <2> QED BY <1>14, <2>1, ShortAnswers, ReplyType DEF ReadyzSync
<1>15. CASE Return
  BY <1>15 DEF Return, Done, TypeOK, store
<1>16. CASE GiveUp
  BY <1>16 DEF GiveUp, Done, TypeOK, store
<1>17. CASE UNCHANGED vars
  BY <1>17 DEF vars, store, TypeOK
<1> QED
  BY <1>1, <1>2, <1>3, <1>4, <1>5, <1>6, <1>7, <1>8, <1>9, <1>10, <1>11, <1>12, <1>13,
     <1>14, <1>15, <1>16, <1>17 DEF Next, Handle

\* Every response has a status the API documents, and names agents of the
\* registry, none of them twice, whatever route it is of.
THEOREM TypeCorrect == Spec => []TypeOK
<1> QED BY InitType, NextType, PTL DEF Spec

\* The step that writes the answer of a find by intent writes one that
\* FindByCapability gives.
LEMMA FindStep ==
  ASSUME TypeOK, [Next]_vars, FindsByIntent
  PROVE  /\ request.arg.intent \in Terms
         /\ response'.agents \in FindByCapability(registry, {request.arg.intent})
<1>1. at = "asked" /\ at' = "answered" /\ request.route = "find" /\ response'.status = 200
      /\ request.arg.intent # Unset
  BY DEF FindsByIntent
<1>2. Find
  <2>1. ~(HotReload \/ SyncSwap \/ SyncRecord \/ SyncFails \/ Call \/ Return \/ GiveUp \/ UNCHANGED vars)
    BY <1>1 DEF HotReload, SyncSwap, SyncRecord, SyncFails, Call, Return, GiveUp, Done, vars
  <2>2. ~(Healthz \/ ListAgents \/ GetAgent \/ AgentCard \/ ReadyzAgents \/ ReadyzSync)
    BY <1>1 DEF Healthz, ListAgents, GetAgent, AgentCard, ReadyzAgents, ReadyzSync, Turn
  <2>3. ~(Refuse \/ FindRejects)
    BY <1>1 DEF Refuse, FindRejects, Reply
  <2> QED BY <2>1, <2>2, <2>3 DEF Next, Handle
<1>3. request.arg \in Queries /\ Acceptable(request.arg)
  BY <1>1, <1>2, InFlight, RequestFacts DEF Args, Find
<1>4. PICK agents \in Answers(registry, request.arg) : Reply(200, Envelope(agents), agents)
  BY <1>2 DEF Find
<1>5. response'.agents = agents
  BY <1>4 DEF Reply
<1> QED
  BY <1>1, <1>3, <1>4, <1>5, IntentIsTerm DEF Answers

\* A find by intent that tiers 1 to 3 resolve is answered with the agents closest
\* to it, all of them and no other, the trusted ones first and then by name, and
\* any other with no more agents than tier 4 may return.
THEOREM ClosestRankedHolds == Spec => ClosestRanked
<1> DEFINE Ranked ==
             LET answer == response'.agents
                 raw == {request.arg.intent}
             IN  IF Resolved(registry, raw)
                 THEN /\ ToSet(answer) = Closest(registry, raw)
                      /\ \A i, j \in 1..Len(answer) : i < j => Before(registry, answer[i], answer[j])
                 ELSE Len(answer) <= BM25TopN
<1>1. TypeOK /\ [Next]_vars => [FindsByIntent => Ranked]_vars
  <2> SUFFICES ASSUME TypeOK, [Next]_vars, FindsByIntent PROVE Ranked
    OBVIOUS
  <2>1. registry \in Registries
    BY DEF TypeOK
  <2> QED BY <2>1, FindStep, IntentAnswer
<1> QED BY <1>1, TypeCorrect, PTL DEF Spec, ClosestRanked
=============================================================================
