------------------------------ MODULE Dispatch ------------------------------
(***************************************************************************)
(* handlers/protocol_handler.go, model_routing.go and log_handler.go:      *)
(* concurrent inference requests and replays of logged ones, each going    *)
(* through lookup, rounds of attempts over the backends in routing order,  *)
(* failover, 502 retries, waiting for capacity and relaying the answer,    *)
(* while clients disconnect and the operator changes limits.  The requests *)
(* share only the runtime manager, so a step here is the code between two  *)
(* accesses to it or to the network.                                       *)
(*                                                                         *)
(* Abstracted: a backend's answer is one of success, 502, another failure  *)
(* or an error; bodies, headers and the attempts log are left out; the     *)
(* latency scores order the backends of one priority arbitrarily.          *)
(***************************************************************************)
EXTENDS BackendRuntime, Sequences

CONSTANTS
  Priority,      \* Priority[c]: lower is preferred
  ConfigLimit,   \* ConfigLimit[c]: max_concurrency in the row a request loaded
  Unsupported,   \* configs whose upstream_type no inbound protocol supports
  Replays,       \* the requests that are replays of a logged one
  Candidates,    \* the sets of backends lookup and capability filter may leave
  MaxRetries     \* providerBadGatewayMaxRetries

ASSUME DispatchAssumption ==
  /\ IsFiniteSet(Config)
  /\ Lease = Request \X Config
  /\ Priority \in [Config -> Nat]
  /\ ConfigLimit \in [Config -> Limit]
  /\ Unsupported \subseteq Config
  /\ Replays \subseteq Request
  /\ Candidates \subseteq (SUBSET Config) \ {{}}
  /\ MaxRetries \in Nat

VARIABLES
  pc,                \* where each request's handler goroutine is
  configs,           \* the candidate backends after capability filtering
  orderedConfigs,    \* the rest of the round, the backend in use first
  unsupportedCount,
  lastFailure,       \* backend of the last failure response, or NoConfig
  lastErr,           \* was there a send or body-read error?
  retries,           \* 502 retries of the current attempt
  cancelled,         \* requests whose client has gone (ctx.Done)
  outcome,           \* what the client was told
  verdict,           \* history: what became of each backend in this round
  logged             \* requests handed to the async log writer

roundVars == <<configs, orderedConfigs, unsupportedCount, lastFailure, lastErr,
               retries, verdict>>
requestVars == <<pc, roundVars, outcome, logged>>
vars == <<runtimeVars, requestVars, cancelled>>

InUse == {"send", "retryDelay", "respond"}
Stages == {"new", "route", "attempt", "busy", "waiting", "done"} \cup InUse
Outcomes == {"none", "rejected", "served", "broken", "relayed", "error",
             "incompatible", "cancelled"}
Verdicts == {"none", "untried", "busy", "unsupported", "inUse", "failed"}

Init ==
  /\ RuntimeInit
  /\ pc = [r \in Request |-> "new"]
  /\ configs = [r \in Request |-> {}]
  /\ orderedConfigs = [r \in Request |-> <<>>]
  /\ unsupportedCount = [r \in Request |-> 0]
  /\ lastFailure = [r \in Request |-> NoConfig]
  /\ lastErr = [r \in Request |-> FALSE]
  /\ retries = [r \in Request |-> 0]
  /\ cancelled = {}
  /\ outcome = [r \in Request |-> "none"]
  /\ verdict = [r \in Request |-> [c \in Config |-> "none"]]
  /\ logged = {}

goto(r, stage) == pc' = [pc EXCEPT ![r] = stage]

\* The handler returns, having told the client o; its locals are gone.
answer(r, o) ==
  /\ goto(r, "done")
  /\ outcome' = [outcome EXCEPT ![r] = o]
  /\ orderedConfigs' = [orderedConfigs EXCEPT ![r] = <<>>]
  /\ unsupportedCount' = [unsupportedCount EXCEPT ![r] = 0]
  /\ lastFailure' = [lastFailure EXCEPT ![r] = NoConfig]
  /\ lastErr' = [lastErr EXCEPT ![r] = FALSE]
  /\ retries' = [retries EXCEPT ![r] = 0]
  /\ UNCHANGED <<configs, verdict, cancelled>>

current(r) == Head(orderedConfigs[r])
leaseOf(r) == <<r, current(r)>>
judge(r, v) == verdict' = [verdict EXCEPT ![r][current(r)] = v]
-----------------------------------------------------------------------------
(* Admission of the request: parsing, model lookup, capability filter.     *)

\* The request is refused with 400 or 404, or goes on with the enabled
\* configs of its model that have the capabilities it needs.
handleProtocolRequest(r) ==
  /\ pc[r] = "new"
  /\ \/ answer(r, "rejected")
     \/ \E candidates \in Candidates :
          /\ configs' = [configs EXCEPT ![r] = candidates]
          /\ goto(r, "route")
          /\ UNCHANGED <<orderedConfigs, unsupportedCount, lastFailure,
                         lastErr, retries, verdict, cancelled, outcome>>
  /\ UNCHANGED <<runtimeVars, logged>>
-----------------------------------------------------------------------------
(* Routing order.                                                          *)

\* A routing that ignores the operator's priorities.
unsortedOrders(S) ==
  {s \in [1..Cardinality(S) -> S] :
     \A i, j \in DOMAIN s : i < j => s[i] # s[j]}

\* The orders the manager may return for the backends S: by priority, within
\* one priority by scores or a random rotation.
attemptOrders(S) ==
  {s \in [1..Cardinality(S) -> S] :
     \A i, j \in DOMAIN s :
       i < j => s[i] # s[j] /\ Priority[s[i]] <= Priority[s[j]]}

\* The backends buildAttemptOrder keeps: it skips a full one, and never skips
\* one without an entry.
available(S) == {c \in S : c \in states => HasRoom(c, maxConcurrency[c])}

\* A round starts with a snapshot of who has room, taken under the read lock
\* and used after it is released.  Without any backend the request waits,
\* else the round begins.
buildAttemptOrder(r) ==
  /\ pc[r] = "route"
  /\ \E order \in attemptOrders(available(configs[r])) :
       /\ orderedConfigs' = [orderedConfigs EXCEPT ![r] = order]
       /\ goto(r, IF order = <<>> THEN "busy" ELSE "attempt")
  /\ verdict' =
       [verdict EXCEPT ![r] =
          [c \in Config |-> IF c \notin configs[r] THEN "none"
                            ELSE IF c \in available(configs[r]) THEN "untried"
                            ELSE "busy"]]
  /\ UNCHANGED <<runtimeVars, cancelled, configs, unsupportedCount,
                 lastFailure, lastErr, retries, outcome, logged>>
-----------------------------------------------------------------------------
(* Attempts.                                                               *)

attempting(r) == pc[r] = "attempt" /\ orderedConfigs[r] # <<>>

\* The loop moves to the next backend of the round.
nextConfig(r) ==
  /\ orderedConfigs' = [orderedConfigs EXCEPT ![r] = Tail(@)]
  /\ goto(r, "attempt")

\* Bound: the count is only compared with the number of candidates, and
\* above it all values behave alike.
CountBound == Cardinality(Config) + 1

\* Mode resolution; a replay is sent to whatever backend comes first.
unsupported(r) == r \notin Replays /\ current(r) \in Unsupported

\* The count is kept from round to round.
skipUnsupported(r) ==
  /\ attempting(r)
  /\ unsupported(r)
  /\ unsupportedCount' =
       [unsupportedCount EXCEPT ![r] = IF @ < CountBound THEN @ + 1 ELSE @]
  /\ judge(r, "unsupported")
  /\ nextConfig(r)
  /\ UNCHANGED <<runtimeVars, cancelled, configs, lastFailure, lastErr,
                 retries, outcome, logged>>

\* The backend filled up between the snapshot and startRequest.
skipFull(r) ==
  /\ attempting(r)
  /\ ~unsupported(r)
  /\ ~HasRoom(current(r), limitInForce(current(r), ConfigLimit[current(r)]))
  /\ judge(r, "busy")
  /\ nextConfig(r)
  /\ UNCHANGED <<runtimeVars, cancelled, configs, unsupportedCount,
                 lastFailure, lastErr, retries, outcome, logged>>

startAttempt(r) ==
  /\ attempting(r)
  /\ ~unsupported(r)
  /\ startRequest(leaseOf(r), current(r), ConfigLimit[current(r)])
  /\ judge(r, "inUse")
  /\ goto(r, "send")
  /\ UNCHANGED <<cancelled, configs, orderedConfigs, unsupportedCount,
                 lastFailure, lastErr, retries, outcome, logged>>

\* A body-read failure path that forgets to give the slot back.
endAttemptLeaking(r) ==
  /\ UNCHANGED runtimeVars
  /\ judge(r, "failed")
  /\ retries' = [retries EXCEPT ![r] = 0]
  /\ nextConfig(r)

\* An attempt failed: its lease is finished as a failure before the loop
\* goes on.
endAttempt(r) ==
  /\ \E measured \in BOOLEAN : Finish(leaseOf(r), FALSE, measured)
  /\ judge(r, "failed")
  /\ retries' = [retries EXCEPT ![r] = 0]
  /\ nextConfig(r)

attemptError(r) ==
  /\ endAttempt(r)
  /\ lastErr' = [lastErr EXCEPT ![r] = TRUE]
  /\ UNCHANGED <<cancelled, configs, unsupportedCount, lastFailure, outcome,
                 logged>>

\* The send, or reading a failure body, ends in an error.  With the client
\* gone it can end in nothing else.
sendFails(r) ==
  /\ pc[r] = "send"
  /\ attemptError(r)

\* A retry bound that is off by one.
mayRetryOnceMore(r) == retries[r] <= MaxRetries

mayRetry(r) == retries[r] < MaxRetries

\* A 502 is retried on the same backend after a delay, the lease stays open.
sendBadGateway(r) ==
  /\ pc[r] = "send"
  /\ r \notin cancelled
  /\ mayRetry(r)
  /\ retries' = [retries EXCEPT ![r] = @ + 1]
  /\ goto(r, "retryDelay")
  /\ UNCHANGED <<runtimeVars, cancelled, configs, orderedConfigs,
                 unsupportedCount, lastFailure, lastErr, outcome, verdict,
                 logged>>

waitForProviderRetry(r) ==
  /\ pc[r] = "retryDelay"
  /\ goto(r, "send")
  /\ UNCHANGED <<runtimeVars, cancelled, roundVars, outcome, logged>>

cancelProviderRetry(r) ==
  /\ pc[r] = "retryDelay"
  /\ r \in cancelled
  /\ attemptError(r)

\* A failure status other than a retried 502, its body read to the end.
sendFailureResponse(r) ==
  /\ pc[r] = "send"
  /\ r \notin cancelled
  /\ endAttempt(r)
  /\ lastFailure' = [lastFailure EXCEPT ![r] = current(r)]
  /\ UNCHANGED <<cancelled, configs, unsupportedCount, lastErr, outcome,
                 logged>>

\* A 2xx answer: dispatch returns with the lease open.
sendSucceeds(r) ==
  /\ pc[r] = "send"
  /\ r \notin cancelled
  /\ goto(r, "respond")
  /\ UNCHANGED <<runtimeVars, cancelled, roundVars, outcome, logged>>
-----------------------------------------------------------------------------
(* The end of a round.                                                     *)

\* A round that answers as soon as one backend has failed.
roundOverEarly(r) ==
  pc[r] = "attempt" /\ (orderedConfigs[r] = <<>> \/ lastFailure[r] # NoConfig)

\* A round that loops on after a send error.
verdictOfRoundLooping(r) ==
  IF lastFailure[r] # NoConfig THEN "relayed"
  ELSE IF unsupportedCount[r] = Cardinality(configs[r]) THEN "incompatible"
  ELSE "none"

roundOver(r) == pc[r] = "attempt" /\ orderedConfigs[r] = <<>>

\* A failure response wins over an error; "none" is to wait and start over.
verdictOfRound(r) ==
  IF lastFailure[r] # NoConfig THEN "relayed"
  ELSE IF lastErr[r] THEN "error"
  ELSE IF unsupportedCount[r] = Cardinality(configs[r]) THEN "incompatible"
  ELSE "none"

finishRound(r) ==
  /\ roundOver(r)
  /\ IF verdictOfRound(r) = "none"
     THEN goto(r, "busy") /\ UNCHANGED <<roundVars, outcome, cancelled>>
     ELSE answer(r, verdictOfRound(r))
  /\ UNCHANGED <<runtimeVars, logged>>
-----------------------------------------------------------------------------
(* waitForBackendCapacity and the response.                                *)

startWaiting(r) ==
  /\ pc[r] = "busy"
  /\ beginWait(r)
  /\ goto(r, "waiting")
  /\ UNCHANGED <<cancelled, roundVars, outcome, logged>>

\* Nobody signals capacity: a timer ends the wait and the request routes anew.
capacityTimerFires(r) ==
  /\ pc[r] = "waiting"
  /\ endWait(r)
  /\ goto(r, "route")
  /\ UNCHANGED <<cancelled, roundVars, outcome, logged>>

cancelWaiting(r) ==
  /\ pc[r] = "waiting"
  /\ r \in cancelled
  /\ endWait(r)
  /\ answer(r, "cancelled")
  /\ UNCHANGED logged

\* The answer is relayed to the end, also when the client has gone or the
\* upstream stream broke off; a non-empty one is logged.
writeProtocolResponse(r) ==
  /\ pc[r] = "respond"
  /\ r \notin Replays
  /\ \E measured \in BOOLEAN : Finish(leaseOf(r), TRUE, measured)
  /\ answer(r, "served")
  /\ logged' \in {logged, logged \cup {r}}

\* Conversion or writing fails after the status line was sent.
writeProtocolResponseFails(r) ==
  /\ pc[r] = "respond"
  /\ r \notin Replays
  /\ \E measured \in BOOLEAN : Finish(leaseOf(r), FALSE, measured)
  /\ answer(r, "broken")
  /\ UNCHANGED logged

\* The answer to a replay is read and shown beside the logged one; it is not
\* logged, and counts as a success even when reading it fails.
replayLogResponse(r) ==
  /\ pc[r] = "respond"
  /\ r \in Replays
  /\ \E measured \in BOOLEAN : Finish(leaseOf(r), TRUE, measured)
  /\ answer(r, "served") \/ answer(r, "broken")
  /\ UNCHANGED logged
-----------------------------------------------------------------------------
(* The environment.                                                        *)

clientCancels(r) ==
  /\ pc[r] # "done"
  /\ r \notin cancelled
  /\ cancelled' = cancelled \cup {r}
  /\ UNCHANGED <<runtimeVars, requestVars>>

\* The operator saves a config or resets its runtime state.
administer ==
  /\ \/ \E c \in Config, max \in Limit : updateConfig(c, max)
     \/ \E c \in Config, max \in Limit : resetConfigState(c, max)
     \/ resetAllState
  /\ UNCHANGED <<requestVars, cancelled>>
-----------------------------------------------------------------------------
requestStep(r) ==
  \/ handleProtocolRequest(r)
  \/ buildAttemptOrder(r)
  \/ skipUnsupported(r)
  \/ skipFull(r)
  \/ startAttempt(r)
  \/ sendFails(r)
  \/ sendBadGateway(r)
  \/ waitForProviderRetry(r)
  \/ cancelProviderRetry(r)
  \/ sendFailureResponse(r)
  \/ sendSucceeds(r)
  \/ finishRound(r)
  \/ startWaiting(r)
  \/ capacityTimerFires(r)
  \/ cancelWaiting(r)
  \/ writeProtocolResponse(r)
  \/ writeProtocolResponseFails(r)
  \/ replayLogResponse(r)

Next ==
  \/ \E r \in Request : requestStep(r) \/ clientCancels(r)
  \/ administer

\* A handler goroutine keeps running: Go schedules it, its timers fire, and a
\* send ends at the latest with the client timeout (http_client.go:20).
Fairness == \A r \in Request : WF_vars(requestStep(r))

Spec == Init /\ [][Next]_vars

FairSpec == Spec /\ Fairness
-----------------------------------------------------------------------------
(* Properties.                                                             *)

\* Types; in particular a backend is never retried more than
\* providerBadGatewayMaxRetries times in one attempt.
DispatchTypeOK ==
  /\ pc \in [Request -> Stages]
  /\ configs \in [Request -> SUBSET Config]
  /\ \A r \in Request : orderedConfigs[r] \in Seq(configs[r])
  /\ unsupportedCount \in [Request -> Nat]
  /\ lastFailure \in [Request -> Config \cup {NoConfig}]
  /\ lastErr \in [Request -> BOOLEAN]
  /\ retries \in [Request -> 0..MaxRetries]
  /\ cancelled \subseteq Request
  /\ outcome \in [Request -> Outcomes]
  /\ verdict \in [Request -> [Config -> Verdicts]]
  /\ logged \subseteq Request

\* What a request occupies in the manager is exactly what its stage needs:
\* the slot of the backend it is using while an attempt or a response is
\* under way, a place in the waiting count while it waits, nothing otherwise.
\* So no return path of the handler keeps a slot (protocol_handler.go:65-72,
\* 275-313).
ResourcesMatchStage ==
  \A r \in Request :
    /\ r \in waiters <=> pc[r] = "waiting"
    /\ \A c \in Config :
         <<r, c>> \in OpenLeases(c) <=>
           pc[r] \in InUse /\ orderedConfigs[r] # <<>> /\ c = current(r)

\* Failover is exhaustive: the client is told of a failure only when every
\* candidate backend failed, was full or is unsupported in that round.
FailoverExhaustive ==
  \A r \in Request :
    outcome[r] \in {"relayed", "error"} =>
      /\ \A c \in configs[r] : verdict[r][c] \in {"failed", "busy", "unsupported"}
      /\ \E c \in configs[r] : verdict[r][c] = "failed"

\* A backend is used only after every candidate the operator prefers to it
\* has been found full, unsupported or failing in the same round, although
\* the order was computed from a snapshot (README.md:106).
PriorityRespected ==
  \A r \in Request : pc[r] \in InUse =>
    \A c \in configs[r] :
      Priority[c] < Priority[current(r)] =>
        verdict[r][c] \in {"failed", "busy", "unsupported"}

\* Only a request none of whose attempts reached a backend waits and routes
\* again; one that did is answered in that round.  A prompt is therefore
\* never sent twice to a backend by the polling loop.
WaitingRequestsAreUnsent ==
  \A r \in Request : pc[r] \in {"route", "busy", "waiting"} =>
    \A c \in Config : leaseConfig[<<r, c>>] = NoConfig

\* Every request is eventually answered, whatever the operator does to the
\* limits: a full backend empties and nobody waits on anybody in a cycle.
EveryRequestCompletes == \A r \in Request : <>(pc[r] = "done")

\* What the error message of protocol_handler.go:322 says: "no backend for
\* inbound ... is compatible with configured upstream types".
IncompatibleMeansIncompatible ==
  \A r \in Request : outcome[r] = "incompatible" => configs[r] \subseteq Unsupported
=============================================================================
