--------------------------- MODULE BackendRuntime ---------------------------
(***************************************************************************)
(* handlers/backend_runtime.go: the in-memory manager that counts, under   *)
(* one mutex, the requests each backend configuration is serving, its      *)
(* outcome telemetry and the requests waiting for capacity.  Every method  *)
(* holds the mutex from its first line to its return, so each is one       *)
(* action.                                                                 *)
(*                                                                         *)
(* Here the callers are arbitrary: any lease may be started or finished    *)
(* and any administrative call may arrive at any moment.  Dispatch.tla     *)
(* puts the real callers in their place.                                   *)
(*                                                                         *)
(* Abstracted: the three moving averages (only whether a measurement was   *)
(* recorded since the last reset is kept), the labels copied into a state  *)
(* (model name, URL) and LastUpdatedAt.                                    *)
(***************************************************************************)
EXTENDS Naturals, FiniteSets

CONSTANTS
  Config,    \* ids of backend configurations
  Lease,     \* the backendRequestLease objects startRequest ever allocates
  Limit,     \* values of max_concurrency, 0 for "no limit"
  Request,   \* requests that may wait for capacity
  Model,     \* public model names
  ModelOf,   \* ModelOf[r]: the model request r asks for
  NoConfig   \* the configID of a lease not handed out yet

ASSUME RuntimeAssumption ==
  /\ IsFiniteSet(Lease)
  /\ IsFiniteSet(Request)
  /\ Limit \subseteq Nat
  /\ ModelOf \in [Request -> Model]
  /\ NoConfig \notin Config

VARIABLES
  states,           \* the configs with an entry in the states map
  maxConcurrency,   \* the fields of those entries; a config without an entry
  activeRequests,   \* has the zero value in each of them
  totalRequests,
  successCount,
  failureCount,
  ewmaSet,          \* has a moving average seen a measurement since a reset?
  waitingByModel,   \* requests inside waitForBackendCapacity, by model
  leaseConfig,      \* configID of each lease, NoConfig before startRequest
  finished,         \* the leases' finished flags
  waiters           \* the requests between beginWait and endWait

telemetry == <<totalRequests, successCount, failureCount, ewmaSet>>
waitVars == <<waitingByModel, waiters>>
leaseVars == <<leaseConfig, finished>>
runtimeVars ==
  <<states, maxConcurrency, activeRequests, telemetry, waitVars, leaseVars>>

RuntimeInit ==
  /\ states = {}
  /\ maxConcurrency = [c \in Config |-> 0]
  /\ activeRequests = [c \in Config |-> 0]
  /\ totalRequests = [c \in Config |-> 0]
  /\ successCount = [c \in Config |-> 0]
  /\ failureCount = [c \in Config |-> 0]
  /\ ewmaSet = [c \in Config |-> FALSE]
  /\ waitingByModel = [m \in Model |-> 0]
  /\ leaseConfig = [l \in Lease |-> NoConfig]
  /\ finished = [l \in Lease |-> FALSE]
  /\ waiters = {}
-----------------------------------------------------------------------------
(* Starting and finishing a request.                                       *)

\* Mutants of the helpers below: what a plausible slip in them would be.
HasRoomOffByOne(c, max) == max = 0 \/ activeRequests[c] <= max
RegisterForgotten(c) == UNCHANGED states
FinishedIgnored(l) == FALSE

\* The limit startRequest applies: the entry's, or for a new entry the one
\* of the config record the caller holds.
limitInForce(c, max) == IF c \in states THEN maxConcurrency[c] ELSE max

\* The admission test of startRequest and buildAttemptOrder.
HasRoom(c, max) == max = 0 \/ activeRequests[c] < max

Register(c) == states' = states \cup {c}

\* startRequest with room: the entry is created when absent and a fresh lease
\* is returned.  Without room nothing changes (an entry found full existed).
startRequest(l, c, max) ==
  /\ leaseConfig[l] = NoConfig
  /\ HasRoom(c, limitInForce(c, max))
  /\ Register(c)
  /\ maxConcurrency' = [maxConcurrency EXCEPT ![c] = limitInForce(c, max)]
  /\ activeRequests' = [activeRequests EXCEPT ![c] = @ + 1]
  /\ leaseConfig' = [leaseConfig EXCEPT ![l] = c]
  /\ UNCHANGED <<telemetry, waitVars, finished>>

alreadyFinished(l) == finished[l]

\* finishRequest recreates a missing entry, with no limit, and never lets the
\* active count pass below zero.
finishRequest(c, success, measured) ==
  /\ Register(c)
  /\ activeRequests' =
       [activeRequests EXCEPT ![c] = IF @ > 0 THEN @ - 1 ELSE @]
  /\ totalRequests' = [totalRequests EXCEPT ![c] = @ + 1]
  /\ successCount' =
       IF success THEN [successCount EXCEPT ![c] = @ + 1] ELSE successCount
  /\ failureCount' =
       IF success THEN failureCount ELSE [failureCount EXCEPT ![c] = @ + 1]
  /\ ewmaSet' = [ewmaSet EXCEPT ![c] = @ \/ measured]
  /\ UNCHANGED <<maxConcurrency, waitVars, leaseConfig>>

\* lease.Finish may be called again; only the first call has an effect.
Finish(l, success, measured) ==
  /\ leaseConfig[l] # NoConfig
  /\ ~alreadyFinished(l)
  /\ finished' = [finished EXCEPT ![l] = TRUE]
  /\ finishRequest(leaseConfig[l], success, measured)
-----------------------------------------------------------------------------
(* Administration.                                                         *)

\* A reset that forgets one of the counters.
clearTelemetryPartly(C) ==
  /\ totalRequests' = [c \in Config |-> IF c \in C THEN 0 ELSE totalRequests[c]]
  /\ successCount' = [c \in Config |-> IF c \in C THEN 0 ELSE successCount[c]]
  /\ ewmaSet' = [c \in Config |-> c \notin C /\ ewmaSet[c]]
  /\ UNCHANGED failureCount

\* The telemetry fields both resets set to zero; ActiveRequests is kept, the
\* requests in flight are still in flight.
clearTelemetry(C) ==
  /\ totalRequests' = [c \in Config |-> IF c \in C THEN 0 ELSE totalRequests[c]]
  /\ successCount' = [c \in Config |-> IF c \in C THEN 0 ELSE successCount[c]]
  /\ failureCount' = [c \in Config |-> IF c \in C THEN 0 ELSE failureCount[c]]
  /\ ewmaSet' = [c \in Config |-> c \notin C /\ ewmaSet[c]]

\* updateConfig creates a missing entry; max is the row's max_concurrency.
updateConfig(c, max) ==
  /\ Register(c)
  /\ maxConcurrency' = [maxConcurrency EXCEPT ![c] = max]
  /\ UNCHANGED <<activeRequests, telemetry, waitVars, leaseVars>>

\* resetConfigState does nothing for a config without an entry.
resetConfigState(c, max) ==
  /\ c \in states
  /\ maxConcurrency' = [maxConcurrency EXCEPT ![c] = max]
  /\ clearTelemetry({c})
  /\ UNCHANGED <<states, activeRequests, waitVars, leaseVars>>

resetAllState ==
  /\ clearTelemetry(states)
  /\ UNCHANGED <<states, maxConcurrency, activeRequests, waitVars, leaseVars>>
-----------------------------------------------------------------------------
(* Waiting for capacity.                                                   *)

beginWait(r) ==
  /\ r \notin waiters
  /\ waiters' = waiters \cup {r}
  /\ waitingByModel' = [waitingByModel EXCEPT ![ModelOf[r]] = @ + 1]
  /\ UNCHANGED <<states, maxConcurrency, activeRequests, telemetry, leaseVars>>

\* An endWait that always removes the model's entry.
afterEndWaitDeletes(n) == 0

\* The count is removed at one or below, decremented above.
afterEndWait(n) == IF n <= 1 THEN 0 ELSE n - 1

endWait(r) ==
  /\ r \in waiters
  /\ waiters' = waiters \ {r}
  /\ waitingByModel' =
       [waitingByModel EXCEPT ![ModelOf[r]] = afterEndWait(@)]
  /\ UNCHANGED <<states, maxConcurrency, activeRequests, telemetry, leaseVars>>
-----------------------------------------------------------------------------
RuntimeNext ==
  \/ \E l \in Lease, c \in Config, max \in Limit : startRequest(l, c, max)
  \/ \E l \in Lease, success, measured \in BOOLEAN :
       Finish(l, success, measured)
  \/ \E c \in Config, max \in Limit : updateConfig(c, max)
  \/ \E c \in Config, max \in Limit : resetConfigState(c, max)
  \/ resetAllState
  \/ \E r \in Request : beginWait(r)
  \/ \E r \in Request : endWait(r)

RuntimeSpec == RuntimeInit /\ [][RuntimeNext]_runtimeVars
-----------------------------------------------------------------------------
(* Properties.                                                             *)

\* The leases of c that were handed out and not finished.
OpenLeases(c) == {l \in Lease : leaseConfig[l] = c /\ ~finished[l]}

\* Types, and: a config without an entry in the map has no field set, so
\* startRequest, updateConfig and finishRequest all create what they use.
RuntimeTypeOK ==
  /\ states \subseteq Config
  /\ maxConcurrency \in [Config -> Limit \cup {0}]
  /\ activeRequests \in [Config -> Nat]
  /\ totalRequests \in [Config -> Nat]
  /\ successCount \in [Config -> Nat]
  /\ failureCount \in [Config -> Nat]
  /\ ewmaSet \in [Config -> BOOLEAN]
  /\ waitingByModel \in [Model -> Nat]
  /\ leaseConfig \in [Lease -> Config \cup {NoConfig}]
  /\ finished \in [Lease -> BOOLEAN]
  /\ waiters \subseteq Request
  /\ \A c \in Config \ states :
       maxConcurrency[c] = 0 /\ activeRequests[c] = 0 /\ totalRequests[c] = 0

\* The active count of a backend is the number of leases open on it, whatever
\* interleaving of starts, repeated Finish calls, resets and limit changes led
\* here: no slot is leaked and none is given out twice.
ActiveMatchesLeases ==
  \A c \in Config : activeRequests[c] = Cardinality(OpenLeases(c))

\* The counters shown to the operator and used for scoring add up, and no
\* latency average outlives the counters it was taken with, although requests
\* started before a reset finish after it.
TelemetryConsistent ==
  \A c \in Config :
    /\ totalRequests[c] = successCount[c] + failureCount[c]
    /\ ewmaSet[c] => totalRequests[c] > 0

\* The waiting count of a model is the number of its requests in
\* waitForBackendCapacity, so it returns to zero when they have left.
WaitersCounted ==
  \A m \in Model :
    waitingByModel[m] = Cardinality({r \in waiters : ModelOf[r] = m})

\* The counters implement the limiter: a lease is admitted only into room
\* left by the leases really open, is released once, and nothing else
\* changes who occupies a backend.
Limiter ==
  INSTANCE ConcurrencyLimiter WITH
    registered <- states,
    limit <- maxConcurrency,
    holders <- [c \in Config |-> OpenLeases(c)],
    issued <- {l \in Lease : leaseConfig[l] # NoConfig}

ImplementsLimiter == Limiter!Spec
=============================================================================
