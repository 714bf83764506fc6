------------------------ MODULE BackendRuntimeProofs ------------------------
(***************************************************************************)
(* Theorems about BackendRuntime, for any backends, leases, limits,        *)
(* requests and models.                                                    *)
(*                                                                         *)
(* The counts are not inductive by themselves: that a start adds a lease   *)
(* to the open ones needs that it was not finished before, and that a      *)
(* finish finds the entry it decrements needs that entries are never       *)
(* removed.  LeaseLifecycle states both; RuntimeInv is the inductive       *)
(* invariant.                                                              *)
(***************************************************************************)
EXTENDS BackendRuntime, FiniteSetTheorems, TLAPS

\* A lease is finished only after it was handed out, and the config of a
\* lease that was handed out has an entry.
LeaseLifecycle ==
  \A l \in Lease :
    /\ finished[l] => leaseConfig[l] # NoConfig
    /\ leaseConfig[l] # NoConfig => leaseConfig[l] \in states

RuntimeInv ==
  /\ RuntimeTypeOK
  /\ LeaseLifecycle
  /\ ActiveMatchesLeases
  /\ TelemetryConsistent
  /\ WaitersCounted
-----------------------------------------------------------------------------
(* Lemmas about the sets that are counted.                                 *)

\* The waiting requests of a model.
WaitersOf(m) == {r \in waiters : ModelOf[r] = m}

\* The open leases of a config are finitely many.
LEMMA OpenLeasesFinite ==
  ASSUME NEW c
  PROVE  IsFiniteSet(OpenLeases(c)) /\ Cardinality(OpenLeases(c)) \in Nat
<1>1. OpenLeases(c) \in SUBSET Lease
  BY DEF OpenLeases
<1>2. IsFiniteSet(OpenLeases(c))
  BY <1>1, FS_Subset, RuntimeAssumption DEF RuntimeAssumption
<1> QED
  BY <1>2, FS_CardinalityType

\* The waiting requests are finitely many.
LEMMA WaitersFinite ==
  ASSUME waiters \subseteq Request, NEW m
  PROVE  IsFiniteSet(WaitersOf(m)) /\ Cardinality(WaitersOf(m)) \in Nat
<1>1. WaitersOf(m) \in SUBSET Request
  BY DEF WaitersOf
<1>2. IsFiniteSet(WaitersOf(m))
  BY <1>1, FS_Subset, RuntimeAssumption DEF RuntimeAssumption
<1> QED
  BY <1>2, FS_CardinalityType

\* startRequest opens one lease on its config and none elsewhere.
LEMMA StartOpensOne ==
  ASSUME RuntimeTypeOK, LeaseLifecycle,
         NEW l \in Lease, NEW c \in Config, NEW max \in Limit,
         startRequest(l, c, max)
  PROVE  /\ Cardinality(OpenLeases(c)') = Cardinality(OpenLeases(c)) + 1
         /\ OpenLeases(c)' = OpenLeases(c) \cup {l}
         /\ \A d \in Config \ {c} : OpenLeases(d)' = OpenLeases(d)
<1>1. c # NoConfig /\ leaseConfig[l] = NoConfig /\ ~finished[l]
  BY RuntimeAssumption DEF RuntimeAssumption, RuntimeTypeOK, LeaseLifecycle, startRequest
<1>2. /\ leaseConfig' = [leaseConfig EXCEPT ![l] = c]
      /\ finished' = finished
  BY DEF startRequest
<1>3. l \notin OpenLeases(c)
  BY <1>1 DEF OpenLeases
<1>4. OpenLeases(c)' = OpenLeases(c) \cup {l}
  BY <1>1, <1>2 DEF OpenLeases, RuntimeTypeOK
<1>5. \A d \in Config \ {c} : OpenLeases(d)' = OpenLeases(d)
  BY <1>1, <1>2, RuntimeAssumption DEF OpenLeases, RuntimeTypeOK, RuntimeAssumption
<1>6. Cardinality(OpenLeases(c) \cup {l}) = Cardinality(OpenLeases(c)) + 1
  BY <1>3, OpenLeasesFinite, FS_AddElement
<1> QED
  BY <1>4, <1>5, <1>6

\* Finish closes one open lease of its config and none elsewhere.
LEMMA FinishClosesOne ==
  ASSUME RuntimeTypeOK,
         NEW l \in Lease, NEW success \in BOOLEAN, NEW measured \in BOOLEAN,
         Finish(l, success, measured),
         NEW c, c = leaseConfig[l]
  PROVE  /\ c \in Config
         /\ l \in OpenLeases(c)
         /\ Cardinality(OpenLeases(c)') = Cardinality(OpenLeases(c)) - 1
         /\ Cardinality(OpenLeases(c)) \in Nat \ {0}
         /\ OpenLeases(c)' = OpenLeases(c) \ {l}
         /\ \A d \in Config \ {c} : OpenLeases(d)' = OpenLeases(d)
<1>1. /\ c \in Config
      /\ ~finished[l]
      /\ finished' = [finished EXCEPT ![l] = TRUE]
      /\ leaseConfig' = leaseConfig
  BY DEF Finish, finishRequest, alreadyFinished, RuntimeTypeOK
<1>2. l \in OpenLeases(c)
  BY <1>1 DEF OpenLeases
<1>3. OpenLeases(c)' = OpenLeases(c) \ {l}
  BY <1>1 DEF OpenLeases, RuntimeTypeOK
<1>4. \A d \in Config \ {c} : OpenLeases(d)' = OpenLeases(d)
  BY <1>1 DEF OpenLeases, RuntimeTypeOK
<1>5. Cardinality(OpenLeases(c) \ {l}) = Cardinality(OpenLeases(c)) - 1
  BY <1>2, OpenLeasesFinite, FS_RemoveElement
<1>6. Cardinality(OpenLeases(c)) # 0
  BY <1>2, OpenLeasesFinite, FS_EmptySet
<1> QED
  BY <1>1, <1>2, <1>3, <1>4, <1>5, <1>6, OpenLeasesFinite
-----------------------------------------------------------------------------
(* The inductive invariant.                                                *)

\* The empty manager satisfies the invariant.
LEMMA RuntimeInitInv == RuntimeInit => RuntimeInv
<1> SUFFICES ASSUME RuntimeInit PROVE RuntimeInv
  OBVIOUS
<1>1. RuntimeTypeOK
  BY RuntimeAssumption DEF RuntimeInit, RuntimeTypeOK, RuntimeAssumption
<1>2. LeaseLifecycle
  BY DEF RuntimeInit, LeaseLifecycle
<1>3. ASSUME NEW c \in Config PROVE OpenLeases(c) = {}
  BY <1>3, RuntimeAssumption DEF RuntimeInit, OpenLeases, RuntimeAssumption
<1>4. ActiveMatchesLeases
  BY <1>3, FS_EmptySet DEF RuntimeInit, ActiveMatchesLeases
<1>5. TelemetryConsistent
  BY DEF RuntimeInit, TelemetryConsistent
<1>6. ASSUME NEW m \in Model PROVE {r \in waiters : ModelOf[r] = m} = {}
  BY DEF RuntimeInit
<1>7. WaitersCounted
  BY <1>6, FS_EmptySet DEF RuntimeInit, WaitersCounted
<1> QED
  BY <1>1, <1>2, <1>4, <1>5, <1>7 DEF RuntimeInv

\* A step that leaves leases and active counts alone leaves the open leases
\* and their counting alone.
LEMMA LeasesUntouched ==
  ASSUME UNCHANGED <<leaseConfig, finished>>
  PROVE  /\ \A c \in Config : OpenLeases(c)' = OpenLeases(c)
         /\ ActiveMatchesLeases /\ UNCHANGED activeRequests
              => ActiveMatchesLeases'
<1>1. \A c \in Config : OpenLeases(c)' = OpenLeases(c)
  BY DEF OpenLeases
<1> QED
  BY <1>1 DEF ActiveMatchesLeases

\* startRequest preserves the invariant.
LEMMA StartInv ==
  ASSUME RuntimeInv, NEW l \in Lease, NEW c \in Config, NEW max \in Limit,
         startRequest(l, c, max)
  PROVE  RuntimeInv'
<1> USE DEF RuntimeInv
<1>1. limitInForce(c, max) \in Limit \cup {0}
  BY DEF limitInForce, RuntimeTypeOK
<1>2. RuntimeTypeOK'
  BY <1>1 DEF startRequest, Register, RuntimeTypeOK, telemetry, waitVars
<1>3. LeaseLifecycle'
  BY DEF startRequest, Register, RuntimeTypeOK, LeaseLifecycle
<1>4. ActiveMatchesLeases'
  <2>1. /\ Cardinality(OpenLeases(c)') = Cardinality(OpenLeases(c)) + 1
        /\ \A d \in Config \ {c} : OpenLeases(d)' = OpenLeases(d)
    BY StartOpensOne
  <2>2. activeRequests' = [activeRequests EXCEPT ![c] = @ + 1]
    BY DEF startRequest
  <2>3. ASSUME NEW d \in Config
        PROVE  activeRequests'[d] = Cardinality(OpenLeases(d)')
    <3>1. CASE d = c
      BY <2>1, <2>2, <3>1 DEF ActiveMatchesLeases, RuntimeTypeOK
    <3>2. CASE d # c
      BY <2>1, <2>2, <3>2 DEF ActiveMatchesLeases, RuntimeTypeOK
    <3> QED
      BY <3>1, <3>2
  <2> QED
    BY <2>3 DEF ActiveMatchesLeases
<1>5. TelemetryConsistent'
  BY DEF startRequest, TelemetryConsistent, telemetry
<1>6. WaitersCounted'
  BY DEF startRequest, WaitersCounted, waitVars
<1> QED
  BY <1>2, <1>3, <1>4, <1>5, <1>6

\* Finish preserves the invariant: the clamp at zero is never needed.
LEMMA FinishInv ==
  ASSUME RuntimeInv,
         NEW l \in Lease, NEW success \in BOOLEAN, NEW measured \in BOOLEAN,
         Finish(l, success, measured)
  PROVE  RuntimeInv'
<1> USE DEF RuntimeInv
<1> PICK c : c = leaseConfig[l]
  OBVIOUS
<1>1. /\ c \in Config
      /\ Cardinality(OpenLeases(c)') = Cardinality(OpenLeases(c)) - 1
      /\ Cardinality(OpenLeases(c)) \in Nat \ {0}
      /\ \A d \in Config \ {c} : OpenLeases(d)' = OpenLeases(d)
  BY FinishClosesOne
<1>2. finishRequest(c, success, measured)
  BY DEF Finish
<1>3. RuntimeTypeOK'
  <2>1. finished' \in [Lease -> BOOLEAN]
    BY DEF Finish, RuntimeTypeOK
  <2>2. ewmaSet' \in [Config -> BOOLEAN]
    BY <1>2 DEF finishRequest, RuntimeTypeOK
  <2> QED
    BY <1>1, <1>2, <2>1, <2>2 DEF finishRequest, Register, RuntimeTypeOK, waitVars
<1>4. LeaseLifecycle'
  BY <1>1, <1>2 DEF Finish, finishRequest, Register, LeaseLifecycle, RuntimeTypeOK
<1>5. ActiveMatchesLeases'
  <2>1. activeRequests[c] = Cardinality(OpenLeases(c))
    BY <1>1 DEF ActiveMatchesLeases
  <2>2. activeRequests' = [activeRequests EXCEPT ![c] = @ - 1]
    <3>1. activeRequests[c] > 0
      BY <1>1, <2>1
    <3>2. activeRequests' =
            [activeRequests EXCEPT ![c] = IF @ > 0 THEN @ - 1 ELSE @]
      BY <1>2 DEF finishRequest
    <3> QED
      BY <3>1, <3>2
  <2>3. ASSUME NEW d \in Config
        PROVE  activeRequests'[d] = Cardinality(OpenLeases(d)')
    <3>1. CASE d = c
      BY <1>1, <2>1, <2>2, <3>1 DEF RuntimeTypeOK
    <3>2. CASE d # c
      BY <1>1, <2>2, <3>2 DEF ActiveMatchesLeases, RuntimeTypeOK
    <3> QED
      BY <3>1, <3>2
  <2> QED
    BY <2>3 DEF ActiveMatchesLeases
<1>6. TelemetryConsistent'
  <2>1. ASSUME NEW d \in Config
        PROVE  totalRequests'[d] = successCount'[d] + failureCount'[d]
    BY <1>1, <1>2 DEF finishRequest, TelemetryConsistent, RuntimeTypeOK
  <2>2. ASSUME NEW d \in Config
        PROVE  ewmaSet'[d] => totalRequests'[d] > 0
    <3>1. CASE d = c
      BY <1>1, <1>2, <3>1 DEF finishRequest, RuntimeTypeOK
    <3>2. CASE d # c
      <4>1. ewmaSet'[d] = ewmaSet[d] /\ totalRequests'[d] = totalRequests[d]
        BY <1>2, <3>2 DEF finishRequest, RuntimeTypeOK
      <4> QED
        BY <4>1 DEF TelemetryConsistent
    <3> QED
      BY <3>1, <3>2
  <2> QED
    BY <2>1, <2>2 DEF TelemetryConsistent
<1>7. WaitersCounted'
  BY <1>2 DEF finishRequest, WaitersCounted, waitVars
<1> QED
  BY <1>3, <1>4, <1>5, <1>6, <1>7

\* clearTelemetry sets a chosen set of counters to zero.
LEMMA ClearTelemetryInv ==
  ASSUME RuntimeTypeOK, TelemetryConsistent, NEW C, clearTelemetry(C)
  PROVE  /\ totalRequests' \in [Config -> Nat]
         /\ successCount' \in [Config -> Nat]
         /\ failureCount' \in [Config -> Nat]
         /\ ewmaSet' \in [Config -> BOOLEAN]
         /\ \A c \in Config : totalRequests[c] = 0 => totalRequests'[c] = 0
         /\ TelemetryConsistent'
<1>1. /\ totalRequests' \in [Config -> Nat]
      /\ successCount' \in [Config -> Nat]
      /\ failureCount' \in [Config -> Nat]
      /\ \A c \in Config : totalRequests[c] = 0 => totalRequests'[c] = 0
  BY DEF clearTelemetry, RuntimeTypeOK
<1>2. ewmaSet' \in [Config -> BOOLEAN]
  BY DEF clearTelemetry
<1>3. ASSUME NEW c \in Config
      PROVE  totalRequests'[c] = successCount'[c] + failureCount'[c]
  BY DEF clearTelemetry, RuntimeTypeOK, TelemetryConsistent
<1>4. ASSUME NEW c \in Config
      PROVE  ewmaSet'[c] => totalRequests'[c] > 0
  <2>1. ewmaSet'[c] => c \notin C /\ ewmaSet[c]
    BY DEF clearTelemetry
  <2>2. c \notin C => totalRequests'[c] = totalRequests[c]
    BY DEF clearTelemetry
  <2> QED
    BY <2>1, <2>2 DEF TelemetryConsistent
<1> QED
  BY <1>1, <1>2, <1>3, <1>4 DEF TelemetryConsistent

\* updateConfig preserves the invariant.
LEMMA UpdateConfigInv ==
  ASSUME RuntimeInv, NEW c \in Config, NEW max \in Limit, updateConfig(c, max)
  PROVE  RuntimeInv'
<1> USE DEF RuntimeInv
<1>1. RuntimeTypeOK'
  <2>1. ewmaSet' \in [Config -> BOOLEAN]
    BY DEF updateConfig, telemetry, RuntimeTypeOK
  <2> QED
    BY <2>1 DEF updateConfig, Register, RuntimeTypeOK, telemetry, waitVars, leaseVars
<1>2. LeaseLifecycle'
  BY DEF updateConfig, Register, LeaseLifecycle, leaseVars
<1>3. ActiveMatchesLeases'
  BY LeasesUntouched DEF updateConfig, leaseVars
<1>4. TelemetryConsistent'
  BY DEF updateConfig, TelemetryConsistent, telemetry
<1>5. WaitersCounted'
  BY DEF updateConfig, WaitersCounted, waitVars
<1> QED
  BY <1>1, <1>2, <1>3, <1>4, <1>5

\* resetConfigState preserves the invariant.
LEMMA ResetConfigStateInv ==
  ASSUME RuntimeInv, NEW c \in Config, NEW max \in Limit,
         resetConfigState(c, max)
  PROVE  RuntimeInv'
<1> USE DEF RuntimeInv
<1>1. clearTelemetry({c})
  BY DEF resetConfigState
<1>2. RuntimeTypeOK'
  BY <1>1, ClearTelemetryInv DEF resetConfigState, RuntimeTypeOK, waitVars, leaseVars
<1>3. LeaseLifecycle'
  BY DEF resetConfigState, LeaseLifecycle, leaseVars
<1>4. ActiveMatchesLeases'
  BY LeasesUntouched DEF resetConfigState, leaseVars
<1>5. TelemetryConsistent'
  BY <1>1, ClearTelemetryInv
<1>6. WaitersCounted'
  BY DEF resetConfigState, WaitersCounted, waitVars
<1> QED
  BY <1>2, <1>3, <1>4, <1>5, <1>6

\* resetAllState preserves the invariant.
LEMMA ResetAllStateInv ==
  ASSUME RuntimeInv, resetAllState
  PROVE  RuntimeInv'
<1> USE DEF RuntimeInv
<1>1. clearTelemetry(states)
  BY DEF resetAllState
<1>2. RuntimeTypeOK'
  BY <1>1, ClearTelemetryInv DEF resetAllState, RuntimeTypeOK, waitVars, leaseVars
<1>3. LeaseLifecycle'
  BY DEF resetAllState, LeaseLifecycle, leaseVars
<1>4. ActiveMatchesLeases'
  BY LeasesUntouched DEF resetAllState, leaseVars
<1>5. TelemetryConsistent'
  BY <1>1, ClearTelemetryInv
<1>6. WaitersCounted'
  BY DEF resetAllState, WaitersCounted, waitVars
<1> QED
  BY <1>2, <1>3, <1>4, <1>5, <1>6

\* beginWait preserves the invariant.
LEMMA BeginWaitInv ==
  ASSUME RuntimeInv, NEW r \in Request, beginWait(r)
  PROVE  RuntimeInv'
<1> USE DEF RuntimeInv
<1>1. ModelOf[r] \in Model
  BY RuntimeAssumption DEF RuntimeAssumption
<1>2. RuntimeTypeOK'
  <2>1. ewmaSet' \in [Config -> BOOLEAN]
    BY DEF beginWait, telemetry, RuntimeTypeOK
  <2> QED
    BY <1>1, <2>1 DEF beginWait, RuntimeTypeOK, telemetry, leaseVars
<1>3. LeaseLifecycle'
  BY DEF beginWait, LeaseLifecycle, leaseVars
<1>4. ActiveMatchesLeases'
  BY LeasesUntouched DEF beginWait, leaseVars
<1>5. TelemetryConsistent'
  BY DEF beginWait, TelemetryConsistent, telemetry
<1>6. ASSUME NEW m \in Model
      PROVE  waitingByModel'[m] = Cardinality(WaitersOf(m)')
  <2>1. IsFiniteSet(WaitersOf(m)) /\ Cardinality(WaitersOf(m)) \in Nat
    BY WaitersFinite DEF RuntimeTypeOK
  <2>2. waitingByModel[m] = Cardinality(WaitersOf(m))
    BY DEF WaitersCounted, WaitersOf
  <2>3. CASE m = ModelOf[r]
    <3>1. WaitersOf(m)' = WaitersOf(m) \cup {r}
      BY <2>3 DEF beginWait, WaitersOf
    <3>2. r \notin WaitersOf(m)
      BY DEF beginWait, WaitersOf
    <3>3. Cardinality(WaitersOf(m) \cup {r}) = Cardinality(WaitersOf(m)) + 1
      BY <2>1, <3>2, FS_AddElement
    <3> QED
      BY <2>2, <2>3, <3>1, <3>3 DEF beginWait, RuntimeTypeOK
  <2>4. CASE m # ModelOf[r]
    <3>1. WaitersOf(m)' = WaitersOf(m)
      BY <2>4 DEF beginWait, WaitersOf
    <3> QED
      BY <2>2, <2>4, <3>1 DEF beginWait, RuntimeTypeOK
  <2> QED
    BY <2>3, <2>4
<1>7. WaitersCounted'
  BY <1>6 DEF WaitersCounted, WaitersOf
<1> QED
  BY <1>2, <1>3, <1>4, <1>5, <1>7

\* endWait preserves the invariant: it is called once per beginWait, so its
\* removal of a count at one or below is a decrement.
LEMMA EndWaitInv ==
  ASSUME RuntimeInv, NEW r \in Request, endWait(r)
  PROVE  RuntimeInv'
<1> USE DEF RuntimeInv
<1>1. ModelOf[r] \in Model
  BY RuntimeAssumption DEF RuntimeAssumption
<1>2. RuntimeTypeOK'
  <2>1. ewmaSet' \in [Config -> BOOLEAN]
    BY DEF endWait, telemetry, RuntimeTypeOK
  <2>2. waitingByModel' \in [Model -> Nat]
    BY <1>1 DEF endWait, afterEndWait, RuntimeTypeOK
  <2> QED
    BY <2>1, <2>2 DEF endWait, RuntimeTypeOK, telemetry, leaseVars
<1>3. LeaseLifecycle'
  BY DEF endWait, LeaseLifecycle, leaseVars
<1>4. ActiveMatchesLeases'
  BY LeasesUntouched DEF endWait, leaseVars
<1>5. TelemetryConsistent'
  BY DEF endWait, TelemetryConsistent, telemetry
<1>6. ASSUME NEW m \in Model
      PROVE  waitingByModel'[m] = Cardinality(WaitersOf(m)')
  <2>1. IsFiniteSet(WaitersOf(m)) /\ Cardinality(WaitersOf(m)) \in Nat
    BY WaitersFinite DEF RuntimeTypeOK
  <2>2. waitingByModel[m] = Cardinality(WaitersOf(m))
    BY DEF WaitersCounted, WaitersOf
  <2>3. CASE m = ModelOf[r]
    <3>1. WaitersOf(m)' = WaitersOf(m) \ {r}
      BY <2>3 DEF endWait, WaitersOf
    <3>2. r \in WaitersOf(m)
      BY <2>3 DEF endWait, WaitersOf
    <3>3. Cardinality(WaitersOf(m) \ {r}) = Cardinality(WaitersOf(m)) - 1
      BY <2>1, <3>2, FS_RemoveElement
    <3>4. Cardinality(WaitersOf(m)) # 0
      BY <2>1, <3>2, FS_EmptySet
    <3>5. waitingByModel'[m] = afterEndWait(waitingByModel[m])
      BY <2>3 DEF endWait, RuntimeTypeOK
    <3> QED
      BY <2>1, <2>2, <3>1, <3>3, <3>4, <3>5 DEF afterEndWait
  <2>4. CASE m # ModelOf[r]
    <3>1. WaitersOf(m)' = WaitersOf(m)
      BY <2>4 DEF endWait, WaitersOf
    <3> QED
      BY <2>2, <2>4, <3>1 DEF endWait, RuntimeTypeOK
  <2> QED
    BY <2>3, <2>4
<1>7. WaitersCounted'
  BY <1>6 DEF WaitersCounted, WaitersOf
<1> QED
  BY <1>2, <1>3, <1>4, <1>5, <1>7

\* Stuttering preserves the invariant.
LEMMA RuntimeStutterInv ==
  ASSUME RuntimeInv, UNCHANGED runtimeVars
  PROVE  RuntimeInv'
<1> USE DEF runtimeVars, telemetry, waitVars, leaseVars
<1>1. RuntimeTypeOK'
  BY DEF RuntimeInv, RuntimeTypeOK
<1>2. LeaseLifecycle'
  BY DEF RuntimeInv, LeaseLifecycle
<1>3. ActiveMatchesLeases'
  BY LeasesUntouched DEF RuntimeInv
<1>4. TelemetryConsistent' /\ WaitersCounted'
  BY DEF RuntimeInv, TelemetryConsistent, WaitersCounted
<1> QED
  BY <1>1, <1>2, <1>3, <1>4 DEF RuntimeInv

\* Every step of the manager preserves the invariant.
LEMMA RuntimeNextInv == RuntimeInv /\ [RuntimeNext]_runtimeVars => RuntimeInv'
<1> SUFFICES ASSUME RuntimeInv, [RuntimeNext]_runtimeVars PROVE RuntimeInv'
  OBVIOUS
<1>1. ASSUME NEW l \in Lease, NEW c \in Config, NEW max \in Limit,
             startRequest(l, c, max)
      PROVE  RuntimeInv'
  BY <1>1, StartInv
<1>2. ASSUME NEW l \in Lease, NEW success \in BOOLEAN, NEW measured \in BOOLEAN,
             Finish(l, success, measured)
      PROVE  RuntimeInv'
  BY <1>2, FinishInv
<1>3. ASSUME NEW c \in Config, NEW max \in Limit, updateConfig(c, max)
      PROVE  RuntimeInv'
  BY <1>3, UpdateConfigInv
<1>4. ASSUME NEW c \in Config, NEW max \in Limit, resetConfigState(c, max)
      PROVE  RuntimeInv'
  BY <1>4, ResetConfigStateInv
<1>5. CASE resetAllState
  BY <1>5, ResetAllStateInv
<1>6. ASSUME NEW r \in Request, beginWait(r) PROVE RuntimeInv'
  BY <1>6, BeginWaitInv
<1>7. ASSUME NEW r \in Request, endWait(r) PROVE RuntimeInv'
  BY <1>7, EndWaitInv
<1>8. CASE UNCHANGED runtimeVars
  BY <1>8, RuntimeStutterInv
<1> QED
  BY <1>1, <1>2, <1>3, <1>4, <1>5, <1>6, <1>7, <1>8 DEF RuntimeNext

\* The inductive invariant holds in every reachable state of the manager.
THEOREM RuntimeInvariant == RuntimeSpec => []RuntimeInv
  BY RuntimeInitInv, RuntimeNextInv, PTL DEF RuntimeSpec
-----------------------------------------------------------------------------
(* The properties the runs check.                                          *)

\* Types, and absent entries have zero fields (getOrCreateStateLocked).
THEOREM RuntimeTypeCorrect == RuntimeSpec => []RuntimeTypeOK
<1>1. RuntimeInv => RuntimeTypeOK
  BY DEF RuntimeInv
<1> QED
  BY <1>1, RuntimeInvariant, PTL

\* The active count of a backend is the number of its open leases.
THEOREM ActiveCountCorrect == RuntimeSpec => []ActiveMatchesLeases
<1>1. RuntimeInv => ActiveMatchesLeases
  BY DEF RuntimeInv
<1> QED
  BY <1>1, RuntimeInvariant, PTL

\* The outcome counters add up across resets with requests in flight.
THEOREM TelemetryCorrect == RuntimeSpec => []TelemetryConsistent
<1>1. RuntimeInv => TelemetryConsistent
  BY DEF RuntimeInv
<1> QED
  BY <1>1, RuntimeInvariant, PTL

\* The waiting count of a model is the number of its waiting requests.
THEOREM WaitingCountCorrect == RuntimeSpec => []WaitersCounted
<1>1. RuntimeInv => WaitersCounted
  BY DEF RuntimeInv
<1> QED
  BY <1>1, RuntimeInvariant, PTL
-----------------------------------------------------------------------------
(* The manager implements the limiter.                                     *)

\* The leases handed out so far.
IssuedLeases == {l \in Lease : leaseConfig[l] # NoConfig}

\* A step that changes neither leases nor limits nor entries stutters.
LEMMA LimiterStutter ==
  ASSUME UNCHANGED <<states, maxConcurrency, leaseConfig, finished>>
  PROVE  UNCHANGED Limiter!limiterVars
<1>1. [c \in Config |-> OpenLeases(c)]' = [c \in Config |-> OpenLeases(c)]
  BY DEF OpenLeases
<1> QED
  BY <1>1 DEF Limiter!limiterVars

\* The instance's Cardinality is the library's.
LEMMA SameCardinality == ASSUME NEW S PROVE Limiter!Cardinality(S) = Cardinality(S)
  BY DEF Limiter!Cardinality, Cardinality

\* startRequest is an admission: the count it tests is the number of holders.
LEMMA StartAdmits ==
  ASSUME RuntimeInv, NEW l \in Lease, NEW c \in Config, NEW max \in Limit,
         startRequest(l, c, max)
  PROVE  Limiter!Admit(l, c)
<1> USE DEF RuntimeInv
<1> DEFINE holders == [d \in Config |-> OpenLeases(d)]
<1>1. l \notin IssuedLeases
  BY DEF startRequest, IssuedLeases
<1>5. IssuedLeases' = IssuedLeases \cup {l}
  BY RuntimeAssumption DEF startRequest, IssuedLeases, RuntimeTypeOK, RuntimeAssumption
<1>2. Limiter!Register(c)
  <2>1. c \in states => maxConcurrency' = maxConcurrency
    BY DEF startRequest, limitInForce, RuntimeTypeOK
  <2>2. c \notin states =>
          maxConcurrency' = [maxConcurrency EXCEPT ![c] = max]
    BY DEF startRequest, limitInForce
  <2> QED
    BY <2>1, <2>2 DEF Limiter!Register, startRequest, Register
<1>3. holders' = [holders EXCEPT ![c] = @ \cup {l}]
  BY StartOpensOne
<1>4. maxConcurrency'[c] = 0 \/ Cardinality(holders'[c]) <= maxConcurrency'[c]
  <2>1. Cardinality(OpenLeases(c)') = activeRequests[c] + 1
    BY StartOpensOne DEF ActiveMatchesLeases
  <2>2. limitInForce(c, max) \in Nat
    <3>1. Limit \cup {0} \subseteq Nat
      BY RuntimeAssumption DEF RuntimeAssumption
    <3>2. limitInForce(c, max) \in Limit \cup {0}
      BY DEF limitInForce, RuntimeTypeOK
    <3> QED
      BY <3>1, <3>2
  <2>3. maxConcurrency'[c] = limitInForce(c, max)
    BY DEF startRequest, RuntimeTypeOK
  <2>4. HasRoom(c, limitInForce(c, max)) /\ activeRequests[c] \in Nat
    BY DEF startRequest, RuntimeTypeOK
  <2>5. holders'[c] = OpenLeases(c)'
    OBVIOUS
  <2> QED
    BY <2>1, <2>2, <2>3, <2>4, <2>5 DEF HasRoom
<1> QED
  BY <1>1, <1>2, <1>3, <1>4, <1>5, SameCardinality DEF Limiter!Admit, IssuedLeases

\* Finish is a release of its config.
LEMMA FinishReleases ==
  ASSUME RuntimeInv,
         NEW l \in Lease, NEW success \in BOOLEAN, NEW measured \in BOOLEAN,
         Finish(l, success, measured)
  PROVE  \E c \in Config : Limiter!Release(l, c)
<1> USE DEF RuntimeInv
<1> DEFINE holders == [d \in Config |-> OpenLeases(d)]
<1> PICK c : c = leaseConfig[l]
  OBVIOUS
<1>1. /\ c \in Config
      /\ l \in OpenLeases(c)
      /\ OpenLeases(c)' = OpenLeases(c) \ {l}
      /\ \A d \in Config \ {c} : OpenLeases(d)' = OpenLeases(d)
  BY FinishClosesOne
<1>2. holders' = [holders EXCEPT ![c] = @ \ {l}]
  BY <1>1
<1>3. finishRequest(c, success, measured)
  BY DEF Finish
<1>4. states' = states
  BY <1>1, <1>3 DEF finishRequest, Register, LeaseLifecycle, Finish
<1>5. UNCHANGED <<maxConcurrency, leaseConfig>>
  BY <1>3 DEF finishRequest
<1> QED
  BY <1>1, <1>2, <1>4, <1>5 DEF Limiter!Release

\* updateConfig and resetConfigState set a limit, with nobody moving.
LEMMA UpdateSetsLimit ==
  ASSUME NEW c \in Config, NEW max \in Limit,
         updateConfig(c, max) \/ resetConfigState(c, max)
  PROVE  Limiter!SetLimit(c, max)
<1>1. /\ states' = states \cup {c}
      /\ maxConcurrency' = [maxConcurrency EXCEPT ![c] = max]
      /\ UNCHANGED <<leaseConfig, finished>>
  BY DEF updateConfig, resetConfigState, Register, leaseVars
<1>2. [d \in Config |-> OpenLeases(d)]' = [d \in Config |-> OpenLeases(d)]
  BY <1>1 DEF OpenLeases
<1> QED
  BY <1>1, <1>2 DEF Limiter!SetLimit

\* The manager, with any callers, implements the concurrency limiter.
THEOREM RuntimeImplementsLimiter == RuntimeSpec => ImplementsLimiter
<1>1. RuntimeInit => Limiter!Init
  BY RuntimeAssumption DEF RuntimeInit, Limiter!Init, OpenLeases, RuntimeAssumption
<1>2. RuntimeInv /\ [RuntimeNext]_runtimeVars => [Limiter!Next]_(Limiter!limiterVars)
  <2> SUFFICES ASSUME RuntimeInv, [RuntimeNext]_runtimeVars
               PROVE  Limiter!Next \/ UNCHANGED Limiter!limiterVars
    OBVIOUS
  <2>1. ASSUME NEW l \in Lease, NEW c \in Config, NEW max \in Limit,
               startRequest(l, c, max)
        PROVE  Limiter!Next
    BY <2>1, StartAdmits DEF Limiter!Next
  <2>2. ASSUME NEW l \in Lease, NEW success \in BOOLEAN,
               NEW measured \in BOOLEAN, Finish(l, success, measured)
        PROVE  Limiter!Next
    BY <2>2, FinishReleases DEF Limiter!Next
  <2>3. ASSUME NEW c \in Config, NEW max \in Limit,
               updateConfig(c, max) \/ resetConfigState(c, max)
        PROVE  Limiter!Next
    BY <2>3, UpdateSetsLimit DEF Limiter!Next
  <2>4. ASSUME resetAllState \/ UNCHANGED runtimeVars
                 \/ \E r \in Request : beginWait(r) \/ endWait(r)
        PROVE  UNCHANGED Limiter!limiterVars
    <3>1. UNCHANGED <<states, maxConcurrency, leaseConfig, finished>>
      BY <2>4 DEF resetAllState, beginWait, endWait, runtimeVars, leaseVars
    <3> QED
      BY <3>1, LimiterStutter
  <2> QED
    BY <2>1, <2>2, <2>3, <2>4 DEF RuntimeNext
<1> QED
  BY <1>1, <1>2, RuntimeInvariant, PTL DEF RuntimeSpec, ImplementsLimiter, Limiter!Spec
=============================================================================
