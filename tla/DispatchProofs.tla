--------------------------- MODULE DispatchProofs ---------------------------
(***************************************************************************)
(* Theorems about Dispatch, for any requests, backends, priorities, limits *)
(* and retry bounds: the handlers use the manager only as BackendRuntime   *)
(* allows its callers to, so its theorems hold in the composed system, and *)
(* the safety properties of the dispatch runs hold.                        *)
(*                                                                         *)
(* The inductive invariant has one part per request.  Its core is          *)
(* RoundInv: of a round's candidates every one is judged or still ahead,   *)
(* what is ahead is sorted and free of repetitions, and a failure that is  *)
(* remembered in lastFailure or lastErr has a failed candidate behind it.  *)
(***************************************************************************)
EXTENDS Dispatch, BackendRuntimeProofs, Functions

Judged == {"failed", "busy", "unsupported"}

\* The backends that are still ahead in the round, the one in use included.
Ahead(r) == Range(orderedConfigs[r])

Ordered(s) ==
  \A i, j \in DOMAIN s :
    i < j => s[i] # s[j] /\ Priority[s[i]] <= Priority[s[j]]

InRound(r) == pc[r] \in {"attempt"} \cup InUse

Failing(r) == lastFailure[r] # NoConfig \/ lastErr[r]

SomeFailed(r) == \E c \in configs[r] \ Ahead(r) : verdict[r][c] = "failed"

AllJudged(r) == \A c \in configs[r] \ Ahead(r) : verdict[r][c] \in Judged

\* The round as far as it went.
RoundInv(r) ==
  /\ InRound(r) =>
       AllJudged(r) /\ Ordered(orderedConfigs[r]) /\ (Failing(r) => SomeFailed(r))
  /\ ~InRound(r) => ~Failing(r)

\* What the request holds, and has held, of the manager.
LeaseInv(r) ==
  /\ \A c \in Config : leaseConfig[<<r, c>>] \in {c, NoConfig}
  /\ r \in waiters <=> pc[r] = "waiting"
  /\ \A c \in Config :
       <<r, c>> \in OpenLeases(c) <=> pc[r] \in InUse /\ c = current(r)
  /\ ~Failing(r) /\ pc[r] \notin InUse \cup {"done"} =>
       \A c \in Config : leaseConfig[<<r, c>>] = NoConfig

\* What the client was told.
OutcomeInv(r) ==
  /\ outcome[r] # "none" => pc[r] = "done"
  /\ outcome[r] \in {"relayed", "error"} =>
       /\ \A c \in configs[r] : verdict[r][c] \in Judged
       /\ \E c \in configs[r] : verdict[r][c] = "failed"

RequestInv(r) == RoundInv(r) /\ LeaseInv(r) /\ OutcomeInv(r)

\* A new request has no round yet, and one that uses a backend has it at the
\* head of its round.
StageHasRound ==
  \A r \in Request :
    /\ pc[r] = "new" => orderedConfigs[r] = <<>>
    /\ pc[r] \in InUse => orderedConfigs[r] # <<>>

TypeInv ==
  /\ DispatchTypeOK
  /\ orderedConfigs \in [Request -> Seq(Config)]
  /\ StageHasRound

DispatchInv ==
  /\ RuntimeInv
  /\ TypeInv
  /\ \A r \in Request : RequestInv(r)
-----------------------------------------------------------------------------
(* Sequences of backends.                                                  *)

\* Moving to the next backend of a round takes exactly the first one off it.
LEMMA TailOfRound ==
  ASSUME NEW s \in Seq(Config), s # <<>>, Ordered(s)
  PROVE  /\ Head(s) \in Config
         /\ Tail(s) \in Seq(Config)
         /\ Range(s) = {Head(s)} \cup Range(Tail(s))
         /\ Head(s) \notin Range(Tail(s))
         /\ Ordered(Tail(s))
         /\ \A c \in Range(s) : c = Head(s) \/ Priority[Head(s)] <= Priority[c]
<1>1. /\ Len(s) \in Nat \ {0}
      /\ DOMAIN s = 1..Len(s)
      /\ Head(s) = s[1]
      /\ Head(s) \in Config
      /\ Tail(s) \in Seq(Config)
  OBVIOUS
<1>2. /\ DOMAIN Tail(s) = 1..(Len(s) - 1)
      /\ \A i \in 1..(Len(s) - 1) : Tail(s)[i] = s[i + 1]
  OBVIOUS
<1>3. Range(s) = {Head(s)} \cup Range(Tail(s))
  <2>1. \A i \in DOMAIN s : i = 1 \/ (i - 1 \in DOMAIN Tail(s) /\ s[i] = Tail(s)[i - 1])
    BY <1>1, <1>2
  <2>2. \A i \in DOMAIN Tail(s) : i + 1 \in DOMAIN s /\ Tail(s)[i] = s[i + 1]
    BY <1>1, <1>2
  <2>3. ASSUME NEW c \in Range(s) PROVE c \in {Head(s)} \cup Range(Tail(s))
    <3>1. PICK i \in DOMAIN s : c = s[i]
      BY DEF Range
    <3>2. c = s[1] \/ \E j \in DOMAIN Tail(s) : c = Tail(s)[j]
      BY <2>1, <3>1
    <3> QED
      BY <1>1, <3>2 DEF Range
  <2>4. ASSUME NEW c \in Range(Tail(s)) PROVE c \in Range(s)
    <3>1. PICK i \in DOMAIN Tail(s) : c = Tail(s)[i]
      BY DEF Range
    <3> QED
      BY <2>2, <3>1 DEF Range
  <2>5. Head(s) \in Range(s)
    <3>1. 1 \in DOMAIN s
      BY <1>1
    <3> QED
      BY <1>1, <3>1 DEF Range
  <2> QED
    BY <2>3, <2>4, <2>5
<1>4. Head(s) \notin Range(Tail(s))
  <2> SUFFICES ASSUME NEW i \in DOMAIN Tail(s) PROVE Tail(s)[i] # Head(s)
    BY DEF Range
  <2>1. 1 \in DOMAIN s /\ i + 1 \in DOMAIN s /\ 1 < i + 1
    BY <1>1, <1>2
  <2> QED
    BY <1>1, <1>2, <2>1 DEF Ordered
<1>5. Ordered(Tail(s))
  <2> SUFFICES ASSUME NEW i \in DOMAIN Tail(s), NEW j \in DOMAIN Tail(s), i < j
               PROVE  /\ Tail(s)[i] # Tail(s)[j]
                      /\ Priority[Tail(s)[i]] <= Priority[Tail(s)[j]]
    BY DEF Ordered
  <2>1. i + 1 \in DOMAIN s /\ j + 1 \in DOMAIN s /\ i + 1 < j + 1
    BY <1>1, <1>2
  <2> QED
    BY <1>2, <2>1 DEF Ordered
<1>6. ASSUME NEW c \in Range(s)
      PROVE  c = Head(s) \/ Priority[Head(s)] <= Priority[c]
  <2>1. PICK i \in DOMAIN s : c = s[i]
    BY DEF Range
  <2>2. 1 \in DOMAIN s /\ (i = 1 \/ 1 < i)
    BY <1>1
  <2> QED
    BY <1>1, <2>1, <2>2 DEF Ordered
<1> QED
  BY <1>1, <1>3, <1>4, <1>5, <1>6

\* The backend in use is one of the candidates.
LEMMA CurrentIsCandidate ==
  ASSUME TypeInv, NEW r \in Request, orderedConfigs[r] # <<>>
  PROVE  /\ current(r) \in configs[r]
         /\ current(r) \in Config
         /\ leaseOf(r) \in Lease
<1>1. orderedConfigs[r] \in Seq(configs[r]) /\ configs[r] \in SUBSET Config
  BY DEF TypeInv, DispatchTypeOK
<1>2. Head(orderedConfigs[r]) \in configs[r]
  BY <1>1
<1> QED
  BY <1>1, <1>2, DispatchAssumption DEF current, leaseOf, DispatchAssumption
-----------------------------------------------------------------------------
(* Types.                                                                  *)

\* Leaving the handler keeps the types.
LEMMA AnswerType ==
  ASSUME TypeInv, NEW r \in Request, NEW o \in Outcomes, answer(r, o),
         logged' \subseteq Request
  PROVE  TypeInv'
<1> USE DEF TypeInv, DispatchTypeOK
<1>1. /\ pc' \in [Request -> Stages]
      /\ outcome' \in [Request -> Outcomes]
      /\ unsupportedCount' \in [Request -> Nat]
      /\ lastFailure' \in [Request -> Config \cup {NoConfig}]
  BY DEF answer, goto, Stages
<1>2. lastErr' \in [Request -> BOOLEAN]
  BY DEF answer
<1>3. retries' \in [Request -> 0..MaxRetries]
  BY DispatchAssumption DEF answer, DispatchAssumption
<1>4. /\ orderedConfigs' \in [Request -> Seq(Config)]
      /\ \A q \in Request : orderedConfigs'[q] \in Seq(configs[q])
      /\ StageHasRound'
  BY DEF answer, goto, StageHasRound, InUse
<1>5. UNCHANGED <<configs, verdict, cancelled>>
  BY DEF answer
<1> QED
  BY <1>1, <1>2, <1>3, <1>4, <1>5

\* Judging the current backend and going to the next keeps the types.
LEMMA JudgeNextType ==
  ASSUME TypeInv, NEW r \in Request, orderedConfigs[r] # <<>>,
         NEW v \in Verdicts, judge(r, v), nextConfig(r), configs' = configs
  PROVE  /\ pc' \in [Request -> Stages]
         /\ verdict' \in [Request -> [Config -> Verdicts]]
         /\ orderedConfigs' \in [Request -> Seq(Config)]
         /\ \A q \in Request : orderedConfigs'[q] \in Seq(configs'[q])
         /\ StageHasRound'
<1> USE DEF TypeInv, DispatchTypeOK
<1>1. pc' \in [Request -> Stages]
  BY DEF nextConfig, goto, Stages
<1>2. current(r) \in Config
  BY CurrentIsCandidate
<1>3. verdict' \in [Request -> [Config -> Verdicts]]
  BY <1>2 DEF judge
<1>4. /\ orderedConfigs' = [orderedConfigs EXCEPT ![r] = Tail(orderedConfigs[r])]
      /\ Tail(orderedConfigs[r]) \in Seq(Config)
      /\ Tail(orderedConfigs[r]) \in Seq(configs[r])
  BY DEF nextConfig
<1>5. /\ orderedConfigs' \in [Request -> Seq(Config)]
      /\ \A q \in Request : orderedConfigs'[q] \in Seq(configs'[q])
      /\ StageHasRound'
  BY <1>4 DEF nextConfig, goto, StageHasRound, InUse
<1> QED
  BY <1>1, <1>3, <1>5

\* An order over finitely many backends is a sequence of them.
LEMMA OrderIsSequence ==
  ASSUME NEW S \in SUBSET Config, NEW s \in attemptOrders(S)
  PROVE  /\ s \in Seq(S)
         /\ s \in Seq(Config)
         /\ Range(s) = S
         /\ Ordered(s)
<1>1. IsFiniteSet(S) /\ Cardinality(S) \in Nat
  BY FS_Subset, FS_CardinalityType, DispatchAssumption DEF DispatchAssumption
<1>2. s \in [1..Cardinality(S) -> S]
  BY DEF attemptOrders
<1>3. s \in Seq(S) /\ s \in Seq(Config)
  BY <1>1, <1>2
<1>4. Ordered(s)
  BY <1>2 DEF attemptOrders, Ordered
<1>5. Range(s) = S
  <2>1. \A i, j \in 1..Cardinality(S) : s[i] = s[j] => i = j
    BY <1>1, <1>2, <1>4 DEF Ordered
  <2>2. s \in Injection(1..Cardinality(S), S)
    BY <1>2, <2>1 DEF Injection, IsInjective
  <2>3. Cardinality(1..Cardinality(S)) = Cardinality(S)
    BY <1>1, FS_Interval
  <2>4. s \in Surjection(1..Cardinality(S), S)
    BY <1>1, <2>2, <2>3, FS_Injection
  <2> QED
    BY <1>2, <2>4 DEF Surjection, Range
<1> QED
  BY <1>3, <1>4, <1>5

\* Every step keeps the types.
LEMMA TypeStep == TypeInv /\ [Next]_vars => TypeInv'
<1> SUFFICES ASSUME TypeInv, [Next]_vars PROVE TypeInv'
  OBVIOUS
<1> USE DEF Stages, Outcomes, Verdicts, InUse
<1>1. ASSUME NEW r \in Request, handleProtocolRequest(r) PROVE TypeInv'
  <2>1. logged' \subseteq Request
    BY <1>1 DEF handleProtocolRequest, TypeInv, DispatchTypeOK
  <2>2. CASE answer(r, "rejected")
    BY <2>1, <2>2, AnswerType
  <2>3. CASE \E candidates \in Candidates :
               /\ configs' = [configs EXCEPT ![r] = candidates]
               /\ goto(r, "route")
               /\ UNCHANGED <<orderedConfigs, unsupportedCount, lastFailure,
                              lastErr, retries, verdict, cancelled, outcome>>
    <3> PICK candidates \in Candidates :
               /\ configs' = [configs EXCEPT ![r] = candidates]
               /\ goto(r, "route")
               /\ UNCHANGED <<orderedConfigs, unsupportedCount, lastFailure,
                              lastErr, retries, verdict, cancelled, outcome>>
      BY <2>3
    <3>1. candidates \in SUBSET Config
      BY DispatchAssumption DEF DispatchAssumption
    <3>2. orderedConfigs[r] = <<>>
      BY <1>1 DEF handleProtocolRequest, TypeInv, StageHasRound
    <3>3. /\ orderedConfigs' \in [Request -> Seq(Config)]
          /\ \A q \in Request : orderedConfigs'[q] \in Seq(configs'[q])
          /\ configs' \in [Request -> SUBSET Config]
      BY <3>1, <3>2 DEF TypeInv, DispatchTypeOK
    <3>4. pc' \in [Request -> Stages] /\ StageHasRound'
      BY DEF TypeInv, DispatchTypeOK, StageHasRound, goto
    <3> QED
      BY <2>1, <3>3, <3>4 DEF TypeInv, DispatchTypeOK
  <2> QED
    BY <1>1, <2>2, <2>3 DEF handleProtocolRequest
<1>2. ASSUME NEW r \in Request, buildAttemptOrder(r) PROVE TypeInv'
  <2>1. PICK order \in attemptOrders(available(configs[r])) :
          /\ orderedConfigs' = [orderedConfigs EXCEPT ![r] = order]
          /\ goto(r, IF order = <<>> THEN "busy" ELSE "attempt")
    BY <1>2 DEF buildAttemptOrder
  <2>2. available(configs[r]) \in SUBSET configs[r] /\ configs[r] \in SUBSET Config
    BY DEF available, TypeInv, DispatchTypeOK
  <2>3. order \in Seq(available(configs[r])) /\ order \in Seq(Config)
    BY <2>2, OrderIsSequence
  <2>4. order \in Seq(configs[r])
    BY <2>2, <2>3
  <2>5. verdict' \in [Request -> [Config -> Verdicts]]
    BY <1>2 DEF buildAttemptOrder, TypeInv, DispatchTypeOK
  <2>6. UNCHANGED <<cancelled, configs, unsupportedCount, lastFailure, lastErr,
                    retries, outcome, logged>>
    BY <1>2 DEF buildAttemptOrder
  <2>7. /\ orderedConfigs' \in [Request -> Seq(Config)]
        /\ \A q \in Request : orderedConfigs'[q] \in Seq(configs[q])
    BY <2>1, <2>3, <2>4 DEF TypeInv, DispatchTypeOK
  <2>8. /\ pc' \in [Request -> Stages]
        /\ StageHasRound'
    BY <2>1 DEF TypeInv, DispatchTypeOK, StageHasRound, goto
  <2> QED
    BY <2>5, <2>6, <2>7, <2>8 DEF TypeInv, DispatchTypeOK
<1>3. ASSUME NEW r \in Request, skipUnsupported(r) PROVE TypeInv'
  <2>1. /\ orderedConfigs[r] # <<>>
        /\ judge(r, "unsupported")
        /\ nextConfig(r)
        /\ UNCHANGED <<cancelled, configs, lastFailure, lastErr, retries,
                       outcome, logged>>
    BY <1>3 DEF skipUnsupported, attempting
  <2>2. unsupportedCount' \in [Request -> Nat]
    BY <1>3 DEF skipUnsupported, TypeInv, DispatchTypeOK
  <2> QED
    BY <2>1, <2>2, JudgeNextType DEF TypeInv, DispatchTypeOK
<1>4. ASSUME NEW r \in Request, skipFull(r) PROVE TypeInv'
  <2>1. /\ orderedConfigs[r] # <<>>
        /\ judge(r, "busy")
        /\ nextConfig(r)
        /\ UNCHANGED <<cancelled, configs, unsupportedCount, lastFailure,
                       lastErr, retries, outcome, logged>>
    BY <1>4 DEF skipFull, attempting
  <2> QED
    BY <2>1, JudgeNextType DEF TypeInv, DispatchTypeOK
<1>5. ASSUME NEW r \in Request, startAttempt(r) PROVE TypeInv'
  <2>1. /\ judge(r, "inUse")
        /\ goto(r, "send")
        /\ UNCHANGED <<cancelled, configs, orderedConfigs, unsupportedCount,
                       lastFailure, lastErr, retries, outcome, logged>>
    BY <1>5 DEF startAttempt
  <2>2. current(r) \in Config
    BY <1>5, CurrentIsCandidate DEF startAttempt, attempting
  <2>3. verdict' \in [Request -> [Config -> Verdicts]]
    BY <2>1, <2>2 DEF judge, TypeInv, DispatchTypeOK
  <2>4. orderedConfigs[r] # <<>>
    BY <1>5 DEF startAttempt, attempting
  <2> QED
    BY <2>1, <2>3, <2>4 DEF TypeInv, DispatchTypeOK, StageHasRound, goto
<1>6. ASSUME NEW r \in Request, orderedConfigs[r] # <<>>, endAttempt(r),
             UNCHANGED <<cancelled, configs, unsupportedCount, outcome, logged>>,
             lastFailure' \in [Request -> Config \cup {NoConfig}],
             lastErr' \in [Request -> BOOLEAN]
      PROVE  TypeInv'
  <2>1. judge(r, "failed") /\ nextConfig(r)
    BY <1>6 DEF endAttempt
  <2>2. retries' \in [Request -> 0..MaxRetries]
    BY <1>6, DispatchAssumption DEF endAttempt, TypeInv, DispatchTypeOK, DispatchAssumption
  <2> QED
    BY <1>6, <2>1, <2>2, JudgeNextType DEF TypeInv, DispatchTypeOK
<1>7. ASSUME NEW r \in Request, attemptError(r), pc[r] \in InUse PROVE TypeInv'
  <2>1. /\ endAttempt(r)
        /\ UNCHANGED <<cancelled, configs, unsupportedCount, lastFailure,
                       outcome, logged>>
    BY <1>7 DEF attemptError
  <2>2. lastErr' \in [Request -> BOOLEAN]
    BY <1>7 DEF attemptError, TypeInv, DispatchTypeOK
  <2>3. lastFailure' \in [Request -> Config \cup {NoConfig}]
    BY <2>1 DEF TypeInv, DispatchTypeOK
  <2> QED
    BY <1>6, <1>7, <2>1, <2>2, <2>3 DEF TypeInv, StageHasRound
<1>8. ASSUME NEW r \in Request, sendFails(r) \/ cancelProviderRetry(r)
      PROVE  TypeInv'
  BY <1>7, <1>8 DEF sendFails, cancelProviderRetry
<1>9. ASSUME NEW r \in Request, sendFailureResponse(r) PROVE TypeInv'
  <2>1. /\ pc[r] \in InUse
        /\ endAttempt(r)
        /\ lastFailure' = [lastFailure EXCEPT ![r] = current(r)]
        /\ UNCHANGED <<cancelled, configs, unsupportedCount, lastErr, outcome,
                       logged>>
    BY <1>9 DEF sendFailureResponse
  <2>2. orderedConfigs[r] # <<>>
    BY <2>1 DEF TypeInv, StageHasRound
  <2>3. lastFailure' \in [Request -> Config \cup {NoConfig}]
    BY <2>1, <2>2, CurrentIsCandidate DEF TypeInv, DispatchTypeOK
  <2>4. lastErr' \in [Request -> BOOLEAN]
    BY <2>1 DEF TypeInv, DispatchTypeOK
  <2> QED
    BY <1>6, <2>1, <2>2, <2>3, <2>4
<1>10. ASSUME NEW r \in Request, NEW stage \in Stages \ {"new"}, goto(r, stage),
              stage \in InUse => pc[r] \in InUse,
              UNCHANGED <<configs, orderedConfigs, unsupportedCount, lastFailure,
                          lastErr, outcome, verdict, cancelled, logged>>,
              retries' \in [Request -> 0..MaxRetries]
       PROVE  TypeInv'
  BY <1>10 DEF TypeInv, DispatchTypeOK, StageHasRound, goto
<1>11. ASSUME NEW r \in Request,
              \/ sendBadGateway(r) \/ waitForProviderRetry(r)
              \/ sendSucceeds(r) \/ startWaiting(r) \/ capacityTimerFires(r)
       PROVE  TypeInv'
  <2>1. CASE sendBadGateway(r)
    <3>1. retries' \in [Request -> 0..MaxRetries]
      BY <2>1, DispatchAssumption
      DEF sendBadGateway, mayRetry, TypeInv, DispatchTypeOK, DispatchAssumption
    <3> QED
      BY <1>10, <2>1, <3>1 DEF sendBadGateway
  <2>2. CASE waitForProviderRetry(r)
    BY <1>10, <2>2 DEF waitForProviderRetry, roundVars, TypeInv, DispatchTypeOK
  <2>3. CASE sendSucceeds(r)
    BY <1>10, <2>3 DEF sendSucceeds, roundVars, TypeInv, DispatchTypeOK
  <2>4. CASE startWaiting(r)
    BY <1>10, <2>4 DEF startWaiting, roundVars, TypeInv, DispatchTypeOK
  <2>5. CASE capacityTimerFires(r)
    BY <1>10, <2>5 DEF capacityTimerFires, roundVars, TypeInv, DispatchTypeOK
  <2> QED
    BY <1>11, <2>1, <2>2, <2>3, <2>4, <2>5
<1>12. ASSUME NEW r \in Request, finishRound(r) PROVE TypeInv'
  <2>1. logged' \subseteq Request
    BY <1>12 DEF finishRound, TypeInv, DispatchTypeOK
  <2>2. CASE verdictOfRound(r) = "none"
    BY <1>10, <1>12, <2>2 DEF finishRound, roundVars, TypeInv, DispatchTypeOK
  <2>3. CASE verdictOfRound(r) # "none"
    <3>1. answer(r, verdictOfRound(r)) /\ verdictOfRound(r) \in Outcomes
      BY <1>12, <2>3 DEF finishRound, verdictOfRound
    <3> QED
      BY <2>1, <3>1, AnswerType
  <2> QED
    BY <2>2, <2>3
<1>13. ASSUME NEW r \in Request,
              \/ cancelWaiting(r) \/ writeProtocolResponse(r)
              \/ writeProtocolResponseFails(r) \/ replayLogResponse(r)
       PROVE  TypeInv'
  <2>1. logged' \subseteq Request
    BY <1>13 DEF cancelWaiting, writeProtocolResponse, writeProtocolResponseFails,
                 replayLogResponse, TypeInv, DispatchTypeOK
  <2>2. \E o \in Outcomes : answer(r, o)
    BY <1>13 DEF cancelWaiting, writeProtocolResponse, writeProtocolResponseFails,
                 replayLogResponse, Outcomes
  <2> QED
    BY <2>1, <2>2, AnswerType
<1>14. ASSUME NEW r \in Request, clientCancels(r) PROVE TypeInv'
  BY <1>14 DEF clientCancels, requestVars, roundVars, TypeInv, DispatchTypeOK,
               StageHasRound
<1>15. CASE administer \/ UNCHANGED vars
  BY <1>15 DEF administer, vars, requestVars, roundVars, TypeInv,
               DispatchTypeOK, StageHasRound
<1> QED
  BY <1>1, <1>2, <1>3, <1>4, <1>5, <1>8, <1>9, <1>11, <1>12, <1>13, <1>14, <1>15
  DEF Next, requestStep
-----------------------------------------------------------------------------
(* Requests do not disturb each other.                                     *)

\* What request q holds of the manager does not change.
HoldingsSame(q) ==
  /\ q \in waiters' <=> q \in waiters
  /\ \A c \in Config : /\ leaseConfig'[<<q, c>>] = leaseConfig[<<q, c>>]
                       /\ finished'[<<q, c>>] = finished[<<q, c>>]

\* Nothing of request q changes.
Same(q) ==
  /\ HoldingsSame(q)
  /\ pc'[q] = pc[q]
  /\ configs'[q] = configs[q]
  /\ orderedConfigs'[q] = orderedConfigs[q]
  /\ lastFailure'[q] = lastFailure[q]
  /\ lastErr'[q] = lastErr[q]
  /\ verdict'[q] = verdict[q]
  /\ outcome'[q] = outcome[q]

\* A request nothing of which changes keeps its part of the invariant.
LEMMA SameKeepsRequest ==
  ASSUME NEW q \in Request, RequestInv(q), Same(q)
  PROVE  RequestInv(q)'
<1>1. /\ InRound(q)' <=> InRound(q)
      /\ Failing(q)' <=> Failing(q)
      /\ Ahead(q)' = Ahead(q)
  BY DEF Same, InRound, Failing, Ahead
<1>2. /\ AllJudged(q)' <=> AllJudged(q)
      /\ SomeFailed(q)' <=> SomeFailed(q)
      /\ Ordered(orderedConfigs[q])' <=> Ordered(orderedConfigs[q])
  BY <1>1 DEF Same, AllJudged, SomeFailed, Ordered
<1>3. RoundInv(q)'
  BY <1>1, <1>2 DEF RequestInv, RoundInv
<1>4. \A c \in Config : <<q, c>> \in OpenLeases(c)' <=> <<q, c>> \in OpenLeases(c)
  BY DEF Same, HoldingsSame, OpenLeases
<1>5. LeaseInv(q)'
  BY <1>1, <1>4 DEF RequestInv, LeaseInv, Same, HoldingsSame, current
<1>6. OutcomeInv(q)'
  BY DEF RequestInv, OutcomeInv, Same
<1> QED
  BY <1>3, <1>5, <1>6 DEF RequestInv

\* The effects of the manager's methods on the leases and the waiting set.
LEMMA StartEffect ==
  ASSUME NEW l, NEW c, NEW max, startRequest(l, c, max)
  PROVE  /\ leaseConfig' = [leaseConfig EXCEPT ![l] = c]
         /\ UNCHANGED <<finished, waiters>>
BY DEF startRequest, waitVars

LEMMA FinishEffect ==
  ASSUME NEW l, NEW success, NEW measured, Finish(l, success, measured)
  PROVE  /\ finished' = [finished EXCEPT ![l] = TRUE]
         /\ UNCHANGED <<leaseConfig, waiters>>
BY DEF Finish, finishRequest, waitVars

LEMMA WaitEffect ==
  ASSUME NEW r, beginWait(r) \/ endWait(r)
  PROVE  /\ waiters' = waiters \cup {r} \/ waiters' = waiters \ {r}
         /\ UNCHANGED <<leaseConfig, finished>>
BY DEF beginWait, endWait, leaseVars

\* A step of one request changes nothing of another.
LEMMA OthersSame ==
  ASSUME TypeInv, RuntimeTypeOK,
         NEW r \in Request, NEW q \in Request \ {r}, requestStep(r)
  PROVE  Same(q)
<1>1. /\ pc'[q] = pc[q]
      /\ configs'[q] = configs[q]
      /\ orderedConfigs'[q] = orderedConfigs[q]
      /\ lastFailure'[q] = lastFailure[q]
      /\ lastErr'[q] = lastErr[q]
      /\ verdict'[q] = verdict[q]
      /\ outcome'[q] = outcome[q]
  <2> USE DEF TypeInv, DispatchTypeOK, goto, answer, judge, nextConfig, roundVars
  <2>1. CASE handleProtocolRequest(r) \/ buildAttemptOrder(r)
    BY <2>1 DEF handleProtocolRequest, buildAttemptOrder
  <2>2. CASE skipUnsupported(r) \/ skipFull(r) \/ startAttempt(r)
    BY <2>2 DEF skipUnsupported, skipFull, startAttempt
  <2>3. CASE sendFails(r) \/ cancelProviderRetry(r) \/ sendFailureResponse(r)
    BY <2>3 DEF sendFails, cancelProviderRetry, sendFailureResponse, attemptError,
                endAttempt
  <2>4. CASE \/ sendBadGateway(r) \/ waitForProviderRetry(r) \/ sendSucceeds(r)
             \/ startWaiting(r) \/ capacityTimerFires(r)
    BY <2>4 DEF sendBadGateway, waitForProviderRetry, sendSucceeds, startWaiting,
                capacityTimerFires
  <2>5. CASE finishRound(r)
    BY <2>5 DEF finishRound
  <2>6. CASE \/ cancelWaiting(r) \/ writeProtocolResponse(r)
             \/ writeProtocolResponseFails(r) \/ replayLogResponse(r)
    BY <2>6 DEF cancelWaiting, writeProtocolResponse, writeProtocolResponseFails,
                replayLogResponse
  <2> QED
    BY <2>1, <2>2, <2>3, <2>4, <2>5, <2>6 DEF requestStep
<1>2. HoldingsSame(q)
  <2> USE DEF HoldingsSame
  <2>0. \A c \in Config : \A d : <<q, c>> \in Lease /\ <<q, c>> # <<r, d>>
    BY DispatchAssumption DEF DispatchAssumption
  <2>1. ASSUME NEW c, NEW d, NEW max, startRequest(<<r, d>>, c, max) PROVE HoldingsSame(q)
    BY <2>0, <2>1, StartEffect DEF RuntimeTypeOK
  <2>2. ASSUME NEW d, NEW success, NEW measured, Finish(<<r, d>>, success, measured)
        PROVE  HoldingsSame(q)
    BY <2>0, <2>2, FinishEffect DEF RuntimeTypeOK
  <2>3. CASE beginWait(r) \/ endWait(r)
    BY <2>3, WaitEffect
  <2>4. CASE UNCHANGED runtimeVars
    BY <2>4 DEF runtimeVars, waitVars, leaseVars
  <2>5. CASE startAttempt(r)
    BY <2>1, <2>5 DEF startAttempt, leaseOf
  <2>6. CASE sendFails(r) \/ cancelProviderRetry(r) \/ sendFailureResponse(r)
    BY <2>2, <2>6 DEF sendFails, cancelProviderRetry, sendFailureResponse,
                      attemptError, endAttempt, leaseOf
  <2>7. CASE \/ writeProtocolResponse(r) \/ writeProtocolResponseFails(r)
             \/ replayLogResponse(r)
    BY <2>2, <2>7 DEF writeProtocolResponse, writeProtocolResponseFails,
                      replayLogResponse, leaseOf
  <2>8. CASE startWaiting(r) \/ capacityTimerFires(r) \/ cancelWaiting(r)
    BY <2>3, <2>8 DEF startWaiting, capacityTimerFires, cancelWaiting
  <2>9. CASE \/ handleProtocolRequest(r) \/ buildAttemptOrder(r)
             \/ skipUnsupported(r) \/ skipFull(r) \/ sendBadGateway(r)
             \/ waitForProviderRetry(r) \/ sendSucceeds(r) \/ finishRound(r)
    BY <2>4, <2>9 DEF handleProtocolRequest, buildAttemptOrder, skipUnsupported,
                      skipFull, sendBadGateway, waitForProviderRetry,
                      sendSucceeds, finishRound
  <2> QED
    BY <2>5, <2>6, <2>7, <2>8, <2>9 DEF requestStep
<1> QED
  BY <1>1, <1>2 DEF Same

\* Clients leaving and the operator change nothing of any request.
LEMMA EnvironmentSame ==
  ASSUME NEW q \in Request,
         \/ \E r \in Request : clientCancels(r)
         \/ administer
         \/ UNCHANGED vars
  PROVE  Same(q)
<1>1. UNCHANGED requestVars
  BY DEF clientCancels, administer, vars
<1>2. UNCHANGED <<waiters, leaseConfig, finished>>
  <2>1. CASE \E r \in Request : clientCancels(r)
    BY <2>1 DEF clientCancels, runtimeVars, waitVars, leaseVars
  <2>2. CASE administer
    BY <2>2 DEF administer, updateConfig, resetConfigState, resetAllState,
                waitVars, leaseVars
  <2>3. CASE UNCHANGED vars
    BY <2>3 DEF vars, runtimeVars, waitVars, leaseVars
  <2> QED
    BY <2>1, <2>2, <2>3
<1> QED
  BY <1>1, <1>2 DEF requestVars, roundVars, Same, HoldingsSame
-----------------------------------------------------------------------------
(* The leases of the request that takes the step.                          *)

\* A step outside attempts: no lease of r is open before or after it.
LEMMA LeasesKept ==
  ASSUME NEW r \in Request, LeaseInv(r), UNCHANGED <<leaseConfig, finished>>,
         pc[r] \notin InUse \cup {"done"}, pc'[r] \notin InUse,
         r \in waiters' <=> pc'[r] = "waiting",
         pc'[r] # "done" => (Failing(r)' <=> Failing(r))
  PROVE  LeaseInv(r)'
<1>1. \A c \in Config : <<r, c>> \notin OpenLeases(c)'
  BY DEF LeaseInv, OpenLeases
<1> QED
  BY <1>1 DEF LeaseInv

\* A step within an attempt or a response: the lease stays open.
LEMMA LeaseHeld ==
  ASSUME NEW r \in Request, LeaseInv(r), UNCHANGED <<leaseConfig, finished, waiters>>,
         orderedConfigs' = orderedConfigs, pc[r] \in InUse, pc'[r] \in InUse
  PROVE  LeaseInv(r)'
<1>1. \A c \in Config : <<r, c>> \in OpenLeases(c)' <=> <<r, c>> \in OpenLeases(c)
  BY DEF OpenLeases
<1> QED
  BY <1>1 DEF LeaseInv, current, InUse

\* startRequest opens the lease of the current backend.
LEMMA LeaseOpened ==
  ASSUME RuntimeInv, TypeInv, NEW r \in Request, LeaseInv(r), startAttempt(r)
  PROVE  LeaseInv(r)'
<1>1. /\ current(r) \in Config
      /\ leaseOf(r) = <<r, current(r)>>
      /\ leaseOf(r) \in Lease
      /\ \A c \in Config : <<r, c>> \in Lease
  BY CurrentIsCandidate, DispatchAssumption
  DEF startAttempt, attempting, leaseOf, DispatchAssumption
<1>2. /\ leaseConfig' = [leaseConfig EXCEPT ![<<r, current(r)>>] = current(r)]
      /\ UNCHANGED <<finished, waiters>>
      /\ leaseConfig[<<r, current(r)>>] = NoConfig
  BY StartEffect DEF startAttempt, startRequest, leaseOf
<1>3. pc[r] = "attempt" /\ pc'[r] = "send" /\ orderedConfigs' = orderedConfigs
  BY DEF startAttempt, attempting, goto, TypeInv, DispatchTypeOK
<1>4. current(r)' = current(r)
  BY <1>3 DEF current
<1>5. ~finished[<<r, current(r)>>]
  BY <1>1, <1>2 DEF RuntimeInv, LeaseLifecycle
<1>6. \A c \in Config : leaseConfig'[<<r, c>>] \in {c, NoConfig}
  BY <1>1, <1>2 DEF LeaseInv, RuntimeInv, RuntimeTypeOK
<1>7. ASSUME NEW c \in Config
      PROVE  <<r, c>> \in OpenLeases(c)' <=> c = current(r)
  <2>1. <<r, c>> \notin OpenLeases(c)
    BY <1>3 DEF LeaseInv, InUse
  <2>2. CASE c = current(r)
    BY <1>1, <1>2, <1>5, <2>2 DEF OpenLeases, RuntimeInv, RuntimeTypeOK
  <2>3. CASE c # current(r)
    BY <1>1, <1>2, <2>1, <2>3 DEF OpenLeases, RuntimeInv, RuntimeTypeOK
  <2> QED
    BY <2>2, <2>3
<1> QED
  BY <1>2, <1>3, <1>4, <1>6, <1>7 DEF LeaseInv, InUse

\* Finish closes the lease of the current backend, the only one open.
LEMMA LeaseClosed ==
  ASSUME RuntimeInv, TypeInv, NEW r \in Request, LeaseInv(r),
         NEW success, NEW measured, Finish(leaseOf(r), success, measured),
         pc[r] \in InUse, pc'[r] \in {"attempt", "done"},
         pc'[r] = "attempt" => Failing(r)'
  PROVE  LeaseInv(r)'
<1>1. /\ current(r) \in Config
      /\ \A c \in Config : <<r, c>> \in Lease
  BY CurrentIsCandidate, DispatchAssumption
  DEF TypeInv, StageHasRound, DispatchAssumption
<1>2. /\ finished' = [finished EXCEPT ![<<r, current(r)>>] = TRUE]
      /\ UNCHANGED <<leaseConfig, waiters>>
  BY FinishEffect DEF leaseOf
<1>3. ASSUME NEW c \in Config PROVE <<r, c>> \notin OpenLeases(c)'
  <2>1. CASE c = current(r)
    BY <1>1, <1>2, <2>1 DEF OpenLeases, RuntimeInv, RuntimeTypeOK
  <2>2. CASE c # current(r)
    <3>1. <<r, c>> \notin OpenLeases(c)
      BY <2>2 DEF LeaseInv
    <3> QED
      BY <1>1, <1>2, <2>2, <3>1 DEF OpenLeases, RuntimeInv, RuntimeTypeOK
  <2> QED
    BY <2>1, <2>2
<1>4. pc'[r] \notin InUse /\ pc'[r] # "waiting" /\ pc[r] # "waiting"
  BY DEF InUse
<1> QED
  BY <1>2, <1>3, <1>4 DEF LeaseInv
-----------------------------------------------------------------------------
(* The round of the request that takes the step.                           *)

\* A step that ends or precedes a round.
LEMMA NoRound ==
  ASSUME NEW r, ~InRound(r)', ~Failing(r)'
  PROVE  RoundInv(r)'
BY DEF RoundInv

\* Answering leaves no round and no failure behind.
LEMMA AnswerEndsRound ==
  ASSUME TypeInv, NEW r \in Request, NEW o, answer(r, o)
  PROVE  /\ RoundInv(r)'
         /\ pc'[r] = "done"
         /\ outcome'[r] = o
         /\ UNCHANGED <<configs, verdict>>
<1>1. /\ pc'[r] = "done"
      /\ outcome'[r] = o
      /\ lastFailure'[r] = NoConfig
      /\ ~lastErr'[r]
      /\ UNCHANGED <<configs, verdict>>
  BY DEF answer, goto, TypeInv, DispatchTypeOK
<1>2. ~InRound(r)' /\ ~Failing(r)'
  BY <1>1 DEF InRound, Failing, InUse
<1> QED
  BY <1>1, <1>2, NoRound

\* A step within an attempt leaves the round as it is.
LEMMA RoundKept ==
  ASSUME NEW r \in Request, RoundInv(r), InRound(r), InRound(r)',
         UNCHANGED <<configs, orderedConfigs, lastFailure, lastErr, verdict>>
  PROVE  RoundInv(r)'
<1>1. /\ Ahead(r)' = Ahead(r)
      /\ Failing(r)' <=> Failing(r)
  BY DEF Ahead, Failing
<1>2. /\ AllJudged(r)' <=> AllJudged(r)
      /\ SomeFailed(r)' <=> SomeFailed(r)
      /\ Ordered(orderedConfigs[r])' <=> Ordered(orderedConfigs[r])
  BY <1>1 DEF AllJudged, SomeFailed, Ordered
<1> QED
  BY <1>1, <1>2 DEF RoundInv

\* Starting an attempt judges nobody: the backend in use is still ahead.
LEMMA RoundStarted ==
  ASSUME TypeInv, NEW r \in Request, RoundInv(r), startAttempt(r)
  PROVE  RoundInv(r)'
<1>1. /\ InRound(r) /\ InRound(r)'
      /\ orderedConfigs[r] # <<>>
      /\ UNCHANGED <<configs, orderedConfigs, lastFailure, lastErr>>
      /\ verdict' = [verdict EXCEPT ![r][current(r)] = "inUse"]
  BY DEF startAttempt, attempting, goto, judge, InRound, InUse, TypeInv,
         DispatchTypeOK
<1>2. /\ Ahead(r)' = Ahead(r)
      /\ Failing(r)' <=> Failing(r)
      /\ Ordered(orderedConfigs[r])' <=> Ordered(orderedConfigs[r])
  BY <1>1 DEF Ahead, Failing, Ordered
<1>3. current(r) \in Ahead(r)
  BY <1>1, TailOfRound DEF current, Ahead, RoundInv, TypeInv
<1>4. \A c \in configs[r] \ Ahead(r) : verdict'[r][c] = verdict[r][c]
  BY <1>1, <1>3 DEF TypeInv, DispatchTypeOK
<1>5. /\ AllJudged(r)' <=> AllJudged(r)
      /\ SomeFailed(r)' <=> SomeFailed(r)
  BY <1>1, <1>2, <1>4 DEF AllJudged, SomeFailed
<1> QED
  BY <1>1, <1>2, <1>5 DEF RoundInv

\* Judging the backend at the head and going to the next: what was judged
\* stays so, and a failure is accounted for.
LEMMA RoundAdvances ==
  ASSUME TypeInv, NEW r \in Request, RoundInv(r), InRound(r),
         orderedConfigs[r] # <<>>, NEW v \in Judged, judge(r, v),
         nextConfig(r), configs' = configs,
         v = "failed" \/ (Failing(r)' <=> Failing(r))
  PROVE  RoundInv(r)'
<1>1. /\ orderedConfigs'[r] = Tail(orderedConfigs[r])
      /\ verdict' = [verdict EXCEPT ![r][current(r)] = v]
      /\ pc'[r] = "attempt"
  BY DEF nextConfig, judge, goto, TypeInv, DispatchTypeOK
<1>2. /\ Ordered(Tail(orderedConfigs[r]))
      /\ Ahead(r) = {current(r)} \cup Range(Tail(orderedConfigs[r]))
      /\ current(r) \notin Range(Tail(orderedConfigs[r]))
      /\ current(r) \in Config
      /\ current(r) \in configs[r]
  BY TailOfRound, CurrentIsCandidate DEF RoundInv, TypeInv, Ahead, current
<1>3. Ahead(r)' = Range(Tail(orderedConfigs[r]))
  BY <1>1 DEF Ahead
<1>4. /\ verdict'[r][current(r)] = v
      /\ \A c \in Config \ {current(r)} : verdict'[r][c] = verdict[r][c]
  BY <1>1, <1>2 DEF TypeInv, DispatchTypeOK
<1>5. configs[r] \subseteq Config
  BY DEF TypeInv, DispatchTypeOK
<1>6. AllJudged(r)'
  BY <1>2, <1>3, <1>4, <1>5 DEF AllJudged, RoundInv
<1>7. Ordered(orderedConfigs[r])'
  BY <1>1, <1>2 DEF Ordered
<1>8. SomeFailed(r) => SomeFailed(r)'
  BY <1>2, <1>3, <1>4, <1>5 DEF SomeFailed
<1>9. v = "failed" => SomeFailed(r)'
  BY <1>2, <1>3, <1>4 DEF SomeFailed
<1>10. Failing(r)' => SomeFailed(r)'
  BY <1>8, <1>9 DEF RoundInv
<1> QED
  BY <1>1, <1>6, <1>7, <1>10 DEF RoundInv, InRound

\* A round begins: who is not in the order is full.
LEMMA RoundBegins ==
  ASSUME TypeInv, NEW r \in Request, RoundInv(r), buildAttemptOrder(r)
  PROVE  RoundInv(r)' /\ ~Failing(r)' /\ pc'[r] \in {"busy", "attempt"}
<1>1. PICK order \in attemptOrders(available(configs[r])) :
        /\ orderedConfigs' = [orderedConfigs EXCEPT ![r] = order]
        /\ goto(r, IF order = <<>> THEN "busy" ELSE "attempt")
  BY DEF buildAttemptOrder
<1>2. available(configs[r]) \in SUBSET configs[r] /\ configs[r] \in SUBSET Config
  BY DEF available, TypeInv, DispatchTypeOK
<1>3. Range(order) = available(configs[r]) /\ Ordered(order)
  BY <1>2, OrderIsSequence
<1>4. /\ orderedConfigs'[r] = order
      /\ pc'[r] \in {"busy", "attempt"}
      /\ UNCHANGED <<configs, lastFailure, lastErr>>
  BY <1>1 DEF buildAttemptOrder, goto, TypeInv, DispatchTypeOK
<1>5. ~Failing(r)'
  <2>1. ~InRound(r)
    BY DEF buildAttemptOrder, InRound, InUse
  <2> QED
    BY <1>4, <2>1 DEF RoundInv, Failing
<1>6. Ahead(r)' = available(configs[r]) /\ Ordered(orderedConfigs[r])'
  BY <1>3, <1>4 DEF Ahead, Ordered
<1>7. \A c \in configs[r] \ available(configs[r]) : verdict'[r][c] = "busy"
  BY <1>2 DEF buildAttemptOrder, TypeInv, DispatchTypeOK
<1>8. AllJudged(r)'
  BY <1>4, <1>6, <1>7 DEF AllJudged, Judged
<1> QED
  BY <1>4, <1>5, <1>6, <1>8 DEF RoundInv
-----------------------------------------------------------------------------
(* The invariant is inductive.                                             *)

\* A request that is not done was told nothing yet.
LEMMA OutcomeKept ==
  ASSUME NEW r, OutcomeInv(r), pc[r] # "done", outcome' = outcome
  PROVE  OutcomeInv(r)'
BY DEF OutcomeInv

\* A step that does not call the manager changes no lease.
LEMMA NoCall ==
  ASSUME UNCHANGED runtimeVars
  PROVE  UNCHANGED <<leaseConfig, finished, waiters>>
BY DEF runtimeVars, waitVars, leaseVars

\* A step of r keeps the part of r.
LEMMA OwnStep ==
  ASSUME RuntimeInv, TypeInv, NEW r \in Request, RequestInv(r), requestStep(r)
  PROVE  RequestInv(r)'
<1> USE DEF RequestInv
<1>0. pc \in [Request -> Stages]
  BY DEF TypeInv, DispatchTypeOK
<1>1. CASE handleProtocolRequest(r)
  <2>1. pc[r] = "new" /\ UNCHANGED <<leaseConfig, finished, waiters>>
    BY <1>1, NoCall DEF handleProtocolRequest
  <2>2. CASE answer(r, "rejected")
    <3>1. RoundInv(r)' /\ pc'[r] = "done" /\ outcome'[r] = "rejected"
      BY <2>2, AnswerEndsRound
    <3>2. LeaseInv(r)'
      BY <2>1, <3>1, LeasesKept DEF LeaseInv, InUse
    <3> QED
      BY <3>1, <3>2 DEF OutcomeInv
  <2>3. CASE ~answer(r, "rejected")
    <3>1. /\ pc'[r] = "route"
          /\ UNCHANGED <<lastFailure, lastErr, outcome>>
      BY <1>0, <1>1, <2>3 DEF handleProtocolRequest, goto
    <3>2. Failing(r)' <=> Failing(r)
      BY <3>1 DEF Failing
    <3>3. RoundInv(r)'
      BY <2>1, <3>1, <3>2 DEF RoundInv, InRound, InUse
    <3>4. LeaseInv(r)'
      BY <2>1, <3>1, <3>2, LeasesKept DEF LeaseInv, InUse
    <3> QED
      BY <2>1, <3>1, <3>3, <3>4, OutcomeKept
  <2> QED
    BY <2>2, <2>3
<1>2. CASE buildAttemptOrder(r)
  <2>1. /\ pc[r] = "route"
        /\ UNCHANGED <<leaseConfig, finished, waiters, outcome>>
    BY <1>2, NoCall DEF buildAttemptOrder
  <2>2. RoundInv(r)' /\ ~Failing(r)' /\ pc'[r] \in {"busy", "attempt"}
    BY <1>2, RoundBegins
  <2>3. ~Failing(r)
    BY <2>1 DEF RoundInv, InRound, InUse
  <2>4. LeaseInv(r)'
    BY <2>1, <2>2, <2>3, LeasesKept DEF LeaseInv, InUse
  <2> QED
    BY <2>1, <2>2, <2>4, OutcomeKept
<1>3. CASE skipUnsupported(r) \/ skipFull(r)
  <2>1. /\ pc[r] = "attempt"
        /\ orderedConfigs[r] # <<>>
        /\ \E v \in Judged : judge(r, v)
        /\ nextConfig(r)
        /\ UNCHANGED <<configs, lastFailure, lastErr, outcome>>
        /\ UNCHANGED runtimeVars
    BY <1>3 DEF skipUnsupported, skipFull, attempting, Judged
  <2>2. Failing(r)' <=> Failing(r)
    BY <2>1 DEF Failing
  <2>3. RoundInv(r)'
    BY <2>1, <2>2, RoundAdvances DEF InRound
  <2>4. pc'[r] = "attempt"
    BY <1>0, <2>1 DEF nextConfig, goto
  <2>5. LeaseInv(r)'
    BY <2>1, <2>2, <2>4, NoCall, LeasesKept DEF LeaseInv, InUse
  <2> QED
    BY <2>1, <2>3, <2>5, OutcomeKept
<1>4. CASE startAttempt(r)
  <2>1. pc[r] = "attempt" /\ outcome' = outcome
    BY <1>4 DEF startAttempt, attempting
  <2> QED
    BY <1>4, <2>1, RoundStarted, LeaseOpened, OutcomeKept
<1>5. CASE sendFails(r) \/ cancelProviderRetry(r) \/ sendFailureResponse(r)
  <2>1. /\ pc[r] \in InUse
        /\ endAttempt(r)
        /\ UNCHANGED <<configs, outcome>>
    BY <1>5 DEF sendFails, cancelProviderRetry, sendFailureResponse,
                attemptError, InUse
  <2>2. orderedConfigs[r] # <<>>
    BY <2>1 DEF TypeInv, StageHasRound
  <2>3. judge(r, "failed") /\ nextConfig(r) /\ pc'[r] = "attempt"
    BY <1>0, <2>1 DEF endAttempt, nextConfig, goto
  <2>4. Failing(r)'
    <3>1. CASE sendFails(r) \/ cancelProviderRetry(r)
      <4>1. lastErr' = [lastErr EXCEPT ![r] = TRUE]
        BY <3>1 DEF sendFails, cancelProviderRetry, attemptError
      <4>2. lastErr'[r] = TRUE
        BY <4>1 DEF TypeInv, DispatchTypeOK
      <4> QED
        BY <4>2 DEF Failing
    <3>2. CASE sendFailureResponse(r)
      <4>1. lastFailure'[r] = current(r)
        BY <3>2 DEF sendFailureResponse, TypeInv, DispatchTypeOK
      <4>2. current(r) # NoConfig
        BY <2>2, CurrentIsCandidate, RuntimeAssumption DEF RuntimeAssumption
      <4> QED
        BY <4>1, <4>2 DEF Failing
    <3> QED
      BY <1>5, <3>1, <3>2
  <2>5. RoundInv(r)'
    BY <2>1, <2>2, <2>3, RoundAdvances DEF InRound, Judged
  <2>6. PICK measured \in BOOLEAN : Finish(leaseOf(r), FALSE, measured)
    BY <2>1 DEF endAttempt
  <2>7. LeaseInv(r)'
    BY <2>1, <2>3, <2>4, <2>6, LeaseClosed
  <2>8. pc[r] # "done"
    BY <2>1 DEF InUse
  <2> QED
    BY <2>1, <2>5, <2>7, <2>8, OutcomeKept
<1>6. CASE sendBadGateway(r) \/ waitForProviderRetry(r) \/ sendSucceeds(r)
  <2>1. /\ pc[r] \in InUse
        /\ pc'[r] \in InUse
        /\ UNCHANGED <<configs, orderedConfigs, lastFailure, lastErr, verdict,
                       outcome>>
        /\ UNCHANGED runtimeVars
    BY <1>0, <1>6 DEF sendBadGateway, waitForProviderRetry, sendSucceeds, goto,
                      roundVars, InUse
  <2>2. pc[r] # "done"
    BY <2>1 DEF InUse
  <2> QED
    BY <2>1, <2>2, NoCall, RoundKept, LeaseHeld, OutcomeKept DEF InRound
<1>7. CASE finishRound(r)
  <2>1. /\ pc[r] = "attempt"
        /\ orderedConfigs[r] = <<>>
        /\ UNCHANGED runtimeVars
    BY <1>7 DEF finishRound, roundOver
  <2>2. CASE verdictOfRound(r) = "none"
    <3>1. /\ pc'[r] = "busy"
          /\ UNCHANGED <<lastFailure, lastErr, outcome>>
      BY <1>0, <1>7, <2>2 DEF finishRound, goto, roundVars
    <3>2. ~Failing(r) /\ ~Failing(r)'
      BY <2>2, <3>1 DEF verdictOfRound, Failing
    <3>3. RoundInv(r)'
      BY <3>1, <3>2, NoRound DEF InRound, InUse
    <3>4. LeaseInv(r)'
      BY <2>1, <3>1, <3>2, NoCall, LeasesKept DEF LeaseInv, InUse
    <3> QED
      BY <2>1, <3>1, <3>3, <3>4, OutcomeKept
  <2>3. CASE verdictOfRound(r) # "none"
    <3>1. answer(r, verdictOfRound(r))
      BY <1>7, <2>3 DEF finishRound
    <3>2. /\ RoundInv(r)'
          /\ pc'[r] = "done"
          /\ outcome'[r] = verdictOfRound(r)
          /\ UNCHANGED <<configs, verdict>>
      BY <3>1, AnswerEndsRound
    <3>3. LeaseInv(r)'
      BY <2>1, <3>2, NoCall, LeasesKept DEF LeaseInv, InUse
    <3>4. verdictOfRound(r) \in {"relayed", "error"} => Failing(r)
      BY DEF verdictOfRound, Failing
    <3>5. Ahead(r) = {}
      BY <2>1 DEF Ahead, Range
    <3>6. /\ \A c \in configs[r] : verdict[r][c] \in Judged
          /\ Failing(r) => \E c \in configs[r] : verdict[r][c] = "failed"
      BY <2>1, <3>5 DEF RoundInv, InRound, AllJudged, SomeFailed
    <3>7. OutcomeInv(r)'
      BY <3>2, <3>4, <3>6 DEF OutcomeInv
    <3> QED
      BY <3>2, <3>3, <3>7
  <2> QED
    BY <2>2, <2>3
<1>8. CASE startWaiting(r) \/ capacityTimerFires(r)
  <2>1. /\ pc[r] \in {"busy", "waiting"}
        /\ pc'[r] \in {"waiting", "route"}
        /\ r \in waiters' <=> pc'[r] = "waiting"
        /\ UNCHANGED <<lastFailure, lastErr, outcome, leaseConfig, finished>>
    BY <1>0, <1>8 DEF startWaiting, capacityTimerFires, beginWait, endWait, goto,
                      roundVars, leaseVars
  <2>2. Failing(r)' <=> Failing(r)
    BY <2>1 DEF Failing
  <2>3. RoundInv(r)'
    BY <2>1, <2>2 DEF RoundInv, InRound, InUse
  <2>4. LeaseInv(r)'
    BY <2>1, <2>2, LeasesKept DEF InUse
  <2> QED
    BY <2>1, <2>3, <2>4, OutcomeKept
<1>9. CASE cancelWaiting(r)
  <2>1. /\ pc[r] = "waiting"
        /\ answer(r, "cancelled")
        /\ r \notin waiters'
        /\ UNCHANGED <<leaseConfig, finished>>
    BY <1>9 DEF cancelWaiting, endWait, leaseVars
  <2>2. RoundInv(r)' /\ pc'[r] = "done" /\ outcome'[r] = "cancelled"
    BY <2>1, AnswerEndsRound
  <2>3. LeaseInv(r)'
    BY <2>1, <2>2, LeasesKept DEF InUse
  <2> QED
    BY <2>2, <2>3 DEF OutcomeInv
<1>10. CASE \/ writeProtocolResponse(r) \/ writeProtocolResponseFails(r)
            \/ replayLogResponse(r)
  <2>1. /\ pc[r] \in InUse
        /\ \E success, measured \in BOOLEAN : Finish(leaseOf(r), success, measured)
        /\ answer(r, "served") \/ answer(r, "broken")
    BY <1>10
    DEF writeProtocolResponse, writeProtocolResponseFails, replayLogResponse, InUse
  <2>2. RoundInv(r)' /\ pc'[r] = "done" /\ outcome'[r] \in {"served", "broken"}
    BY <2>1, AnswerEndsRound
  <2>3. LeaseInv(r)'
    BY <2>1, <2>2, LeaseClosed
  <2> QED
    BY <2>2, <2>3 DEF OutcomeInv
<1> QED
  BY <1>1, <1>2, <1>3, <1>4, <1>5, <1>6, <1>7, <1>8, <1>9, <1>10 DEF requestStep

\* Every step is a step of the manager as BackendRuntime allows it, or none.
LEMMA RuntimeStep ==
  ASSUME TypeInv, [Next]_vars
  PROVE  [RuntimeNext]_runtimeVars
<1>1. ASSUME NEW r \in Request, NEW success \in BOOLEAN, NEW measured \in BOOLEAN,
             pc[r] \in InUse, Finish(leaseOf(r), success, measured)
      PROVE  RuntimeNext
  <2>1. leaseOf(r) \in Lease
    BY <1>1, CurrentIsCandidate DEF TypeInv, StageHasRound
  <2> QED
    BY <1>1, <2>1 DEF RuntimeNext
<1>2. ASSUME NEW r \in Request, startAttempt(r) PROVE RuntimeNext
  <2>1. /\ leaseOf(r) \in Lease
        /\ current(r) \in Config
        /\ ConfigLimit[current(r)] \in Limit
    BY <1>2, CurrentIsCandidate, DispatchAssumption
    DEF startAttempt, attempting, DispatchAssumption
  <2> QED
    BY <1>2, <2>1 DEF startAttempt, RuntimeNext
<1>3. ASSUME NEW r \in Request,
             \/ sendFails(r) \/ cancelProviderRetry(r) \/ sendFailureResponse(r)
             \/ writeProtocolResponse(r) \/ writeProtocolResponseFails(r)
             \/ replayLogResponse(r)
      PROVE  RuntimeNext
  <2>1. /\ pc[r] \in InUse
        /\ \E success, measured \in BOOLEAN : Finish(leaseOf(r), success, measured)
    BY <1>3 DEF sendFails, cancelProviderRetry, sendFailureResponse, attemptError,
                endAttempt, replayLogResponse, writeProtocolResponse,
                writeProtocolResponseFails, InUse
  <2> QED
    BY <1>1, <2>1
<1>4. ASSUME NEW r \in Request,
             startWaiting(r) \/ capacityTimerFires(r) \/ cancelWaiting(r)
      PROVE  RuntimeNext
  BY <1>4 DEF startWaiting, capacityTimerFires, cancelWaiting, RuntimeNext
<1>5. ASSUME NEW r \in Request,
             \/ handleProtocolRequest(r) \/ buildAttemptOrder(r)
             \/ skipUnsupported(r) \/ skipFull(r) \/ sendBadGateway(r)
             \/ waitForProviderRetry(r) \/ sendSucceeds(r) \/ finishRound(r)
             \/ clientCancels(r)
      PROVE  UNCHANGED runtimeVars
  BY <1>5 DEF handleProtocolRequest, buildAttemptOrder, skipUnsupported, skipFull,
              sendBadGateway, waitForProviderRetry, sendSucceeds, finishRound,
              clientCancels
<1>6. CASE administer
  BY <1>6 DEF administer, RuntimeNext
<1>7. CASE UNCHANGED vars
  BY <1>7 DEF vars
<1> QED
  BY <1>2, <1>3, <1>4, <1>5, <1>6, <1>7 DEF Next, requestStep

\* The process starts in the invariant.
LEMMA DispatchInitInv == Init => DispatchInv
<1> SUFFICES ASSUME Init PROVE DispatchInv
  OBVIOUS
<1>1. RuntimeInv
  BY RuntimeInitInv DEF Init
<1>2. TypeInv
  BY DispatchAssumption
  DEF Init, TypeInv, DispatchTypeOK, StageHasRound, Stages, InUse, Outcomes,
      Verdicts, DispatchAssumption
<1>3. ASSUME NEW r \in Request PROVE RequestInv(r)
  <2>1. pc[r] = "new" /\ outcome[r] = "none" /\ ~Failing(r)
    BY DEF Init, Failing
  <2>2. RoundInv(r) /\ OutcomeInv(r)
    BY <2>1 DEF RoundInv, OutcomeInv, InRound, InUse
  <2>3. \A c \in Config : leaseConfig[<<r, c>>] = NoConfig
    BY DispatchAssumption DEF Init, RuntimeInit, DispatchAssumption
  <2>4. r \notin waiters
    BY DEF Init, RuntimeInit
  <2>5. \A c \in Config : <<r, c>> \notin OpenLeases(c)
    BY <2>3, RuntimeAssumption DEF OpenLeases, RuntimeAssumption
  <2>6. LeaseInv(r)
    BY <2>1, <2>3, <2>4, <2>5 DEF LeaseInv, InUse
  <2> QED
    BY <2>2, <2>6 DEF RequestInv
<1> QED
  BY <1>1, <1>2, <1>3 DEF DispatchInv

\* Every step keeps the invariant.
LEMMA DispatchNextInv == DispatchInv /\ [Next]_vars => DispatchInv'
<1> SUFFICES ASSUME DispatchInv, [Next]_vars PROVE DispatchInv'
  OBVIOUS
<1> USE DEF DispatchInv
<1>1. RuntimeInv'
  BY RuntimeStep, RuntimeNextInv
<1>2. TypeInv'
  BY TypeStep
<1>3. ASSUME NEW q \in Request PROVE RequestInv(q)'
  <2>1. CASE requestStep(q)
    BY <2>1, OwnStep
  <2>2. ASSUME NEW r \in Request \ {q}, requestStep(r) PROVE RequestInv(q)'
    BY <2>2, OthersSame, SameKeepsRequest DEF RuntimeInv
  <2>3. ASSUME \/ \E r \in Request : clientCancels(r)
               \/ administer
               \/ UNCHANGED vars
        PROVE  RequestInv(q)'
    BY <2>3, EnvironmentSame, SameKeepsRequest
  <2> QED
    BY <2>1, <2>2, <2>3 DEF Next
<1> QED
  BY <1>1, <1>2, <1>3

\* The inductive invariant holds in every reachable state.
THEOREM DispatchInvariant == Spec => []DispatchInv
  BY DispatchInitInv, DispatchNextInv, PTL DEF Spec
-----------------------------------------------------------------------------
(* The properties the runs check.                                          *)

\* The handlers are callers BackendRuntime allows: what they do to the manager
\* is a behaviour of its specification, so all its theorems hold of them.
THEOREM DispatchUsesRuntime == Spec => RuntimeSpec
<1>1. Init => RuntimeInit
  BY DEF Init
<1>2. DispatchInv /\ [Next]_vars => [RuntimeNext]_runtimeVars
  BY RuntimeStep DEF DispatchInv
<1> QED
  BY <1>1, <1>2, DispatchInvariant, PTL DEF Spec, RuntimeSpec

\* The active count of every backend is the number of requests that are really
\* using it, in the composed system.
THEOREM DispatchCountsActive == Spec => []ActiveMatchesLeases
  BY DispatchUsesRuntime, ActiveCountCorrect, PTL

\* Types, and the bound on the retries of a 502.
THEOREM DispatchTypeCorrect == Spec => []DispatchTypeOK
<1>1. DispatchInv => DispatchTypeOK
  BY DEF DispatchInv, TypeInv
<1> QED
  BY <1>1, DispatchInvariant, PTL

\* A request occupies exactly what its stage needs: no return path of the
\* handler keeps a slot or a place in the waiting count.
THEOREM NoSlotLeaks == Spec => []ResourcesMatchStage
<1>1. DispatchInv => ResourcesMatchStage
  <2> SUFFICES ASSUME DispatchInv, NEW r \in Request
               PROVE  /\ r \in waiters <=> pc[r] = "waiting"
                      /\ \A c \in Config :
                           <<r, c>> \in OpenLeases(c) <=>
                             pc[r] \in InUse /\ orderedConfigs[r] # <<>> /\ c = current(r)
    BY DEF ResourcesMatchStage
  <2> QED
    BY DEF DispatchInv, RequestInv, LeaseInv, TypeInv, StageHasRound
<1> QED
  BY <1>1, DispatchInvariant, PTL

\* A failure is reported only after every candidate was tried, full or
\* unsupported.
THEOREM FailoverIsExhaustive == Spec => []FailoverExhaustive
<1>1. DispatchInv => FailoverExhaustive
  BY DEF DispatchInv, RequestInv, OutcomeInv, FailoverExhaustive, Judged
<1> QED
  BY <1>1, DispatchInvariant, PTL

\* A backend is in use only after the preferred ones were ruled out.
THEOREM PriorityIsRespected == Spec => []PriorityRespected
<1>1. DispatchInv => PriorityRespected
  <2> SUFFICES ASSUME DispatchInv, NEW r \in Request, pc[r] \in InUse,
                      NEW c \in configs[r], Priority[c] < Priority[current(r)]
               PROVE  verdict[r][c] \in Judged
    BY DEF PriorityRespected, Judged
  <2> USE DEF DispatchInv
  <2>1. /\ AllJudged(r)
        /\ Ordered(orderedConfigs[r])
        /\ orderedConfigs[r] \in Seq(Config)
        /\ orderedConfigs[r] # <<>>
    BY DEF RequestInv, RoundInv, InRound, TypeInv, StageHasRound
  <2>2. c \in Config /\ current(r) \in Config
    BY <2>1, CurrentIsCandidate DEF TypeInv, DispatchTypeOK
  <2>3. Priority[c] \in Nat /\ Priority[current(r)] \in Nat
    BY <2>2, DispatchAssumption DEF DispatchAssumption
  <2>4. c \notin Ahead(r)
    BY <2>1, <2>3, TailOfRound DEF Ahead, current
  <2> QED
    BY <2>1, <2>4 DEF AllJudged
<1> QED
  BY <1>1, DispatchInvariant, PTL

\* A request that waits or routes anew never reached a backend.
THEOREM WaitingIsUnsent == Spec => []WaitingRequestsAreUnsent
<1>1. DispatchInv => WaitingRequestsAreUnsent
  <2> SUFFICES ASSUME DispatchInv, NEW r \in Request,
                      pc[r] \in {"route", "busy", "waiting"}, NEW c \in Config
               PROVE  leaseConfig[<<r, c>>] = NoConfig
    BY DEF WaitingRequestsAreUnsent
  <2>1. ~Failing(r) /\ pc[r] \notin InUse \cup {"done"}
    BY DEF DispatchInv, RequestInv, RoundInv, InRound, InUse
  <2> QED
    BY <2>1 DEF DispatchInv, RequestInv, LeaseInv
<1> QED
  BY <1>1, DispatchInvariant, PTL
=============================================================================
