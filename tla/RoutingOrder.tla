---------------------------- MODULE RoutingOrder ----------------------------
(***************************************************************************)
(* The order in which buildAttemptOrder (handlers/backend_runtime.go)      *)
(* ranks the backends with room, computed from the manager's state: by     *)
(* priority; within one priority by the adaptive score, or by a random     *)
(* rotation while none of them was used yet.                               *)
(* The tie-break of the score sort compares the positions the two backends *)
(* have at that moment, and the sort moves them, so the sort is modelled   *)
(* with its moves: sort.SliceStable is an insertion sort for up to twenty  *)
(* elements.                                                               *)
(*                                                                         *)
(* Abstracted: ids are numbers; the moving averages add up to one latency, *)
(* any of Latencies for a backend with measurements; scores are counted in *)
(* units of 125 ms, in which the code's weights and defaults are whole,    *)
(* and the tolerance is one of them.                                       *)
(***************************************************************************)
EXTENDS BackendRuntime, Integers, SequencesExt

CONSTANTS
  Latencies,    \* what the averages of a measured backend may come to
  Prioritized   \* the ways the operator may have set the priorities

ASSUME RoutingAssumption ==
  /\ Config \subseteq Int /\ IsFiniteSet(Config) /\ Cardinality(Config) <= 20
  /\ Latencies \subseteq Nat
  /\ Prioritized \subseteq [Config -> Int]

\* Scores no further apart count as equal; the defaults and the weights.
Tolerance == 1
defaultBackendLatencyScore == 6
defaultFirstTokenScore == 2
activeRequestPenaltyPerConn == 2
failureRatePenaltyMultiplier == 12
-----------------------------------------------------------------------------
(* Who is ranked, and the scores.                                          *)

measured == {c \in states : ewmaSet[c]}

hasTelemetry(c) == totalRequests[c] > 0 \/ activeRequests[c] > 0

\* Without measurements the defaults count; without requests no failure rate.
computeAdaptiveScore(c, latency) ==
  (IF c \in measured THEN latency[c]
   ELSE defaultBackendLatencyScore + defaultFirstTokenScore)
  + activeRequests[c] * activeRequestPenaltyPerConn
  + (IF totalRequests[c] > 0
     THEN (failureCount[c] * failureRatePenaltyMultiplier) \div totalRequests[c]
     ELSE 0)

\* A backend without an entry gets the latency default alone.
scoreOf(c, latency) ==
  IF c \in states THEN computeAdaptiveScore(c, latency)
  ELSE defaultBackendLatencyScore

\* The backends with room.
roomy == {c \in Config : c \in states => HasRoom(c, maxConcurrency[c])}

\* Some numbers in ascending order.
ascending(S) ==
  CHOOSE s \in [1..Cardinality(S) -> S] :
    ToSet(s) = S /\ \A i, j \in 1..Cardinality(S) : i < j => s[i] < s[j]
-----------------------------------------------------------------------------
(* The sort of one group.                                                  *)

abs(n) == IF n < 0 THEN -n ELSE n

\* The place of position i in a rotation of n by offset.
tie(i, n, offset) == (i - 1 + n - offset) % n

\* A comparison that looks at the rotation only.
comesBeforeByTie(x, i, y, j, n, offset, score) == tie(i, n, offset) < tie(j, n, offset)

\* Does x at position i belong before y at position j?
comesBefore(x, i, y, j, n, offset, score) ==
  IF abs(score[x] - score[y]) > Tolerance
  THEN score[x] < score[y]
  ELSE tie(i, n, offset) < tie(j, n, offset)

\* The i-th element moves left past every neighbour it belongs before.
insert(s, i, offset, score) ==
  LET stopsAt(j) ==
        \/ j = 1
        \/ ~comesBefore(s[i], j, s[j - 1], j - 1, Len(s), offset, score)
  IN  InsertAt(RemoveAt(s, i), Max({j \in 1..i : stopsAt(j)}), s[i])

sortByScore(group, offset, score) ==
  LET sorted[i \in 0..Len(group)] ==
        IF i = 0 THEN group ELSE insert(sorted[i - 1], i, offset, score)
  IN  sorted[Len(group)]

buildRandomizedAttemptOrder(group, offset) ==
  [i \in DOMAIN group |-> group[1 + ((offset + i - 1) % Len(group))]]

anyRankedConfigHasTelemetry(group) == \E i \in DOMAIN group : hasTelemetry(group[i])

orderedGroup(group, offset, score) ==
  IF anyRankedConfigHasTelemetry(group)
  THEN sortByScore(group, offset, score)
  ELSE buildRandomizedAttemptOrder(group, offset)

\* The backends of one priority, by id.
groupOf(priority, p) == ascending({c \in roomy : priority[c] = p})

\* The groups by priority, each with a random offset below its length.
attemptOrder(priority, score, random) ==
  LET priorities == ascending({priority[c] : c \in roomy})
  IN  FlattenSeq([i \in DOMAIN priorities |->
                    LET group == groupOf(priority, priorities[i])
                    IN  orderedGroup(group, random % Len(group), score)])
-----------------------------------------------------------------------------
(* Properties.                                                             *)

\* No backend is lost or tried twice by a sort whose comparison changes while
\* it runs; no preferred backend comes after another; and where something was
\* measured, none is tried right after one that is slower beyond the tolerance
\* (with a tolerance, more cannot be asked: it is not transitive).
rankedSoundly(order, priority, score) ==
  /\ Len(order) = Cardinality(roomy)
  /\ ToSet(order) = roomy
  /\ \A i \in 1..Len(order) - 1 :
       LET c == order[i]
           d == order[i + 1]
       IN  /\ priority[c] <= priority[d]
           /\ (priority[c] = priority[d]
               /\ anyRankedConfigHasTelemetry(groupOf(priority, priority[c]))) =>
                score[c] <= score[d] + Tolerance

\* Before any backend of the best priority was used each of them may be first.
eachMayBeFirst(orders, priority) ==
  \A c \in roomy :
    (\A d \in roomy : priority[c] <= priority[d] /\
                      (priority[d] = priority[c] => ~hasTelemetry(d))) =>
      \E order \in orders : order[1] = c

\* Whatever calls led to this state, whatever was measured and drawn, the
\* order buildAttemptOrder returns is a sound ranking of the backends that
\* have room.
AttemptOrdersSound ==
  \A latency \in [measured -> Latencies], priority \in Prioritized :
    LET score == [c \in Config |-> scoreOf(c, latency)]
        orders == {attemptOrder(priority, score, random) :
                     random \in 0..Cardinality(Config) - 1}
    IN  /\ \A order \in orders : rankedSoundly(order, priority, score)
        /\ eachMayBeFirst(orders, priority)
=============================================================================
