----------------------------- MODULE MCDispatch -----------------------------
(* Two requests for one model, the second one a replay except where noted,  *)
(* over three backends: c1 is preferred to c2, c3 has c2's priority and an  *)
(* upstream type no protocol supports.                                      *)
EXTENDS Dispatch, TLC

CONSTANTS r1, r2, c1, c2, c3, m1

MCLease == Request \X Config
MCModelOf == [r \in Request |-> m1]
MCPriority == [c \in Config |-> IF c = c1 THEN 0 ELSE 1]
MCConfigLimit == [c \in Config |-> IF c = c3 THEN 0 ELSE 1]
MCCandidates == {{c1, c2, c3}, {c1, c3}, {c1}}
MCLiveCandidates == {{c1, c3}, {c1}}
MCSymmetry == Permutations(Request)

\* Telemetry and the logged set guide no step and no property of this module.
MCView == <<states, maxConcurrency, activeRequests, leaseVars, waiters, pc,
            roundVars, outcome, cancelled>>
=============================================================================
