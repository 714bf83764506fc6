-------------------------- MODULE MCBackendRuntime --------------------------
(* A small instance of BackendRuntime: three backends, three leases, two    *)
(* requests of one model and limits 0, 1 and 2.                             *)
EXTENDS RoutingOrder, TLC

CONSTANTS l1, l2, l3, r1, r2, m1

MCModelOf == [r \in Request |-> m1]

\* One priority for all, or backend 3 preferred.
MCPrioritized == {[c \in Config |-> 0], [c \in Config |-> IF c = 3 THEN 0 ELSE 1]}

\* Leases and requests are interchangeable.
MCSymmetry == Permutations({l1, l2, l3}) \cup Permutations({r1, r2})
=============================================================================
