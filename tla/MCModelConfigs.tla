--------------------------- MODULE MCModelConfigs ---------------------------
(* Backends of one model, two inference requests and administrative ones.  *)
EXTENDS ModelConfigs

CONSTANTS r1, r2, a1, a2, m1

MCModelOf == [r \in Request |-> m1]
=============================================================================
