----------------------------- MODULE MCServices -----------------------------
(* A small instance of StatsCache and the table it counts: the provider     *)
(* and the model statistics are handled alike, one of them is enough.       *)
EXTENDS StatsCache

MCResults == <<"stats", "providers">>
=============================================================================
