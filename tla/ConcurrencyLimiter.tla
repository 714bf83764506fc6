------------------------- MODULE ConcurrencyLimiter -------------------------
(***************************************************************************)
(* What the backend runtime manager promises its callers, without the      *)
(* counters it keeps: every backend has a set of holders, each of which    *)
(* was admitted when there was room, and a limit the operator may change   *)
(* at any time.  Limit 0 means "no limit" (README.md:106).  Lowering a     *)
(* limit evicts nobody, so a backend may stay above its limit until the    *)
(* holders leave, but nobody is admitted meanwhile.                        *)
(***************************************************************************)
EXTENDS Naturals, FiniteSets

CONSTANTS
  Config,   \* ids of backend configurations
  Lease,    \* admissions that are ever handed out
  Limit     \* values max_concurrency can take

VARIABLES
  registered,   \* the backends whose limit is fixed
  limit,        \* limit[c]: the limit in force for backend c
  holders,      \* holders[c]: the admissions that occupy backend c
  issued        \* every admission handed out so far

limiterVars == <<registered, limit, holders, issued>>

Init ==
  /\ registered = {}
  /\ limit = [c \in Config |-> 0]
  /\ holders = [c \in Config |-> {}]
  /\ issued = {}

\* A backend is registered with some limit the first time it is used.
Register(c) ==
  /\ registered' = registered \cup {c}
  /\ IF c \in registered
     THEN UNCHANGED limit
     ELSE \E m \in Limit : limit' = [limit EXCEPT ![c] = m]

\* An admission is handed out once, to one holder, and only into free room.
Admit(l, c) ==
  /\ l \notin issued
  /\ issued' = issued \cup {l}
  /\ Register(c)
  /\ holders' = [holders EXCEPT ![c] = @ \cup {l}]
  /\ limit'[c] = 0 \/ Cardinality(holders'[c]) <= limit'[c]

\* A holder leaves once; an admission never comes back.
Release(l, c) ==
  /\ l \in holders[c]
  /\ holders' = [holders EXCEPT ![c] = @ \ {l}]
  /\ UNCHANGED <<registered, limit, issued>>

\* The operator changes a limit; the holders stay.
SetLimit(c, m) ==
  /\ registered' = registered \cup {c}
  /\ limit' = [limit EXCEPT ![c] = m]
  /\ UNCHANGED <<holders, issued>>

Next ==
  \E c \in Config :
    \/ \E l \in Lease : Admit(l, c) \/ Release(l, c)
    \/ \E m \in Limit : SetLimit(c, m)

Spec == Init /\ [][Next]_limiterVars
=============================================================================
