------------------------------- MODULE LogSink -------------------------------
(***************************************************************************)
(* What handlers/async_log.go promises about request logs, without its     *)
(* queue, batch, timer and fallback inserts: accepted entries are settled  *)
(* in the order they were accepted, each is stored at most once, and only  *)
(* a crash of the process loses several of them at a time.                 *)
(***************************************************************************)
EXTENDS Naturals, Sequences

CONSTANT Entry   \* request log entries, each offered once

VARIABLES
  offered,   \* the entries handlers have tried to log
  pending,   \* accepted and not settled yet, oldest first
  stored     \* rows of request_logs in the order of their ids

sinkVars == <<offered, pending, stored>>

Init == offered = {} /\ pending = <<>> /\ stored = <<>>

\* An entry is accepted, or dropped at once.
Offer(e) ==
  /\ e \notin offered
  /\ offered' = offered \cup {e}
  /\ pending' \in {pending, Append(pending, e)}
  /\ UNCHANGED stored

\* The n oldest entries become rows, all of them or none.
Store(n) ==
  /\ stored' = stored \o SubSeq(pending, 1, n)
  /\ pending' = SubSeq(pending, n + 1, Len(pending))
  /\ UNCHANGED offered

\* The database refused the oldest entry and it is given up.
GiveUp ==
  /\ pending # <<>>
  /\ pending' = Tail(pending)
  /\ UNCHANGED <<offered, stored>>

\* The entries that were only in memory are lost.
Crash ==
  /\ pending' = <<>>
  /\ UNCHANGED <<offered, stored>>

Next ==
  \/ \E e \in Entry : Offer(e)
  \/ \E n \in 1..Len(pending) : Store(n)
  \/ GiveUp
  \/ Crash

Spec == Init /\ [][Next]_sinkVars
=============================================================================
