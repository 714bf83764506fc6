------------------------------ MODULE AsyncLog ------------------------------
(***************************************************************************)
(* handlers/async_log.go: request handlers put log entries on a buffered   *)
(* channel without ever blocking, and one goroutine collects them into a   *)
(* batch that it writes when the batch is full, when a timer armed by its  *)
(* first entry fires, or when the writer is stopped.  A batch the database *)
(* refuses is inserted again row by row.                                   *)
(*                                                                         *)
(* gorm runs every Create in a transaction of its own (main.go:126 keeps   *)
(* the default), and fills in the ids of the entries once INSERT was       *)
(* executed: when only the commit's answer is lost, the rows are there,    *)
(* and the inserts that follow repeat their ids and are refused.           *)
(*                                                                         *)
(* Timers are those of Go 1.23 (go.mod): after Stop or Reset no tick of    *)
(* the earlier setting can be received.                                    *)
(***************************************************************************)
EXTENDS Naturals, Sequences, Functions

CONSTANTS
  Entry,       \* the request logs that are ever offered, each once
  QueueSize,   \* asyncLogQueueSize
  BatchSize    \* asyncLogBatchSize

ASSUME AsyncLogAssumption ==
  /\ QueueSize \in Nat \ {0}
  /\ BatchSize \in Nat \ {0}

VARIABLES
  queue,          \* logChan
  batch,          \* of the worker; while rows are inserted, those still to do
  timer,          \* "stopped", "armed", or "fired" with its tick unreceived
  timerRunning,   \* the worker's own idea of it
  pc,             \* where the worker goroutine is
  draining,       \* is the worker past the stop case of its select?
  stopped,        \* is stopChan closed?
  committed,      \* are the batch's rows stored although Create failed?
  stored,         \* the rows of request_logs, in the order of their ids
  offered,        \* history: the entries given to Write
  due             \* history: the entries accepted before Stop was called

workerVars == <<batch, timer, timerRunning, pc, draining, committed>>
vars == <<queue, workerVars, stopped, stored, offered, due>>

Init ==
  /\ queue = <<>>
  /\ batch = <<>>
  /\ timer = "stopped"
  /\ timerRunning = FALSE
  /\ pc = "select"
  /\ draining = FALSE
  /\ stopped = FALSE
  /\ committed = FALSE
  /\ stored = <<>>
  /\ offered = {}
  /\ due = {}
-----------------------------------------------------------------------------
(* The handlers.                                                           *)

\* A queue with room for one entry too many.
WriteOffByOne(e) ==
  /\ e \notin offered
  /\ offered' = offered \cup {e}
  /\ queue' = IF Len(queue) <= QueueSize THEN Append(queue, e) ELSE queue
  /\ UNCHANGED <<workerVars, stopped, stored, due>>

\* Write never blocks: an entry that finds the channel full is dropped.
Write(e) ==
  /\ e \notin offered
  /\ offered' = offered \cup {e}
  /\ queue' = IF Len(queue) < QueueSize THEN Append(queue, e) ELSE queue
  /\ UNCHANGED <<workerVars, stopped, stored, due>>

\* The entries accepted and not yet stored or given up, oldest first.
pending == (IF committed THEN <<>> ELSE batch) \o queue

\* Stop closes stopChan; a second call panics in close and recovers.
Stop ==
  /\ ~stopped
  /\ stopped' = TRUE
  /\ due' = Range(pending)
  /\ UNCHANGED <<queue, workerVars, stored, offered>>
-----------------------------------------------------------------------------
(* The worker's select.                                                    *)

stopTimer == timer' = "stopped"

take ==
  /\ queue # <<>>
  /\ batch' = Append(batch, Head(queue))
  /\ queue' = Tail(queue)

\* A full batch that leaves the timer's flag set.
timerAfterReceiveUnreset ==
  IF Len(batch') >= BatchSize THEN stopTimer /\ UNCHANGED timerRunning
  ELSE IF timerRunning THEN UNCHANGED <<timer, timerRunning>>
  ELSE timer' = "armed" /\ timerRunning' = TRUE

\* A full batch needs no timer any more, and the first entry of another arms
\* it; later entries do not postpone it.
timerAfterReceive ==
  IF Len(batch') >= BatchSize THEN stopTimer /\ timerRunning' = FALSE
  ELSE IF timerRunning THEN UNCHANGED <<timer, timerRunning>>
  ELSE timer' = "armed" /\ timerRunning' = TRUE

receive ==
  /\ pc = "select"
  /\ take
  /\ timerAfterReceive
  /\ pc' = IF Len(batch') >= BatchSize THEN "create" ELSE "select"
  /\ UNCHANGED <<draining, committed, stopped, stored, offered, due>>

flushIntervalPasses ==
  /\ timer = "armed"
  /\ timer' = "fired"
  /\ UNCHANGED <<queue, batch, timerRunning, pc, draining, committed, stopped,
                 stored, offered, due>>

\* A timer case that forgets what it is for.
receiveTickNoFlush ==
  /\ pc = "select"
  /\ timer = "fired"
  /\ timer' = "stopped"
  /\ timerRunning' = FALSE
  /\ UNCHANGED <<queue, batch, pc, draining, committed, stopped, stored,
                 offered, due>>

receiveTick ==
  /\ pc = "select"
  /\ timer = "fired"
  /\ timer' = "stopped"
  /\ timerRunning' = FALSE
  /\ pc' = IF batch = <<>> THEN "select" ELSE "create"
  /\ UNCHANGED <<queue, batch, draining, committed, stopped, stored, offered,
                 due>>

receiveStop ==
  /\ pc = "select"
  /\ stopped
  /\ IF timerRunning THEN stopTimer ELSE UNCHANGED timer
  /\ draining' = TRUE
  /\ pc' = "drain"
  /\ UNCHANGED <<queue, batch, timerRunning, committed, stopped, stored,
                 offered, due>>

drain ==
  /\ pc = "drain"
  /\ take
  /\ UNCHANGED <<timer, timerRunning, pc, draining, committed, stopped, stored,
                 offered, due>>

\* A stop case that flushes without draining the channel.
drainedAtOnce == pc = "drain"

drained == pc = "drain" /\ queue = <<>>

lastFlush ==
  /\ drained
  /\ pc' = IF batch = <<>> THEN "exited" ELSE "create"
  /\ UNCHANGED <<queue, batch, timer, timerRunning, draining, committed,
                 stopped, stored, offered, due>>
-----------------------------------------------------------------------------
(* writeBatch.                                                             *)

flushDone ==
  /\ pc' = IF draining THEN "exited" ELSE "select"
  /\ committed' = FALSE

createBatch ==
  /\ pc = "create"
  /\ stored' = stored \o batch
  /\ batch' = <<>>
  /\ flushDone
  /\ UNCHANGED <<queue, timer, timerRunning, draining, stopped, offered, due>>

\* Create reports an error: nothing was stored, or the commit succeeded and
\* its answer was lost.
createBatchFails ==
  /\ pc = "create"
  /\ \/ committed' = FALSE /\ UNCHANGED stored
     \/ committed' = TRUE /\ stored' = stored \o batch
  /\ pc' = "createOne"
  /\ UNCHANGED <<queue, batch, timer, timerRunning, draining, stopped, offered,
                 due>>

\* Single inserts that draw new ids, as of copies of the entries.
rowsAfterCreateFresh(e) == {stored, Append(stored, e)}

\* A row whose id is taken is refused; any other is stored or lost, an error
\* is only logged.
rowsAfterCreate(e) ==
  IF committed THEN {stored} ELSE {stored, Append(stored, e)}

createOne ==
  /\ pc = "createOne"
  /\ stored' \in rowsAfterCreate(Head(batch))
  /\ batch' = Tail(batch)
  /\ IF batch' = <<>> THEN flushDone ELSE UNCHANGED <<pc, committed>>
  /\ UNCHANGED <<queue, timer, timerRunning, draining, stopped, offered, due>>
-----------------------------------------------------------------------------
\* The process dies and comes up again with a new writer.
crash ==
  /\ queue' = <<>>
  /\ batch' = <<>>
  /\ timer' = "stopped"
  /\ timerRunning' = FALSE
  /\ pc' = "select"
  /\ draining' = FALSE
  /\ stopped' = FALSE
  /\ committed' = FALSE
  /\ due' = {}
  /\ UNCHANGED <<stored, offered>>

worker ==
  \/ receive
  \/ receiveTick
  \/ receiveStop
  \/ drain
  \/ lastFlush
  \/ createBatch
  \/ createBatchFails
  \/ createOne

Next ==
  \/ \E e \in Entry : Write(e)
  \/ Stop
  \/ worker
  \/ flushIntervalPasses
  \/ crash

Spec == Init /\ [][Next]_vars

\* The goroutine is scheduled, the timer fires, and the database answers
\* every Create, if only with an error.
FairSpec == Spec /\ WF_vars(worker) /\ WF_vars(flushIntervalPasses)
-----------------------------------------------------------------------------
(* Properties.                                                             *)

AsyncLogTypeOK ==
  /\ queue \in Seq(Entry)
  /\ Len(queue) <= QueueSize
  /\ batch \in Seq(Entry)
  /\ timer \in {"stopped", "armed", "fired"}
  /\ timerRunning \in BOOLEAN
  /\ pc \in {"select", "drain", "create", "createOne", "exited"}
  /\ draining \in BOOLEAN
  /\ stopped \in BOOLEAN
  /\ committed \in BOOLEAN
  /\ stored \in Seq(Entry)
  /\ offered \subseteq Entry
  /\ due \subseteq Entry

\* Whenever the worker is back in its select, an incomplete batch has a timer
\* running or a tick to be received, an empty one has neither, and the flag
\* agrees with the timer: no entry is stranded in a batch nothing will flush,
\* and no batch is flushed by the timer of an earlier one.
BatchHasTimer ==
  pc = "select" =>
    /\ Len(batch) < BatchSize
    /\ timerRunning <=> batch # <<>>
    /\ timerRunning <=> timer # "stopped"

\* Stop waits until every entry accepted before the call was stored or given
\* up, although handlers go on writing meanwhile.
StopFlushesAll ==
  pc = "exited" => due \cap Range(pending) = {}

Sink == INSTANCE LogSink

\* Entries become rows in the order they were accepted and at most once each,
\* also when a batch fails half way or its commit is acknowledged as failed;
\* CleanupLogsByCount relies on ids in that order (models/cleanup.go:12-29).
ImplementsSink == Sink!Spec

\* An accepted entry does not stay in memory for ever, unless the writer is
\* stopped, after which Write still accepts entries nobody takes.
EntriesSettle ==
  \A e \in Entry : e \in Range(pending) ~> (e \notin Range(pending) \/ stopped)
=============================================================================
