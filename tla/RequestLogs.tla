---------------------------- MODULE RequestLogs -----------------------------
(***************************************************************************)
(* The table request_logs and those who change it: the writer's inserts,   *)
(* ClearLogs (handlers/log_handler.go) and the cleanup of models/cleanup.go,*)
(* which looks for a threshold id and deletes the rows below it in a       *)
(* second statement.  It runs once before the server serves, and for every *)
(* tick of a ticker, whose goroutine was started before that first run.    *)
(*                                                                         *)
(* A row is its id; ids grow and are never used again (autoIncrement).     *)
(***************************************************************************)
EXTENDS Naturals, FiniteSets

CONSTANTS
  KeepCount,    \* LOG_KEEP_COUNT
  MaxId         \* bound: the largest id

ASSUME RequestLogsAssumption == KeepCount \in Nat /\ MaxId \in Nat

Id == 1..MaxId
Pass == {"initial", "ticker"}

VARIABLES
  table,        \* the ids of the stored rows
  lastId,       \* the largest id ever given
  pass,         \* where each run of CleanupLogsByCount is
  thresholdID   \* what it found, or 0

logVars == <<table, lastId, pass, thresholdID>>

newerThan(id) == {r \in table : r > id}

LogsInit ==
  /\ lastId \in 0..MaxId
  /\ table \in SUBSET (1..lastId)
  /\ pass = [p \in Pass |-> IF p = "initial" THEN "query" ELSE "idle"]
  /\ thresholdID = [p \in Pass |-> 0]

\* main starts the handlers after StartLogCleanupTask has returned.
serving == pass["initial"] = "done"

\* Ids that are only larger than those still in the table.
insertLogReuse ==
  /\ serving
  /\ \E id \in Id :
       /\ newerThan(id - 1) = {}
       /\ table' = table \cup {id}
  /\ UNCHANGED <<lastId, pass, thresholdID>>

\* A row of the log writer; ids of inserts that failed are lost.
insertLog ==
  /\ serving
  /\ \E id \in (lastId + 1)..MaxId :
       /\ table' = table \cup {id}
       /\ lastId' = id
  /\ UNCHANGED <<pass, thresholdID>>

ClearLogs ==
  /\ serving
  /\ table # {}
  /\ table' = {}
  /\ UNCHANGED <<lastId, pass, thresholdID>>
-----------------------------------------------------------------------------
(* CleanupLogsByCount.                                                     *)

\* A goroutine that cleans up a single time.
endPassForGood(p) ==
  /\ pass' = [pass EXCEPT ![p] = "done"]
  /\ thresholdID' = [thresholdID EXCEPT ![p] = 0]

endPass(p) ==
  /\ pass' = [pass EXCEPT ![p] = IF p = "initial" THEN "done" ELSE "idle"]
  /\ thresholdID' = [thresholdID EXCEPT ![p] = 0]

tick ==
  /\ pass["ticker"] = "idle"
  /\ pass' = [pass EXCEPT !["ticker"] = "query"]
  /\ UNCHANGED <<table, lastId, thresholdID>>

\* ORDER BY id without DESC.
isThresholdAscending(id) ==
  id \in table /\ Cardinality(table \ newerThan(id)) = KeepCount + 1

\* ORDER BY id DESC LIMIT 1 OFFSET keepCount
isThreshold(id) == id \in table /\ Cardinality(newerThan(id)) = KeepCount

findThreshold(p) ==
  /\ pass[p] = "query"
  /\ \E id \in table :
       isThreshold(id) /\ thresholdID' = [thresholdID EXCEPT ![p] = id]
  /\ pass' = [pass EXCEPT ![p] = "delete"]
  /\ UNCHANGED <<table, lastId>>

\* There are not as many rows, or the query failed.
noThreshold(p) ==
  /\ pass[p] = "query"
  /\ endPass(p)
  /\ UNCHANGED <<table, lastId>>

deleteOlder(p) ==
  /\ pass[p] = "delete"
  /\ table' = {r \in table : r >= thresholdID[p]}
  /\ endPass(p)
  /\ UNCHANGED lastId

deleteFails(p) ==
  /\ pass[p] = "delete"
  /\ endPass(p)
  /\ UNCHANGED <<table, lastId>>

cleanup(p) == findThreshold(p) \/ noThreshold(p) \/ deleteOlder(p) \/ deleteFails(p)

LogsNext ==
  \/ insertLog
  \/ ClearLogs
  \/ tick
  \/ \E p \in Pass : cleanup(p)

LogsSpec == LogsInit /\ [][LogsNext]_logVars
-----------------------------------------------------------------------------
(* Properties.                                                             *)

RequestLogsTypeOK ==
  /\ lastId \in 0..MaxId
  /\ table \subseteq 1..lastId
  /\ pass \in [Pass -> {"idle", "query", "delete", "done"}]
  /\ thresholdID \in [Pass -> 0..lastId]

\* Whatever was inserted, cleared or trimmed by the other run since a run of
\* the cleanup looked up its threshold, its DELETE (cleanup.go:29) takes no
\* row away that is among the KeepCount + 1 newest at that moment.
CleanupKeepsRecent ==
  [][\A p \in Pass : deleteOlder(p) =>
       \A r \in table \ table' : Cardinality(newerThan(r)) > KeepCount]_logVars

\* Once no more is logged, no more than those KeepCount + 1 stay, although runs
\* fail (cleanup.go:46): the ticker's goroutine tries again.
LogsTrimmed == <>[](Cardinality(table) <= KeepCount + 1)
=============================================================================
