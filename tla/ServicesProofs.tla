--------------------------- MODULE ServicesProofs ---------------------------
(***************************************************************************)
(* What the three background services promise.                             *)
(*                                                                         *)
(* The cleanup never deletes one of the KeepCount + 1 newest rows, for any *)
(* KeepCount and whatever happens between its two statements.  The         *)
(* invariant is about the threshold a run has found: every row below it    *)
(* has more than KeepCount newer ones.  It holds when the threshold is     *)
(* found; inserts only add newer rows, ClearLogs leaves no row below the   *)
(* threshold, and what the other run deletes is older than what it keeps.  *)
(*                                                                         *)
(* A reset of the runtime manager is forgotten by the statistics, for any  *)
(* number of requests and results.  The invariant says it of everything    *)
(* that is cached or on its way to the cache: outside of a reset nothing   *)
(* is left from before it but what a running query is excused for.         *)
(*                                                                         *)
(* The log writer: its types, that a batch always has a timer, that Stop   *)
(* flushes what was accepted before it, that the writer implements LogSink *)
(* and so logs no request twice, for every queue and batch size.           *)
(***************************************************************************)
EXTENDS AsyncLog, StatsCache, FiniteSetTheorems, SequenceTheorems, TLAPS

ThresholdsKeepRecent ==
  \A p \in Pass : pass[p] = "delete" =>
    \A r \in table : r < thresholdID[p] => Cardinality(newerThan(r)) > KeepCount

LogsInv == RequestLogsTypeOK /\ ThresholdsKeepRecent
-----------------------------------------------------------------------------
LEMMA TableFinite ==
  ASSUME RequestLogsTypeOK
  PROVE  /\ IsFiniteSet(table)
         /\ \A r : IsFiniteSet(newerThan(r)) /\ Cardinality(newerThan(r)) \in Nat
<1>1. IsFiniteSet(table)
  <2>1. lastId \in Nat
    BY RequestLogsAssumption DEF RequestLogsTypeOK, RequestLogsAssumption
  <2>2. IsFiniteSet(1..lastId)
    BY <2>1, FS_Interval
  <2> QED  BY <2>2, FS_Subset DEF RequestLogsTypeOK
<1>2. ASSUME NEW r PROVE IsFiniteSet(newerThan(r)) /\ Cardinality(newerThan(r)) \in Nat
  <2>1. newerThan(r) \subseteq table
    BY DEF newerThan
  <2> QED  BY <1>1, <2>1, FS_Subset, FS_CardinalityType
<1> QED  BY <1>1, <1>2

LEMMA RowsAreNumbers ==
  ASSUME RequestLogsTypeOK
  PROVE  /\ lastId \in Nat
         /\ \A r \in table : r \in Nat /\ r <= lastId
         /\ \A p \in Pass : thresholdID[p] \in Nat /\ thresholdID[p] <= lastId
BY RequestLogsAssumption DEF RequestLogsTypeOK, RequestLogsAssumption

\* The state's types are right at the start.
LEMMA TypeInit == LogsInit => RequestLogsTypeOK
BY RequestLogsAssumption DEF LogsInit, RequestLogsTypeOK, Pass, RequestLogsAssumption

LEMMA TypeStep == RequestLogsTypeOK /\ [LogsNext]_logVars => RequestLogsTypeOK'
<1> SUFFICES ASSUME RequestLogsTypeOK, [LogsNext]_logVars
             PROVE  RequestLogsTypeOK'
  OBVIOUS
<1>0. lastId \in Nat /\ MaxId \in Nat
  BY RowsAreNumbers, RequestLogsAssumption DEF RequestLogsAssumption
<1>1. CASE insertLog
  BY <1>0, <1>1 DEF insertLog, RequestLogsTypeOK
<1>2. CASE ClearLogs
  BY <1>2 DEF ClearLogs, RequestLogsTypeOK
<1>3. CASE tick
  BY <1>3 DEF tick, RequestLogsTypeOK
<1>4. ASSUME NEW p \in Pass, cleanup(p) PROVE RequestLogsTypeOK'
  <2>1. CASE findThreshold(p)
    BY <1>0, <2>1 DEF findThreshold, RequestLogsTypeOK
  <2>2. CASE noThreshold(p)
    BY <1>0, <2>2 DEF noThreshold, endPass, RequestLogsTypeOK
  <2>3. CASE deleteOlder(p)
    <3>1. table' \subseteq table /\ lastId' = lastId
      BY <2>3 DEF deleteOlder
    <3>2. pass' \in [Pass -> {"idle", "query", "delete", "done"}]
      BY <2>3 DEF deleteOlder, endPass, RequestLogsTypeOK
    <3>3. thresholdID' \in [Pass -> 0..lastId]
      BY <1>0, <2>3 DEF deleteOlder, endPass, RequestLogsTypeOK
    <3> QED  BY <3>1, <3>2, <3>3 DEF RequestLogsTypeOK
  <2>4. CASE deleteFails(p)
    BY <1>0, <2>4 DEF deleteFails, endPass, RequestLogsTypeOK
  <2> QED  BY <1>4, <2>1, <2>2, <2>3, <2>4 DEF cleanup
<1>5. CASE UNCHANGED logVars
  BY <1>5 DEF logVars, RequestLogsTypeOK
<1> QED  BY <1>1, <1>2, <1>3, <1>4, <1>5 DEF LogsNext
-----------------------------------------------------------------------------
(* The invariant.                                                          *)

LEMMA ThresholdsInit == LogsInit => ThresholdsKeepRecent
BY DEF LogsInit, ThresholdsKeepRecent, Pass

\* A run that does nothing to the table and finds no threshold.
LEMMA QuietStep ==
  ASSUME ThresholdsKeepRecent,
         UNCHANGED table,
         \A p \in Pass : pass'[p] = "delete" =>
           pass[p] = "delete" /\ thresholdID'[p] = thresholdID[p]
  PROVE  ThresholdsKeepRecent'
BY DEF ThresholdsKeepRecent, newerThan

LEMMA InsertKeeps ==
  ASSUME LogsInv, insertLog
  PROVE  ThresholdsKeepRecent'
<1> USE DEF LogsInv
<1>1. PICK id \in (lastId + 1)..MaxId : table' = table \cup {id}
  BY DEF insertLog
<1>2. SUFFICES ASSUME NEW p \in Pass, pass[p] = "delete",
                      NEW r \in table', r < thresholdID[p]
               PROVE  Cardinality(newerThan(r)') > KeepCount
  BY DEF ThresholdsKeepRecent, insertLog
<1>3. r \in table
  BY <1>1, <1>2, RowsAreNumbers, RequestLogsAssumption DEF RequestLogsAssumption
<1>4. Cardinality(newerThan(r)) > KeepCount
  BY <1>2, <1>3 DEF ThresholdsKeepRecent
<1>5. newerThan(r) \subseteq newerThan(r)'
  BY <1>1 DEF newerThan
<1>6. IsFiniteSet(newerThan(r)')
  <2>1. IsFiniteSet(table')
    BY <1>1, TableFinite, FS_AddElement
  <2>2. newerThan(r)' \subseteq table'
    BY DEF newerThan
  <2> QED  BY <2>1, <2>2, FS_Subset
<1>7. Cardinality(newerThan(r)) <= Cardinality(newerThan(r)')
  BY <1>5, <1>6, FS_Subset
<1>8. Cardinality(newerThan(r)) \in Nat /\ Cardinality(newerThan(r)') \in Nat
  BY <1>6, TableFinite, FS_CardinalityType
<1> QED  BY <1>4, <1>7, <1>8, RequestLogsAssumption DEF RequestLogsAssumption

LEMMA FindKeeps ==
  ASSUME LogsInv, NEW q \in Pass, findThreshold(q)
  PROVE  ThresholdsKeepRecent'
<1> USE DEF LogsInv
<1>1. PICK t \in table :
        isThreshold(t) /\ thresholdID' = [thresholdID EXCEPT ![q] = t]
  BY DEF findThreshold
<1>2. UNCHANGED table /\ pass' = [pass EXCEPT ![q] = "delete"]
  BY DEF findThreshold
<1>3. SUFFICES ASSUME NEW p \in Pass, pass'[p] = "delete",
                      NEW r \in table, r < thresholdID'[p]
               PROVE  Cardinality(newerThan(r)) > KeepCount
  BY <1>2 DEF ThresholdsKeepRecent, newerThan
<1>4. CASE p # q
  BY <1>1, <1>2, <1>3, <1>4 DEF ThresholdsKeepRecent, RequestLogsTypeOK
<1>5. CASE p = q
  <2>1. r < t
    BY <1>1, <1>3, <1>5 DEF RequestLogsTypeOK
  <2>2. newerThan(t) \cup {t} \subseteq newerThan(r)
    BY <2>1, RowsAreNumbers DEF newerThan
  <2>3. t \notin newerThan(t)
    BY RowsAreNumbers DEF newerThan
  <2>4. IsFiniteSet(newerThan(t)) /\ IsFiniteSet(newerThan(r))
    BY TableFinite
  <2>5. Cardinality(newerThan(t) \cup {t}) = KeepCount + 1
    BY <1>1, <2>3, <2>4, FS_AddElement DEF isThreshold
  <2>6. Cardinality(newerThan(t) \cup {t}) <= Cardinality(newerThan(r))
    BY <2>2, <2>4, FS_Subset
  <2>7. Cardinality(newerThan(r)) \in Nat
    BY TableFinite
  <2> QED  BY <2>5, <2>6, <2>7, RequestLogsAssumption DEF RequestLogsAssumption
<1> QED  BY <1>4, <1>5

LEMMA DeleteKeeps ==
  ASSUME LogsInv, NEW q \in Pass, deleteOlder(q)
  PROVE  ThresholdsKeepRecent'
<1> USE DEF LogsInv
<1>1. /\ table' = {r \in table : r >= thresholdID[q]}
      /\ pass' = [pass EXCEPT ![q] = IF q = "initial" THEN "done" ELSE "idle"]
      /\ thresholdID' = [thresholdID EXCEPT ![q] = 0]
  BY DEF deleteOlder, endPass
<1>2. SUFFICES ASSUME NEW p \in Pass, pass'[p] = "delete",
                      NEW r \in table', r < thresholdID'[p]
               PROVE  Cardinality(newerThan(r)') > KeepCount
  BY DEF ThresholdsKeepRecent
<1>3. p # q
  BY <1>1, <1>2 DEF RequestLogsTypeOK
<1>4. pass[p] = "delete" /\ thresholdID'[p] = thresholdID[p] /\ r \in table
  BY <1>1, <1>2, <1>3 DEF RequestLogsTypeOK
<1>5. newerThan(r)' = newerThan(r)
  BY <1>1, <1>2, <1>4, RowsAreNumbers DEF newerThan
<1> QED  BY <1>2, <1>4, <1>5 DEF ThresholdsKeepRecent

LEMMA ThresholdsStep == LogsInv /\ [LogsNext]_logVars => ThresholdsKeepRecent'
<1> SUFFICES ASSUME LogsInv, [LogsNext]_logVars
             PROVE  ThresholdsKeepRecent'
  OBVIOUS
<1>1. CASE insertLog
  BY <1>1, InsertKeeps
<1>2. CASE ClearLogs
  BY <1>2 DEF ClearLogs, ThresholdsKeepRecent
<1>3. CASE tick
  <2>1. pass' = [pass EXCEPT !["ticker"] = "query"] /\ UNCHANGED <<table, thresholdID>>
    BY <1>3 DEF tick
  <2>2. \A p \in Pass : pass'[p] = "delete" => pass[p] = "delete"
    BY <2>1 DEF LogsInv, RequestLogsTypeOK
  <2> QED  BY <2>1, <2>2, QuietStep DEF LogsInv
<1>4. ASSUME NEW q \in Pass, cleanup(q) PROVE ThresholdsKeepRecent'
  <2>1. CASE findThreshold(q)
    BY <2>1, FindKeeps
  <2>2. CASE noThreshold(q) \/ deleteFails(q)
    <3>1. /\ pass' = [pass EXCEPT ![q] = IF q = "initial" THEN "done" ELSE "idle"]
          /\ thresholdID' = [thresholdID EXCEPT ![q] = 0]
          /\ UNCHANGED table
      BY <2>2 DEF noThreshold, deleteFails, endPass
    <3>2. \A p \in Pass : pass'[p] = "delete" =>
            pass[p] = "delete" /\ thresholdID'[p] = thresholdID[p]
      BY <3>1 DEF LogsInv, RequestLogsTypeOK
    <3> QED  BY <3>1, <3>2, QuietStep DEF LogsInv
  <2>3. CASE deleteOlder(q)
    BY <2>3, DeleteKeeps
  <2> QED  BY <1>4, <2>1, <2>2, <2>3 DEF cleanup
<1>5. CASE UNCHANGED logVars
  BY <1>5, QuietStep DEF logVars, LogsInv
<1> QED  BY <1>1, <1>2, <1>3, <1>4, <1>5 DEF LogsNext
-----------------------------------------------------------------------------
LEMMA LogsInvariant == LogsSpec => []LogsInv
<1>1. LogsInit => LogsInv
  BY TypeInit, ThresholdsInit DEF LogsInv
<1>2. LogsInv /\ [LogsNext]_logVars => LogsInv'
  BY TypeStep, ThresholdsStep DEF LogsInv
<1> QED  BY <1>1, <1>2, PTL DEF LogsSpec

\* The table, the ids given and what each run holds are well typed, for any
\* KeepCount and any bound of the ids.
THEOREM LogsTypeCorrect == LogsSpec => []RequestLogsTypeOK
<1>1. LogsInv => RequestLogsTypeOK
  BY DEF LogsInv
<1> QED  BY <1>1, LogsInvariant, PTL

\* The DELETE of a cleanup (cleanup.go:29) never takes one of the KeepCount + 1
\* newest rows away, for any KeepCount and under every interleaving of the two
\* runs, the log writer and ClearLogs.
THEOREM RecentLogsKept == LogsSpec => CleanupKeepsRecent
<1> DEFINE Kept == \A p \in Pass : deleteOlder(p) =>
                     \A r \in table \ table' : Cardinality(newerThan(r)) > KeepCount
<1>1. LogsInv /\ [LogsNext]_logVars => [Kept]_logVars
  <2> SUFFICES ASSUME LogsInv, NEW p \in Pass, deleteOlder(p),
                      NEW r \in table \ table'
               PROVE  Cardinality(newerThan(r)) > KeepCount
    OBVIOUS
  <2>1. pass[p] = "delete" /\ table' = {s \in table : s >= thresholdID[p]}
    BY DEF deleteOlder
  <2>2. r < thresholdID[p]
    BY <2>1, RowsAreNumbers DEF LogsInv
  <2> QED  BY <2>1, <2>2 DEF LogsInv, ThresholdsKeepRecent
<1>2. CleanupKeepsRecent <=> [][Kept]_logVars
  BY DEF CleanupKeepsRecent
<1> QED  BY <1>1, <1>2, LogsInvariant, PTL DEF LogsSpec
-----------------------------------------------------------------------------
Shapes ==
  /\ DOMAIN cached = Result
  /\ DOMAIN refresh = Result
  /\ DOMAIN read = Reader

NothingFromBefore ==
  /\ \A x \in Result : cached[x] # "beforeReset" /\ refresh[x] # "beforeReset"
  /\ \A r \in Reader : read[r] # "beforeReset"

StatsInv == Shapes /\ resetting \in BOOLEAN /\ (~resetting => NothingFromBefore)
-----------------------------------------------------------------------------
LEMMA StatsInvInit == ServicesInit => StatsInv
BY DEF ServicesInit, StatsInit, StatsInv, Shapes, NothingFromBefore, NoResults

\* Results that age without a reset are not from before one.
LEMMA AgeKeeps ==
  ASSUME StatsInv, resultsAge(FALSE), UNCHANGED resetting
  PROVE  StatsInv'
BY DEF StatsInv, Shapes, NothingFromBefore, resultsAge, older

LEMMA QuietKeeps ==
  ASSUME StatsInv, UNCHANGED <<results, resetting>>
  PROVE  StatsInv'
BY DEF StatsInv, Shapes, NothingFromBefore, results

LEMMA QueryKeeps ==
  ASSUME StatsInv, refreshQuery
  PROVE  StatsInv'
<1>1. \E x : \E age \in {"none", "current"} :
        refresh' = [refresh EXCEPT ![x] = age]
  BY DEF refreshQuery, computed
<1>2. UNCHANGED <<cached, read, resetting>>
  BY DEF refreshQuery
<1> QED  BY <1>1, <1>2 DEF StatsInv, Shapes, NothingFromBefore

LEMMA MissKeeps ==
  ASSUME StatsInv, NEW r \in Reader, NEW result \in Result, miss(r, result)
  PROVE  StatsInv'
<1>1. PICK age \in {"none", "current"} : read' = [read EXCEPT ![r] = age]
  BY DEF miss, computed
<1>2. UNCHANGED <<cached, refresh, resetting>>
  BY DEF miss
<1> QED  BY <1>1, <1>2 DEF StatsInv, Shapes, NothingFromBefore

LEMMA StoreKeeps ==
  ASSUME StatsInv, NEW r \in Reader, store(r)
  PROVE  StatsInv'
<1>1. /\ cached' = [cached EXCEPT ![reading[r]] = read[r]]
      /\ read' = [read EXCEPT ![r] = "none"]
      /\ UNCHANGED <<refresh, resetting>>
  BY DEF store
<1> QED  BY <1>1 DEF StatsInv, Shapes, NothingFromBefore

LEMMA InvalidateKeeps ==
  ASSUME StatsInv, InvalidateStatsCache
  PROVE  StatsInv'
<1>1. /\ cached' = NoResults
      /\ resetting' = FALSE
      /\ refresh' = [x \in Result |-> excused(refresh[x])]
      /\ read' = [r \in Reader |-> excused(read[r])]
  BY DEF InvalidateStatsCache, resetDone
<1>2. \A age : excused(age) # "beforeReset"
  BY DEF excused
<1> QED  BY <1>1, <1>2 DEF StatsInv, Shapes, NothingFromBefore, NoResults

LEMMA StatsInvStep == StatsInv /\ [ServicesNext]_servicesVars => StatsInv'
<1> SUFFICES ASSUME StatsInv, [ServicesNext]_servicesVars
             PROVE  StatsInv'
  OBVIOUS
<1>1. CASE logsStep(LogsNext)
  <2>1. UNCHANGED resetting
    BY <1>1 DEF logsStep
  <2>2. UNCHANGED results \/ resultsAge(FALSE)
    BY <1>1 DEF logsStep
  <2> QED  BY <2>1, <2>2, AgeKeeps, QuietKeeps
<1>2. CASE figuresChange
  BY <1>2, AgeKeeps DEF figuresChange
<1>3. CASE refreshTick \/ statsCacheTTL
  BY <1>3, QuietKeeps DEF refreshTick, statsCacheTTL
<1>4. CASE refreshQuery
  BY <1>4, QueryKeeps
<1>5. CASE refreshStore
  BY <1>5 DEF refreshStore, StatsInv, Shapes, NothingFromBefore, NoResults
<1>6. ASSUME NEW r \in Reader, store(r) PROVE StatsInv'
  BY <1>6, StoreKeeps
<1>7. ASSUME NEW r \in Reader, NEW result \in Result, miss(r, result)
      PROVE  StatsInv'
  BY <1>7, MissKeeps
<1>8. CASE resetManager
  BY <1>8 DEF resetManager, resultsAge, StatsInv, Shapes
<1>9. CASE InvalidateStatsCache
  BY <1>9, InvalidateKeeps
<1>10. CASE UNCHANGED servicesVars
  BY <1>10, QuietKeeps DEF servicesVars, statsVars
<1> QED
  BY <1>1, <1>2, <1>3, <1>4, <1>5, <1>6, <1>7, <1>8, <1>9, <1>10 DEF ServicesNext
-----------------------------------------------------------------------------
\* After a reset no request is told figures from before it, but for a query
\* that was under way (stats_handler.go:132), for any number of requests and
\* whatever they, the refresh and the reset do between each other's steps.
THEOREM ResetIsForgotten == ServicesSpec => []ResetForgotten
<1>1. StatsInv => ResetForgotten
  BY DEF StatsInv, NothingFromBefore, ResetForgotten
<1> QED  BY <1>1, StatsInvInit, StatsInvStep, PTL DEF ServicesSpec
-----------------------------------------------------------------------------
(* The statistics' types.  What a reader is reading is either a result or  *)
(* nothing, which the type invariant does not say but its last part needs. *)

StatsTypes ==
  /\ cached \in [Result -> Age]
  /\ refresh \in [Result -> Age]
  /\ fresh \in BOOLEAN
  /\ refreshing \in 0..idle
  /\ read \in [Reader -> Age]
  /\ \A r \in Reader : reading[r] = "no" => read[r] = "none"
  /\ resetting \in BOOLEAN

StatsTypeInv == StatsTypes /\ reading \in [Reader -> Result \cup {"no"}]

LEMMA IdleIsNumber == idle \in Nat /\ Len(Results) \in Nat /\ idle = Len(Results) + 1
BY StatsCacheAssumption DEF StatsCacheAssumption, idle

LEMMA StatsTypeInit == ServicesInit => StatsTypeInv
<1> SUFFICES ASSUME ServicesInit PROVE StatsTypeInv
  OBVIOUS
<1>1. cached \in [Result -> Age] /\ refresh \in [Result -> Age]
  BY DEF ServicesInit, StatsInit, NoResults, Age
<1>2. read \in [Reader -> Age] /\ reading \in [Reader -> Result \cup {"no"}]
  BY DEF ServicesInit, StatsInit, Age
<1>3. refreshing \in 0..idle
  BY IdleIsNumber DEF ServicesInit, StatsInit
<1> QED  BY <1>1, <1>2, <1>3 DEF ServicesInit, StatsInit, StatsTypeInv, StatsTypes

LEMMA ResultsAgeType ==
  ASSUME StatsTypeInv, NEW reset \in BOOLEAN, resultsAge(reset),
         UNCHANGED <<fresh, refreshing, reading>>, resetting' \in BOOLEAN
  PROVE  StatsTypeInv'
<1>1. \A age \in Age : older(age, reset) \in Age
  BY DEF older, Age
<1>2. older("none", reset) = "none"
  BY DEF older
<1> QED  BY <1>1, <1>2 DEF StatsTypeInv, StatsTypes, resultsAge

LEMMA StatsTypeStep == StatsTypeInv /\ [ServicesNext]_servicesVars => StatsTypeInv'
<1> SUFFICES ASSUME StatsTypeInv, [ServicesNext]_servicesVars
             PROVE  StatsTypeInv'
  OBVIOUS
<1> USE IdleIsNumber DEF idle
<1>1. CASE logsStep(LogsNext) \/ figuresChange
  <2>1. CASE UNCHANGED results
    BY <1>1, <2>1 DEF logsStep, figuresChange, results, StatsTypeInv, StatsTypes
  <2>2. CASE resultsAge(FALSE)
    BY <1>1, <2>2, ResultsAgeType
    DEF logsStep, figuresChange, StatsTypeInv, StatsTypes
  <2> QED  BY <1>1, <2>1, <2>2 DEF logsStep, figuresChange
<1>2. CASE refreshTick
  <2>1. UNCHANGED <<cached, refresh, read, fresh, reading, resetting>>
    BY <1>2 DEF refreshTick, results
  <2>2. refreshing' \in 0..idle
    BY <1>2 DEF refreshTick
  <2> QED  BY <2>1, <2>2 DEF StatsTypeInv, StatsTypes
<1>10. CASE statsCacheTTL
  <2>1. UNCHANGED <<cached, refresh, read, refreshing, reading, resetting>>
    BY <1>10 DEF statsCacheTTL, results
  <2>2. fresh' \in BOOLEAN
    BY <1>10 DEF statsCacheTTL
  <2> QED  BY <2>1, <2>2 DEF StatsTypeInv, StatsTypes
<1>3. CASE refreshQuery
  <2>1. \E x : \E age \in Age : refresh' = [refresh EXCEPT ![x] = age]
    <3>1. \A result : computed(result) \subseteq Age
      BY DEF computed, Age
    <3> QED  BY <1>3, <3>1 DEF refreshQuery
  <2>2. refreshing' \in 0..idle
    BY <1>3 DEF refreshQuery, StatsTypeInv, StatsTypes
  <2> QED  BY <1>3, <2>1, <2>2, ZenonT(40) DEF refreshQuery, StatsTypeInv, StatsTypes
<1>4. CASE refreshStore
  BY <1>4 DEF refreshStore, NoResults, Age, StatsTypeInv, StatsTypes
<1>5. ASSUME NEW r \in Reader, store(r) PROVE StatsTypeInv'
  <2>1. cached' \in [Result -> Age]
    BY <1>5 DEF store, StatsTypeInv, StatsTypes
  <2>2. read' \in [Reader -> Age] /\ reading' \in [Reader -> Result \cup {"no"}]
    BY <1>5 DEF store, Age, StatsTypeInv, StatsTypes
  <2> QED  BY <1>5, <2>1, <2>2 DEF store, StatsTypeInv, StatsTypes
<1>6. ASSUME NEW r \in Reader, NEW result \in Result, miss(r, result)
      PROVE  StatsTypeInv'
  <2>1. PICK age \in Age : read' = [read EXCEPT ![r] = age]
    BY <1>6 DEF miss, computed, Age
  <2>2. result # "no"
    BY StatsCacheAssumption DEF StatsCacheAssumption
  <2> QED  BY <1>6, <2>1, <2>2 DEF miss, StatsTypeInv, StatsTypes
<1>7. CASE resetManager
  BY <1>7, ResultsAgeType DEF resetManager
<1>8. CASE InvalidateStatsCache
  <2>1. \A age \in Age : excused(age) \in Age
    BY DEF excused, Age
  <2>2. excused("none") = "none"
    BY DEF excused
  <2> QED
    BY <1>8, <2>1, <2>2
    DEF InvalidateStatsCache, resetDone, NoResults, Age, StatsTypeInv, StatsTypes
<1>9. CASE UNCHANGED servicesVars
  BY <1>9 DEF servicesVars, statsVars, results, StatsTypeInv, StatsTypes
<1> QED
  BY <1>1, <1>2, <1>3, <1>4, <1>5, <1>6, <1>7, <1>8, <1>9, <1>10
  DEF ServicesNext

\* The statistics only look at the table.
LEMMA ServicesRunLogs == ServicesSpec => LogsSpec
<1>1. ServicesInit => LogsInit
  BY DEF ServicesInit
<1>2. [ServicesNext]_servicesVars => [LogsNext]_logVars
  BY DEF ServicesNext, servicesVars, logsStep, figuresChange, refreshTick, refreshQuery,
         refreshStore, statsCacheTTL, store, miss, resetManager,
         InvalidateStatsCache, resetDone
<1> QED  BY <1>1, <1>2, PTL DEF ServicesSpec, LogsSpec

\* Cache, refresh, requests and table are well typed, and a request that is
\* reading nothing holds no result it could store, for any number of results.
THEOREM StatsTypeCorrect == ServicesSpec => []StatsCacheTypeOK
<1>1. StatsTypeInv /\ RequestLogsTypeOK => StatsCacheTypeOK
  BY DEF StatsTypeInv, StatsTypes, StatsCacheTypeOK
<1>2. ServicesSpec => []StatsTypeInv
  BY StatsTypeInit, StatsTypeStep, PTL DEF ServicesSpec
<1> QED  BY <1>1, <1>2, ServicesRunLogs, LogsTypeCorrect, PTL

\* The statistics' steps between those of the cleanup take nothing from what
\* it keeps.
THEOREM ServicesKeepRecentLogs == ServicesSpec => CleanupKeepsRecent
BY ServicesRunLogs, RecentLogsKept, PTL
-----------------------------------------------------------------------------
(* Ranges of the sequences the writer moves entries between.               *)

LEMMA RangeOfAppend ==
  ASSUME NEW S, NEW s \in Seq(S), NEW e \in S
  PROVE  Range(Append(s, e)) = Range(s) \cup {e}
<1>1. Append(s, e) = s \o <<e>>
  BY AppendIsConcat
<1>2. <<e>> \in Seq(S) /\ Range(<<e>>) = {e}
  BY DEF Range
<1>3. Range(s \o <<e>>) = Range(s) \cup Range(<<e>>)
  BY <1>2, RangeConcatenation, Zenon
<1> QED
  BY <1>1, <1>2, <1>3

\* Taking the head off a sequence takes at most that element out of its range.
LEMMA RangeOfTail ==
  ASSUME NEW S, NEW s \in Seq(S), s # <<>>
  PROVE  /\ Head(s) \in Range(s)
         /\ Range(s) = {Head(s)} \cup Range(Tail(s))
<1>1. Head(s) \in S /\ Tail(s) \in Seq(S)
  BY HeadTailProperties
<1>2. s = <<Head(s)>> \o Tail(s)
  OBVIOUS
<1>3. <<Head(s)>> \in Seq(S) /\ Range(<<Head(s)>>) = {Head(s)}
  BY <1>1 DEF Range
<1>4. \A a, b \in Seq(S) : Range(a \o b) = Range(a) \cup Range(b)
  BY RangeConcatenation, Zenon
<1>5. Head(s) \in {Head(s)} \cup Range(Tail(s))
  OBVIOUS
<1> QED
  BY <1>1, <1>2, <1>3, <1>4, <1>5

LEMMA RangeOfEmpty == Range(<<>>) = {}
BY DEF Range

LEMMA EmptyBatchFits == Len(<<>>) < BatchSize
BY AsyncLogAssumption

LEMMA EmptyQueueFits == <<>> \in Seq(Entry) /\ Len(<<>>) <= QueueSize
BY AsyncLogAssumption
-----------------------------------------------------------------------------
(* The inductive invariant.                                                *)

\* The flag and the timer while the worker is not in its select: a flush is
\* entered with both off, unless Stop left the flag as it was.
FlushHasNoTimer ==
  pc \in {"create", "createOne"} /\ ~draining =>
    ~timerRunning /\ timer = "stopped"

\* What the worker's place in the code says of its variables.
WorkerStage ==
  /\ draining => stopped /\ pc # "select"
  /\ pc \in {"drain", "exited"} => draining
  /\ pc \in {"create", "createOne"} => batch # <<>>
  /\ pc = "exited" => batch = <<>>
  /\ committed => pc = "createOne"

\* Once the channel was found empty after Stop, it holds only entries that
\* were accepted later.
DueOutOfQueue ==
  /\ due \subseteq offered
  /\ Range(queue) \subseteq offered
  /\ Range(batch) \subseteq offered
  /\ draining /\ pc # "drain" => due \cap Range(queue) = {}

LogInv ==
  /\ AsyncLogTypeOK
  /\ BatchHasTimer
  /\ FlushHasNoTimer
  /\ WorkerStage
  /\ DueOutOfQueue

\* Taking an entry from the channel to the batch: types, and where it is now.
LEMMA TakeMovesEntry ==
  ASSUME AsyncLogTypeOK, take
  PROVE  /\ queue' \in Seq(Entry) /\ Len(queue') <= QueueSize
         /\ batch' \in Seq(Entry) /\ batch' # <<>>
         /\ Len(batch') = Len(batch) + 1
         /\ Range(queue') \subseteq Range(queue)
         /\ Range(batch') \subseteq Range(batch) \cup Range(queue)
<1> USE DEF AsyncLogTypeOK, take
<1>1. Head(queue) \in Entry /\ queue' \in Seq(Entry) /\ Len(queue') = Len(queue) - 1
  BY HeadTailProperties
<1>2. Head(queue) \in Range(queue) /\ Range(queue') \subseteq Range(queue)
  BY RangeOfTail
<1>3. batch' \in Seq(Entry) /\ batch' # <<>> /\ Len(batch') = Len(batch) + 1
  BY <1>1, AppendProperties
<1>4. Range(batch') = Range(batch) \cup {Head(queue)}
  BY <1>1, RangeOfAppend
<1> QED
  BY <1>1, <1>2, <1>3, <1>4, AsyncLogAssumption

LEMMA InitLogInv == Init => LogInv
<1> SUFFICES ASSUME Init PROVE LogInv
  OBVIOUS
<1>1. AsyncLogTypeOK
  BY EmptyQueueFits DEF Init, AsyncLogTypeOK
<1>2. BatchHasTimer
  BY EmptyBatchFits, Zenon DEF Init, BatchHasTimer
<1>3. FlushHasNoTimer /\ WorkerStage
  BY DEF Init, FlushHasNoTimer, WorkerStage
<1>4. DueOutOfQueue
  BY RangeOfEmpty DEF Init, DueOutOfQueue
<1> QED
  BY <1>1, <1>2, <1>3, <1>4 DEF LogInv

LEMMA NextLogInv == LogInv /\ [Next]_vars => LogInv'
<1> SUFFICES ASSUME LogInv, [Next]_vars PROVE LogInv'
  OBVIOUS
<1> USE DEF LogInv
<1>1. ASSUME NEW e \in Entry, Write(e) PROVE LogInv'
  <2>1. queue' \in Seq(Entry) /\ Len(queue') <= QueueSize
    BY <1>1, AppendProperties, AsyncLogAssumption DEF Write, AsyncLogTypeOK
  <2>2. AsyncLogTypeOK'
    BY <1>1, <2>1 DEF Write, workerVars, AsyncLogTypeOK
  <2>3. BatchHasTimer' /\ FlushHasNoTimer' /\ WorkerStage'
    BY <1>1 DEF Write, workerVars, BatchHasTimer, FlushHasNoTimer, WorkerStage
  <2>4. Range(queue') \subseteq Range(queue) \cup {e}
    BY <1>1, RangeOfAppend DEF Write, AsyncLogTypeOK
  <2>5. DueOutOfQueue'
    BY <1>1, <2>4 DEF Write, workerVars, DueOutOfQueue
  <2> QED
    BY <2>2, <2>3, <2>5
<1>2. ASSUME Stop PROVE LogInv'
  <2>1. Range(pending) \subseteq offered
    <3>1. \A a, b \in Seq(Entry) : Range(a \o b) = Range(a) \cup Range(b)
      BY RangeConcatenation, Zenon
    <3>2. CASE committed
      BY <3>1, <3>2, RangeOfEmpty DEF pending, DueOutOfQueue, AsyncLogTypeOK
    <3>3. CASE ~committed
      BY <3>1, <3>3 DEF pending, DueOutOfQueue, AsyncLogTypeOK
    <3> QED
      BY <3>2, <3>3
  <2>2. AsyncLogTypeOK'
    BY <1>2, <2>1 DEF Stop, workerVars, AsyncLogTypeOK
  <2>3. BatchHasTimer' /\ FlushHasNoTimer' /\ WorkerStage'
    BY <1>2 DEF Stop, workerVars, BatchHasTimer, FlushHasNoTimer, WorkerStage
  <2>4. ~draining
    BY <1>2 DEF Stop, WorkerStage
  <2>5. DueOutOfQueue'
    BY <1>2, <2>1, <2>4 DEF Stop, workerVars, DueOutOfQueue
  <2> QED
    BY <2>2, <2>3, <2>5
<1>3. ASSUME receive PROVE LogInv'
  <2>1. take
    BY <1>3 DEF receive
  <2>2. AsyncLogTypeOK'
    BY <1>3, <2>1, TakeMovesEntry
    DEF receive, timerAfterReceive, stopTimer, AsyncLogTypeOK
  <2>3. Len(batch') \in Nat /\ BatchSize \in Nat
    BY <2>1, TakeMovesEntry, AsyncLogAssumption DEF AsyncLogTypeOK
  <2>4. (Len(batch') < BatchSize) <=> ~(Len(batch') >= BatchSize)
    BY <2>3
  <2>5. BatchHasTimer' /\ FlushHasNoTimer'
    BY <1>3, <2>1, <2>4, TakeMovesEntry
    DEF receive, timerAfterReceive, stopTimer, BatchHasTimer, FlushHasNoTimer
  <2>6. WorkerStage'
    BY <1>3, <2>1, TakeMovesEntry DEF receive, WorkerStage
  <2>7. DueOutOfQueue'
    BY <1>3, <2>1, TakeMovesEntry DEF receive, DueOutOfQueue, WorkerStage
  <2> QED
    BY <2>2, <2>5, <2>6, <2>7
<1>4. ASSUME flushIntervalPasses PROVE LogInv'
  BY <1>4 DEF flushIntervalPasses, AsyncLogTypeOK, BatchHasTimer,
              FlushHasNoTimer, WorkerStage, DueOutOfQueue
<1>5. ASSUME receiveTick PROVE LogInv'
  <2>1. AsyncLogTypeOK'
    BY <1>5 DEF receiveTick, AsyncLogTypeOK
  <2>2. BatchHasTimer'
    BY <1>5, AsyncLogAssumption DEF receiveTick, BatchHasTimer, AsyncLogTypeOK
  <2>3. FlushHasNoTimer' /\ WorkerStage'
    BY <1>5 DEF receiveTick, FlushHasNoTimer, WorkerStage
  <2>4. DueOutOfQueue'
    BY <1>5 DEF receiveTick, DueOutOfQueue, WorkerStage
  <2> QED
    BY <2>1, <2>2, <2>3, <2>4
<1>6. ASSUME receiveStop PROVE LogInv'
  BY <1>6 DEF receiveStop, stopTimer, AsyncLogTypeOK, BatchHasTimer,
              FlushHasNoTimer, WorkerStage, DueOutOfQueue
<1>7. ASSUME drain PROVE LogInv'
  <2>1. take
    BY <1>7 DEF drain
  <2>2. AsyncLogTypeOK'
    BY <1>7, <2>1, TakeMovesEntry DEF drain, AsyncLogTypeOK
  <2>3. BatchHasTimer' /\ FlushHasNoTimer' /\ WorkerStage'
    BY <1>7 DEF drain, BatchHasTimer, FlushHasNoTimer, WorkerStage
  <2>4. DueOutOfQueue'
    BY <1>7, <2>1, TakeMovesEntry DEF drain, DueOutOfQueue
  <2> QED
    BY <2>2, <2>3, <2>4
<1>8. ASSUME lastFlush PROVE LogInv'
  <2>1. AsyncLogTypeOK' /\ BatchHasTimer' /\ FlushHasNoTimer' /\ WorkerStage'
    BY <1>8 DEF lastFlush, drained, AsyncLogTypeOK, BatchHasTimer,
                FlushHasNoTimer, WorkerStage
  <2>2. DueOutOfQueue'
    BY <1>8, RangeOfEmpty DEF lastFlush, drained, DueOutOfQueue
  <2> QED
    BY <2>1, <2>2
<1>9. ASSUME createBatch PROVE LogInv'
  <2>1. stored' \in Seq(Entry)
    BY <1>9, ConcatProperties DEF createBatch, AsyncLogTypeOK
  <2>2. AsyncLogTypeOK'
    BY <1>9, <2>1, EmptySeq DEF createBatch, flushDone, AsyncLogTypeOK
  <2>3. BatchHasTimer'
    BY <1>9, AsyncLogAssumption
    DEF createBatch, flushDone, BatchHasTimer, FlushHasNoTimer, AsyncLogTypeOK
  <2>4. FlushHasNoTimer' /\ WorkerStage'
    BY <1>9 DEF createBatch, flushDone, FlushHasNoTimer, WorkerStage
  <2>5. DueOutOfQueue'
    BY <1>9, RangeOfEmpty DEF createBatch, flushDone, DueOutOfQueue
  <2> QED
    BY <2>2, <2>3, <2>4, <2>5
<1>10. ASSUME createBatchFails PROVE LogInv'
  <2>1. stored' \in Seq(Entry)
    BY <1>10, ConcatProperties DEF createBatchFails, AsyncLogTypeOK
  <2>2. AsyncLogTypeOK'
    BY <1>10, <2>1 DEF createBatchFails, AsyncLogTypeOK
  <2>3. BatchHasTimer' /\ FlushHasNoTimer' /\ WorkerStage'
    BY <1>10 DEF createBatchFails, BatchHasTimer, FlushHasNoTimer, WorkerStage
  <2>4. DueOutOfQueue'
    BY <1>10 DEF createBatchFails, DueOutOfQueue
  <2> QED
    BY <2>2, <2>3, <2>4
<1>11. ASSUME createOne PROVE LogInv'
  <2>1. batch # <<>>
    BY <1>11 DEF createOne, WorkerStage
  <2>2. Head(batch) \in Entry /\ batch' \in Seq(Entry)
    BY <1>11, <2>1, HeadTailProperties DEF createOne, AsyncLogTypeOK
  <2>3. stored' \in Seq(Entry)
    <3>1. stored' = stored \/ stored' = Append(stored, Head(batch))
      BY <1>11 DEF createOne, rowsAfterCreate
    <3>2. stored \in Seq(Entry)
      BY DEF AsyncLogTypeOK
    <3>3. Append(stored, Head(batch)) \in Seq(Entry)
      BY <2>2, <3>2, AppendProperties
    <3> QED
      BY <3>1, <3>2, <3>3
  <2>4. AsyncLogTypeOK'
    BY <1>11, <2>2, <2>3 DEF createOne, flushDone, AsyncLogTypeOK
  <2>5. BatchHasTimer'
    <3>1. CASE batch' = <<>> /\ ~draining
      <4>1. ~timerRunning' /\ timer' = "stopped"
        BY <1>11, <3>1 DEF createOne, FlushHasNoTimer
      <4> QED
        BY <3>1, <4>1, EmptyBatchFits, Zenon DEF BatchHasTimer
    <3>2. CASE ~(batch' = <<>> /\ ~draining)
      BY <1>11, <3>2 DEF createOne, flushDone, BatchHasTimer
    <3> QED
      BY <3>1, <3>2
  <2>6. FlushHasNoTimer' /\ WorkerStage'
    BY <1>11 DEF createOne, flushDone, FlushHasNoTimer, WorkerStage
  <2>7. Range(batch') \subseteq Range(batch)
    BY <1>11, <2>1, RangeOfTail DEF createOne, AsyncLogTypeOK
  <2>8. DueOutOfQueue'
    BY <1>11, <2>7 DEF createOne, flushDone, DueOutOfQueue
  <2> QED
    BY <2>4, <2>5, <2>6, <2>8
<1>12. ASSUME crash PROVE LogInv'
  <2>1. AsyncLogTypeOK'
    BY <1>12, EmptyQueueFits DEF crash, AsyncLogTypeOK
  <2>4. BatchHasTimer'
    BY <1>12, EmptyBatchFits, Zenon DEF crash, BatchHasTimer
  <2>2. FlushHasNoTimer' /\ WorkerStage'
    BY <1>12 DEF crash, FlushHasNoTimer, WorkerStage
  <2>3. DueOutOfQueue'
    BY <1>12, RangeOfEmpty DEF crash, DueOutOfQueue
  <2> QED
    BY <2>1, <2>2, <2>3, <2>4
<1>13. ASSUME UNCHANGED vars PROVE LogInv'
  BY <1>13 DEF vars, workerVars, AsyncLogTypeOK, BatchHasTimer,
               FlushHasNoTimer, WorkerStage, DueOutOfQueue
<1> QED
  BY <1>1, <1>2, <1>3, <1>4, <1>5, <1>6, <1>7, <1>8, <1>9, <1>10, <1>11,
     <1>12, <1>13 DEF Next, worker

\* The inductive invariant holds throughout.
THEOREM LogInvariant == Spec => []LogInv
<1>1. Init => LogInv
  BY InitLogInv
<1>2. LogInv /\ [Next]_vars => LogInv'
  BY NextLogInv
<1> QED
  BY <1>1, <1>2, PTL DEF Spec
-----------------------------------------------------------------------------
(* The properties.                                                         *)

\* The variables have their types; the channel never holds more than its
\* capacity (Write, async_log.go:142-148).
THEOREM LogTypeCorrect == Spec => []AsyncLogTypeOK
<1>1. LogInv => AsyncLogTypeOK
  BY DEF LogInv
<1> QED
  BY <1>1, LogInvariant, PTL

\* The flag timerRunning, the timer and the batch agree whenever the worker
\* selects (async_log.go:71-94), for every batch size.
THEOREM BatchAlwaysHasTimer == Spec => []BatchHasTimer
<1>1. LogInv => BatchHasTimer
  BY DEF LogInv
<1> QED
  BY <1>1, LogInvariant, PTL

\* Stop returns only after every entry accepted before it was written or given
\* up (async_log.go:95-115, 150-159).
THEOREM StopFlushes == Spec => []StopFlushesAll
<1>1. LogInv => StopFlushesAll
  <2> SUFFICES ASSUME LogInv, pc = "exited"
               PROVE  due \cap Range(pending) = {}
    BY DEF StopFlushesAll
  <2> USE DEF LogInv
  <2>1. ~committed /\ batch = <<>> /\ draining
    BY DEF WorkerStage
  <2>2. due \cap Range(queue) = {}
    BY <2>1 DEF DueOutOfQueue
  <2>3. pending = <<>> \o queue
    BY <2>1 DEF pending
  <2>4. <<>> \o queue = queue
    BY DEF AsyncLogTypeOK
  <2> QED
    BY <2>2, <2>3, <2>4
<1> QED
  BY <1>1, LogInvariant, PTL
-----------------------------------------------------------------------------
(* The writer implements LogSink.                                          *)

\* A prefix of a concatenation taken off gives the rest.
LEMMA SplitConcat ==
  ASSUME NEW S, NEW a \in Seq(S), NEW b \in Seq(S)
  PROVE  /\ SubSeq(a \o b, 1, Len(a)) = a
         /\ SubSeq(a \o b, Len(a) + 1, Len(a \o b)) = b
<1> DEFINE ab == a \o b
<1>1. /\ ab \in Seq(S) /\ Len(ab) = Len(a) + Len(b)
      /\ \A i \in 1 .. Len(a) + Len(b) :
           ab[i] = IF i <= Len(a) THEN a[i] ELSE b[i - Len(a)]
  BY ConcatProperties
<1>2. Len(a) \in Nat /\ Len(b) \in Nat
  OBVIOUS
<1> HIDE DEF ab
<1>3. \A i \in 1 .. Len(ab) : ab[i] \in S
  BY <1>1, ElementOfSeq
<1>4. SubSeq(ab, 1, Len(a)) = a
  <2>1. /\ SubSeq(ab, 1, Len(a)) \in Seq(S)
        /\ Len(SubSeq(ab, 1, Len(a))) = Len(a)
        /\ \A i \in 1 .. Len(a) : SubSeq(ab, 1, Len(a))[i] = ab[i]
    BY <1>1, <1>2, <1>3
  <2>2. \A i \in 1 .. Len(a) : SubSeq(ab, 1, Len(a))[i] = a[i]
    BY <1>1, <1>2, <2>1
  <2> QED
    BY <2>1, <2>2, SeqEqual
<1>5. SubSeq(ab, Len(a) + 1, Len(ab)) = b
  <2>1. /\ SubSeq(ab, Len(a) + 1, Len(ab)) \in Seq(S)
        /\ Len(SubSeq(ab, Len(a) + 1, Len(ab))) = Len(b)
        /\ \A i \in 1 .. Len(b) :
             SubSeq(ab, Len(a) + 1, Len(ab))[i] = ab[Len(a) + i]
    BY <1>1, <1>2, <1>3
  <2>2. \A i \in 1 .. Len(b) : ab[Len(a) + i] = b[i]
    BY <1>1, <1>2
  <2> QED
    BY <2>1, <2>2, SeqEqual
<1> QED
  BY <1>4, <1>5 DEF ab

\* Moving the head of one sequence to the end of the one before it.
LEMMA MoveHead ==
  ASSUME NEW S, NEW a \in Seq(S), NEW b \in Seq(S), b # <<>>
  PROVE  Append(a, Head(b)) \o Tail(b) = a \o b
<1>1. Head(b) \in S /\ Tail(b) \in Seq(S) /\ b = <<Head(b)>> \o Tail(b)
  BY HeadTailProperties
<1>2. Append(a, Head(b)) = a \o <<Head(b)>> /\ <<Head(b)>> \in Seq(S)
  BY <1>1, AppendIsConcat
<1>3. \A s, t, u \in Seq(S) : (s \o t) \o u = s \o (t \o u)
  BY ConcatAssociative, SMTT(60)
<1> QED
  BY <1>1, <1>2, <1>3

LEMMA AppendToConcat ==
  ASSUME NEW S, NEW a \in Seq(S), NEW b \in Seq(S), NEW e \in S
  PROVE  a \o Append(b, e) = Append(a \o b, e)
<1>1. \A s \in Seq(S) : Append(s, e) = s \o <<e>>
  BY AppendIsConcat
<1>2. <<e>> \in Seq(S) /\ a \o b \in Seq(S)
  OBVIOUS
<1>3. \A s, t, u \in Seq(S) : (s \o t) \o u = s \o (t \o u)
  BY ConcatAssociative, SMTT(60)
<1> QED
  BY <1>1, <1>2, <1>3

LEMMA TailOfConcat ==
  ASSUME NEW S, NEW a \in Seq(S), NEW b \in Seq(S), a # <<>>
  PROVE  /\ a \o b # <<>>
         /\ Tail(a \o b) = Tail(a) \o b
         /\ 1 \in 1 .. Len(a \o b)
         /\ SubSeq(a \o b, 1, 1) = <<Head(a)>>
         /\ SubSeq(a \o b, 2, Len(a \o b)) = Tail(a) \o b
<1>1. Head(a) \in S /\ Tail(a) \in Seq(S) /\ a = <<Head(a)>> \o Tail(a)
  BY HeadTailProperties
<1>2. <<Head(a)>> \in Seq(S) /\ Tail(a) \o b \in Seq(S) /\ Len(<<Head(a)>>) = 1
  BY <1>1
<1>3. \A s, t, u \in Seq(S) : (s \o t) \o u = s \o (t \o u)
  BY ConcatAssociative, SMTT(60)
<1>4. a \o b = <<Head(a)>> \o (Tail(a) \o b)
  BY <1>1, <1>2, <1>3
<1>5. a \o b \in Seq(S) /\ Len(a \o b) = Len(a) + Len(b) /\ a \o b # <<>>
  BY ConcatProperties, EmptySeq
<1>6. 1 \in 1 .. Len(a \o b)
  BY <1>5, EmptySeq
<1>7. \A s, t \in Seq(S) : /\ SubSeq(s \o t, 1, Len(s)) = s
                           /\ SubSeq(s \o t, Len(s) + 1, Len(s \o t)) = t
  BY SplitConcat, Zenon
<1>8. SubSeq(a \o b, 1, 1) = <<Head(a)>>
  BY <1>2, <1>4, <1>7, ZenonT(40)
<1>9. SubSeq(a \o b, 2, Len(a \o b)) = Tail(a) \o b
  BY <1>2, <1>4, <1>7
<1>10. Tail(a \o b) = SubSeq(a \o b, 2, Len(a \o b))
  BY <1>5, TailIsSubSeq
<1> QED
  BY <1>5, <1>6, <1>8, <1>9, <1>10

LEMMA InitSink == Init => Sink!Init
<1>1. <<>> \o <<>> = <<>>
  OBVIOUS
<1> QED
  BY <1>1 DEF Init, pending, Sink!Init

LEMMA StepSink == LogInv /\ [Next]_vars => [Sink!Next]_(Sink!sinkVars)
<1> SUFFICES ASSUME LogInv, [Next]_vars
             PROVE  Sink!Next \/ UNCHANGED Sink!sinkVars
  OBVIOUS
<1> USE DEF LogInv
<1>0. /\ queue \in Seq(Entry) /\ batch \in Seq(Entry) /\ stored \in Seq(Entry)
      /\ committed \in BOOLEAN
  BY DEF AsyncLogTypeOK
<1>1. ASSUME NEW e \in Entry, Write(e) PROVE Sink!Next
  <2>1. (IF committed THEN <<>> ELSE batch) \in Seq(Entry)
    BY <1>0
  <2>2. pending' = pending \/ pending' = Append(pending, e)
    <3>1. UNCHANGED <<batch, committed>>
      BY <1>1 DEF Write, workerVars
    <3>2. queue' = queue \/ queue' = Append(queue, e)
      BY <1>1 DEF Write
    <3>3. \A a, b \in Seq(Entry) : a \o Append(b, e) = Append(a \o b, e)
      BY AppendToConcat
    <3> QED
      BY <1>0, <2>1, <3>1, <3>2, <3>3 DEF pending
  <2>3. Sink!Offer(e)
    BY <1>1, <2>2 DEF Write, Sink!Offer
  <2> QED
    BY <2>3 DEF Sink!Next
<1>2. ASSUME receive \/ drain PROVE UNCHANGED Sink!sinkVars
  <2>1. ~committed /\ ~committed' /\ take /\ UNCHANGED <<stored, offered>>
    BY <1>2 DEF receive, drain, WorkerStage
  <2>2. pending' = pending
    BY <1>0, <2>1, MoveHead DEF take, pending
  <2> QED
    BY <2>1, <2>2 DEF Sink!sinkVars
<1>3. ASSUME Stop \/ flushIntervalPasses \/ receiveTick \/ receiveStop \/ lastFlush
      PROVE  UNCHANGED Sink!sinkVars
  <2>1. UNCHANGED <<queue, batch, committed, stored, offered>>
    BY <1>3 DEF Stop, flushIntervalPasses, receiveTick, receiveStop, lastFlush,
                workerVars
  <2> QED
    BY <2>1 DEF pending, Sink!sinkVars
<1>4. ASSUME pc = "create", stored' = stored \o batch, pending' = queue,
             UNCHANGED offered
      PROVE  Sink!Next
  <2>1. ~committed /\ batch # <<>>
    BY <1>4 DEF WorkerStage
  <2>2. pending = batch \o queue
    BY <2>1 DEF pending
  <2>3. /\ SubSeq(pending, 1, Len(batch)) = batch
        /\ SubSeq(pending, Len(batch) + 1, Len(pending)) = queue
    BY <1>0, <2>2, SplitConcat
  <2>4. Sink!Store(Len(batch))
    BY <1>4, <2>3 DEF Sink!Store
  <2>5. Len(batch) \in 1 .. Len(pending)
    <3>1. Len(pending) = Len(batch) + Len(queue)
      BY <1>0, <2>2, ConcatProperties
    <3>2. Len(batch) \in Nat \ {0} /\ Len(queue) \in Nat
      BY <1>0, <2>1, EmptySeq
    <3> QED
      BY <3>1, <3>2
  <2> QED
    BY <2>4, <2>5 DEF Sink!Next
<1>5. <<>> \o queue = queue
  BY <1>0
<1>6. ASSUME createBatch PROVE Sink!Next
  <2>1. /\ pc = "create" /\ stored' = stored \o batch /\ UNCHANGED <<offered, queue>>
        /\ batch' = <<>>
    BY <1>6 DEF createBatch
  <2>2. pending' = queue
    BY <1>5, <2>1 DEF pending
  <2> QED
    BY <1>4, <2>1, <2>2
<1>7. ASSUME createBatchFails PROVE Sink!Next \/ UNCHANGED Sink!sinkVars
  <2>1. ~committed /\ pc = "create" /\ UNCHANGED <<offered, queue, batch>>
    BY <1>7 DEF createBatchFails, WorkerStage
  <2>2. CASE committed' = FALSE /\ stored' = stored
    BY <2>1, <2>2 DEF pending, Sink!sinkVars
  <2>3. CASE committed' = TRUE /\ stored' = stored \o batch
    <3>1. pending' = queue
      BY <1>5, <2>1, <2>3 DEF pending
    <3> QED
      BY <1>4, <2>1, <2>3, <3>1
  <2> QED
    BY <1>7, <2>2, <2>3 DEF createBatchFails
<1>8. ASSUME createOne PROVE Sink!Next \/ UNCHANGED Sink!sinkVars
  <2>1. /\ batch # <<>> /\ batch' = Tail(batch) /\ UNCHANGED <<offered, queue>>
        /\ stored' \in rowsAfterCreate(Head(batch))
    BY <1>8 DEF createOne, WorkerStage
  <2>2. CASE committed
    <3>1. stored' = stored
      BY <2>1, <2>2 DEF rowsAfterCreate
    <3>2. (committed' = FALSE /\ batch' = <<>>) \/ committed' = committed
      BY <1>8 DEF createOne, flushDone
    <3>3. pending' = pending
      BY <2>1, <2>2, <3>2 DEF pending
    <3> QED
      BY <2>1, <3>1, <3>3 DEF Sink!sinkVars
  <2>3. CASE ~committed
    <3>1. committed' = FALSE
      BY <1>0, <1>8, <2>3 DEF createOne, flushDone
    <3>2. pending = batch \o queue /\ pending' = Tail(batch) \o queue
      BY <2>1, <2>3, <3>1 DEF pending
    <3>3. /\ pending # <<>>
          /\ Tail(pending) = Tail(batch) \o queue
          /\ 1 \in 1 .. Len(pending)
          /\ SubSeq(pending, 1, 1) = <<Head(batch)>>
          /\ SubSeq(pending, 2, Len(pending)) = Tail(batch) \o queue
      BY <1>0, <2>1, <3>2, TailOfConcat
    <3>4. CASE stored' = stored
      BY <2>1, <3>2, <3>3, <3>4 DEF Sink!GiveUp, Sink!Next
    <3>5. CASE stored' = Append(stored, Head(batch))
      <4>1. stored' = stored \o <<Head(batch)>>
        BY <1>0, <2>1, <3>5, HeadTailProperties, AppendIsConcat
      <4>2. Sink!Store(1)
        BY <2>1, <3>2, <3>3, <4>1 DEF Sink!Store
      <4> QED
        BY <3>3, <4>2 DEF Sink!Next
    <3> QED
      BY <2>1, <2>3, <3>4, <3>5 DEF rowsAfterCreate
  <2> QED
    BY <2>2, <2>3
<1>9. ASSUME crash PROVE Sink!Next
  <2>1. pending' = <<>>
    BY <1>9 DEF crash, pending
  <2> QED
    BY <1>9, <2>1 DEF crash, Sink!Crash, Sink!Next
<1>10. ASSUME UNCHANGED vars PROVE UNCHANGED Sink!sinkVars
  BY <1>10 DEF vars, workerVars, pending, Sink!sinkVars
<1> QED
  BY <1>1, <1>2, <1>3, <1>6, <1>7, <1>8, <1>9, <1>10 DEF Next, worker

\* The writer keeps what LogSink promises: rows in order of acceptance, each
\* entry at most once, through fallback inserts, lost commit answers, Stop
\* and crashes.
THEOREM WriterImplementsSink == Spec => ImplementsSink
<1>1. Init => Sink!Init
  BY InitSink
<1>2. LogInv /\ [Next]_vars => [Sink!Next]_(Sink!sinkVars)
  BY StepSink
<1>3. Spec => []LogInv
  BY LogInvariant
<1> QED
  BY <1>1, <1>2, <1>3, PTL DEF Spec, ImplementsSink, Sink!Spec

\* What LogSink says of repeats: none among rows and pending entries.
noRepeat(s) == \A i, j \in 1 .. Len(s) : s[i] = s[j] => i = j
apart(s, t) == \A i \in 1 .. Len(s) : \A j \in 1 .. Len(t) : s[i] # t[j]
among(s, S) == \A i \in 1 .. Len(s) : s[i] \in S
once(s, p, S) ==
  /\ s \in Seq(Entry) /\ p \in Seq(Entry)
  /\ noRepeat(s) /\ noRepeat(p) /\ apart(s, p) /\ among(s, S) /\ among(p, S)

LEMMA OfferedOnce ==
  ASSUME NEW s, NEW p, NEW S, once(s, p, S), NEW e \in Entry, e \notin S
  PROVE  once(s, p, S \cup {e}) /\ once(s, Append(p, e), S \cup {e})
<1> USE DEF once
<1>1. once(s, p, S \cup {e})
  BY DEF among
<1>2. PICK q : q = Append(p, e)
  OBVIOUS
<1>3. /\ q \in Seq(Entry) /\ Len(q) = Len(p) + 1 /\ Len(p) \in Nat
      /\ \A i \in 1 .. Len(q) : q[i] = IF i <= Len(p) THEN p[i] ELSE e
  BY <1>2
<1>4. \A i \in 1 .. Len(q) : i <= Len(p) \/ i = Len(q)
  BY <1>3
<1>5. noRepeat(q)
  BY <1>3, <1>4 DEF noRepeat, among
<1>6. apart(s, q)
  BY <1>3, <1>4 DEF apart, among
<1>7. among(q, S \cup {e})
  BY <1>3, <1>4 DEF among
<1> QED  BY <1>1, <1>2, <1>3, <1>5, <1>6, <1>7

\* A part of what is pending goes to the rows; the rest stays.
LEMMA StoredOnce ==
  ASSUME NEW s, NEW p, NEW S, once(s, p, S), NEW n \in 1 .. Len(p)
  PROVE  once(s \o SubSeq(p, 1, n), SubSeq(p, n + 1, Len(p)), S)
<1>1. PICK f, r : f = SubSeq(p, 1, n) /\ r = SubSeq(p, n + 1, Len(p))
  OBVIOUS
<1>2. /\ s \in Seq(Entry) /\ p \in Seq(Entry)
      /\ n \in Nat /\ n >= 1 /\ n <= Len(p) /\ Len(p) \in Nat /\ Len(s) \in Nat
  BY DEF once
<1>o. /\ \A i, j \in 1 .. Len(s) : s[i] = s[j] => i = j
      /\ \A i, j \in 1 .. Len(p) : p[i] = p[j] => i = j
      /\ \A i \in 1 .. Len(s) : \A j \in 1 .. Len(p) : s[i] # p[j]
  BY DEF once, noRepeat, apart
<1>e. (\A i \in 1 .. Len(s) : s[i] \in S) /\ \A i \in 1 .. Len(p) : p[i] \in S
  BY DEF once, among
<1>3. /\ f \in Seq(Entry) /\ Len(f) = n /\ \A i \in 1 .. n : f[i] = p[i]
  BY <1>1, <1>2
<1>4. /\ r \in Seq(Entry) /\ Len(r) = Len(p) - n
      /\ \A i \in 1 .. Len(r) : r[i] = p[n + i]
  BY <1>1, <1>2
<1>5. PICK t : t = s \o f
  OBVIOUS
<1>6. /\ t \in Seq(Entry) /\ Len(t) = Len(s) + n
      /\ \A i \in 1 .. Len(s) : t[i] = s[i]
      /\ \A i \in 1 .. n : t[Len(s) + i] = p[i]
  <2>1. /\ t \in Seq(Entry) /\ Len(t) = Len(s) + Len(f)
        /\ \A i \in 1 .. Len(s) + Len(f) :
             t[i] = IF i <= Len(s) THEN s[i] ELSE f[i - Len(s)]
    BY <1>2, <1>3, <1>5, ConcatProperties
  <2>2. \A i \in 1 .. n : t[Len(s) + i] = f[i]
    BY <1>2, <1>3, <2>1
  <2> QED  BY <1>2, <1>3, <2>1, <2>2
<1>7. \A i \in 1 .. Len(t) : i \in 1 .. Len(s) \/ \E j \in 1 .. n : i = Len(s) + j
  <2> TAKE i \in 1 .. Len(t)
  <2>1. PICK j : j = i - Len(s)
    OBVIOUS
  <2>2. i \in 1 .. Len(s) \/ (j \in 1 .. n /\ i = Len(s) + j)
    BY <1>2, <1>6, <2>1
  <2> QED  BY <2>2
<1>8. noRepeat(t)
  <2> SUFFICES ASSUME NEW i \in 1 .. Len(t), NEW j \in 1 .. Len(t), t[i] = t[j]
               PROVE  i = j
    BY DEF noRepeat
  <2>1. CASE i \in 1 .. Len(s) /\ j \in 1 .. Len(s)
    BY <1>o, <1>6, <2>1
  <2>2. ASSUME NEW k \in 1 .. Len(s), NEW l \in 1 .. n PROVE t[k] # t[Len(s) + l]
    <3>1. l \in 1 .. Len(p)
      BY <1>2
    <3> QED  BY <1>o, <1>6, <3>1
  <2>3. ASSUME NEW k \in 1 .. n, NEW l \in 1 .. n, t[Len(s) + k] = t[Len(s) + l]
        PROVE  k = l
    <3>1. k \in 1 .. Len(p) /\ l \in 1 .. Len(p)
      BY <1>2
    <3> QED  BY <1>o, <1>6, <2>3, <3>1
  <2> QED  BY <1>7, <2>1, <2>2, <2>3
<1>9. \A i \in 1 .. Len(r) : n + i \in 1 .. Len(p) /\ n + i \notin 1 .. n
  BY <1>2, <1>4
<1>10. noRepeat(r)
  <2> SUFFICES ASSUME NEW i \in 1 .. Len(r), NEW j \in 1 .. Len(r), r[i] = r[j]
               PROVE  i = j
    BY DEF noRepeat
  <2>1. n + i = n + j
    BY <1>4, <1>9, <1>o
  <2> QED  BY <1>2, <2>1
<1>11. apart(t, r)
  <2> SUFFICES ASSUME NEW i \in 1 .. Len(t), NEW j \in 1 .. Len(r) PROVE t[i] # r[j]
    BY DEF apart
  <2>1. CASE i \in 1 .. Len(s)
    BY <1>4, <1>6, <1>9, <1>o, <2>1
  <2>2. ASSUME NEW k \in 1 .. n PROVE t[Len(s) + k] # r[j]
    <3>1. k \in 1 .. Len(p) /\ k # n + j
      BY <1>2, <1>9
    <3> QED  BY <1>4, <1>6, <1>9, <1>o, <3>1
  <2> QED  BY <1>7, <2>1, <2>2
<1>12. among(t, S) /\ among(r, S)
  <2>1. \A i \in 1 .. n : p[i] \in S
    BY <1>2, <1>e
  <2>2. \A i \in 1 .. Len(t) : t[i] \in S
    BY <1>6, <1>7, <1>e, <2>1
  <2>3. \A i \in 1 .. Len(r) : r[i] \in S
    BY <1>4, <1>9, <1>e
  <2> QED  BY <2>2, <2>3 DEF among
<1> QED  BY <1>1, <1>4, <1>5, <1>6, <1>8, <1>10, <1>11, <1>12 DEF once

LEMMA GivenUpOnce ==
  ASSUME NEW s, NEW p, NEW S, once(s, p, S), p # <<>>
  PROVE  once(s, Tail(p), S)
<1>1. PICK r : r = Tail(p)
  OBVIOUS
<1>2. /\ r \in Seq(Entry) /\ Len(r) = Len(p) - 1 /\ Len(p) \in Nat
      /\ \A i \in 1 .. Len(r) : i + 1 \in 1 .. Len(p) /\ r[i] = p[i + 1]
  BY <1>1 DEF once
<1>3. noRepeat(r)
  BY <1>2 DEF noRepeat, once
<1>4. apart(s, r) /\ among(r, S)
  BY <1>2 DEF apart, among, once
<1> QED  BY <1>1, <1>2, <1>3, <1>4 DEF once

LEMMA NothingOnce == \A s, p, S : once(s, p, S) => once(s, <<>>, S)
BY DEF once, noRepeat, apart, among

OnceInv == once(stored, pending, offered)

LEMMA SinkStepOnce ==
  OnceInv /\ [Sink!Next]_(Sink!sinkVars) => OnceInv'
<1> SUFFICES ASSUME OnceInv, Sink!Next \/ UNCHANGED Sink!sinkVars PROVE OnceInv'
  OBVIOUS
<1>1. PICK s, p, S : s = stored /\ p = pending /\ S = offered
  OBVIOUS
<1>2. PICK t, q, T : t = stored' /\ q = pending' /\ T = offered'
  OBVIOUS
<1>3. once(s, p, S)
  BY <1>1 DEF OnceInv
<1>4. ASSUME NEW e \in Entry, Sink!Offer(e) PROVE once(t, q, T)
  <2>1. e \notin S /\ T = S \cup {e} /\ q \in {p, Append(p, e)} /\ t = s
    BY <1>1, <1>2, <1>4 DEF Sink!Offer
  <2>2. once(s, p, S \cup {e}) /\ once(s, Append(p, e), S \cup {e})
    BY <1>3, <2>1, OfferedOnce
  <2> QED  BY <2>1, <2>2
<1>5. ASSUME NEW n \in 1 .. Len(pending), Sink!Store(n) PROVE once(t, q, T)
  <2>1. /\ n \in 1 .. Len(p) /\ T = S
        /\ t = s \o SubSeq(p, 1, n) /\ q = SubSeq(p, n + 1, Len(p))
    BY <1>1, <1>2, <1>5 DEF Sink!Store
  <2> QED  BY <1>3, <2>1, StoredOnce
<1>6. ASSUME Sink!GiveUp PROVE once(t, q, T)
  <2>1. p # <<>> /\ q = Tail(p) /\ t = s /\ T = S
    BY <1>1, <1>2, <1>6, Zenon DEF Sink!GiveUp
  <2> QED  BY <1>3, <2>1, GivenUpOnce
<1>7. ASSUME Sink!Crash PROVE once(t, q, T)
  <2>1. q = <<>> /\ t = s /\ T = S
    BY <1>1, <1>2, <1>7 DEF Sink!Crash
  <2> QED  BY <1>3, <2>1, NothingOnce
<1>8. ASSUME UNCHANGED Sink!sinkVars PROVE once(t, q, T)
  BY <1>1, <1>2, <1>3, <1>8 DEF Sink!sinkVars
<1>9. once(t, q, T)
  BY <1>4, <1>5, <1>6, <1>7, <1>8, Zenon DEF Sink!Next
<1> QED  BY <1>2, <1>9 DEF OnceInv

\* No request is logged twice and no row is without one, whatever the
\* database answers, through fallback inserts, Stop and crashes, for every
\* queue and batch size.
THEOREM RowsAreOfferedOnce ==
  Spec => [](noRepeat(stored) /\ among(stored, offered))
<1>1. Init => OnceInv
  <2>1. Init => stored = <<>> /\ pending = <<>>
    BY InitSink DEF Sink!Init
  <2> QED  BY <2>1 DEF OnceInv, once, noRepeat, apart, among
<1>2. OnceInv => noRepeat(stored) /\ among(stored, offered)
  BY DEF OnceInv, once
<1>3. LogInv /\ [Next]_vars => [Sink!Next]_(Sink!sinkVars)
  BY StepSink
<1>4. Spec => []LogInv
  BY LogInvariant
<1> QED  BY <1>1, <1>2, <1>3, <1>4, SinkStepOnce, PTL DEF Spec
=============================================================================
