----------------------------- MODULE StatsCache -----------------------------
(***************************************************************************)
(* The statistics of handlers/stats_handler.go: three results, computed    *)
(* from the last hour's rows of request_logs and the figures of the        *)
(* runtime manager, cached under one common UpdatedAt.  A goroutine        *)
(* replaces all three for every tick of a five-minute ticker; a request    *)
(* that finds its own result missing or too old computes and stores that   *)
(* one; resetting the runtime manager drops them.  Queries run outside of  *)
(* the lock.                                                               *)
(*                                                                         *)
(* Abstracted: a result is only how it compares with what the queries      *)
(* would give now; the queries behind StatsResponse are one, and whether   *)
(* the others find any entry is left open.                                 *)
(***************************************************************************)
EXTENDS RequestLogs, Sequences, Functions

CONSTANTS
  Reader,       \* requests for statistics, each again and again
  Results       \* "stats", then the fields with entries, as refreshed

Result == Range(Results)

ASSUME StatsCacheAssumption ==
  /\ Results \in Seq(STRING)
  /\ "stats" \in Result /\ "no" \notin Result

\* Nothing at all, what the queries give, an older result, or one that should
\* be gone with the last reset of the runtime manager.
Age == {"none", "current", "outdated", "beforeReset"}

VARIABLES
  cached,       \* globalCachedStats, without its
  fresh,        \* is UpdatedAt less than statsCacheTTL ago?
  refresh,      \* the results the refresh goroutine has computed
  refreshing,   \* how many those are, or idle
  reading,      \* the result each reader has missed, or "no"
  read,         \* what it computed
  resetting     \* is a handler between the manager's reset and the cache's?

results == <<cached, refresh, read>>
statsVars == <<results, fresh, refreshing, reading, resetting>>
servicesVars == <<logVars, statsVars>>

idle == Len(Results) + 1

NoResults == [x \in Result |-> "none"]

StatsInit ==
  /\ cached = NoResults
  /\ fresh = FALSE
  /\ refresh = NoResults
  /\ refreshing = idle
  /\ reading = [r \in Reader |-> "no"]
  /\ read = [r \in Reader |-> "none"]
  /\ resetting = FALSE

\* What the queries count is another now; a reset leaves other figures than
\* all those before.
older(age, reset) ==
  IF age = "none" THEN "none"
  ELSE IF reset \/ age = "beforeReset" THEN "beforeReset"
  ELSE "outdated"

resultsAge(reset) ==
  /\ cached' = [x \in Result |-> older(cached[x], reset)]
  /\ refresh' = [x \in Result |-> older(refresh[x], reset)]
  /\ read' = [r \in Reader |-> older(read[r], reset)]

\* getProviderStatsFromDB and getModelStatsFromDB may find no entry.
computed(result) ==
  IF result = "stats" THEN {"current"} ELSE {"none", "current"}

\* A request starts or finishes, or an hour has passed since one.
figuresChange ==
  /\ serving
  /\ resultsAge(FALSE)
  /\ UNCHANGED <<logVars, fresh, refreshing, reading, resetting>>
-----------------------------------------------------------------------------
(* The goroutine of startStatsCacheRefresh.                                *)

\* A refresh that trusts UpdatedAt like the requests do.
refreshTickIfOld ==
  /\ serving
  /\ refreshing = idle
  /\ ~fresh
  /\ refreshing' = 0
  /\ UNCHANGED <<logVars, results, fresh, reading, resetting>>

refreshTick ==
  /\ serving
  /\ refreshing = idle
  /\ refreshing' = 0
  /\ UNCHANGED <<logVars, results, fresh, reading, resetting>>

refreshQuery ==
  /\ refreshing < Len(Results)
  /\ refreshing' = refreshing + 1
  /\ \E age \in computed(Results[refreshing']) :
       refresh' = [refresh EXCEPT ![Results[refreshing']] = age]
  /\ UNCHANGED <<logVars, cached, read, fresh, reading, resetting>>

refreshStore ==
  /\ refreshing = Len(Results)
  /\ cached' = refresh
  /\ fresh' = TRUE
  /\ refreshing' = idle
  /\ refresh' = NoResults
  /\ UNCHANGED <<logVars, read, reading, resetting>>

statsCacheTTL ==
  /\ fresh
  /\ fresh' = FALSE
  /\ UNCHANGED <<logVars, results, refreshing, reading, resetting>>
-----------------------------------------------------------------------------
(* GetStats, GetProviderStats and GetModelStats.  A hit changes nothing;   *)
(* GetStats alone takes whatever it finds, the others want some entry.     *)

hit(result) == fresh /\ (result = "stats" \/ cached[result] # "none")

miss(r, result) ==
  /\ serving
  /\ reading[r] = "no"
  /\ ~hit(result)
  /\ reading' = [reading EXCEPT ![r] = result]
  /\ \E age \in computed(result) : read' = [read EXCEPT ![r] = age]
  /\ UNCHANGED <<logVars, cached, refresh, fresh, refreshing, resetting>>

\* Its own result, and everyone's UpdatedAt.
store(r) ==
  /\ reading[r] # "no"
  /\ cached' = [cached EXCEPT ![reading[r]] = read[r]]
  /\ fresh' = TRUE
  /\ reading' = [reading EXCEPT ![r] = "no"]
  /\ read' = [read EXCEPT ![r] = "none"]
  /\ UNCHANGED <<logVars, refresh, refreshing, resetting>>
-----------------------------------------------------------------------------
(* ResetModelConfigRuntime and ResetAllModelConfigRuntime.                 *)

resetManager ==
  /\ serving
  /\ ~resetting
  /\ resultsAge(TRUE)
  /\ resetting' = TRUE
  /\ UNCHANGED <<logVars, fresh, refreshing, reading>>

\* A query that was under way may store older figures yet.
excused(age) == IF age = "beforeReset" THEN "outdated" ELSE age

resetDone ==
  /\ resetting
  /\ resetting' = FALSE
  /\ refresh' = [x \in Result |-> excused(refresh[x])]
  /\ read' = [r \in Reader |-> excused(read[r])]
  /\ UNCHANGED <<logVars, refreshing, reading>>

\* Only the time stamp is dropped.
InvalidateStatsCacheTimeOnly ==
  /\ fresh' = FALSE
  /\ UNCHANGED cached
  /\ resetDone

InvalidateStatsCache ==
  /\ cached' = NoResults
  /\ fresh' = FALSE
  /\ resetDone
-----------------------------------------------------------------------------
ServicesInit == LogsInit /\ StatsInit

\* A step of the table's, which the statistics notice when rows change.
logsStep(A) ==
  /\ A
  /\ IF table' = table THEN UNCHANGED results ELSE resultsAge(FALSE)
  /\ UNCHANGED <<fresh, refreshing, reading, resetting>>

ServicesNext ==
  \/ logsStep(LogsNext)
  \/ figuresChange
  \/ refreshTick
  \/ refreshQuery
  \/ refreshStore
  \/ statsCacheTTL
  \/ \E r \in Reader : store(r) \/ \E result \in Result : miss(r, result)
  \/ resetManager
  \/ InvalidateStatsCache

ServicesSpec == ServicesInit /\ [][ServicesNext]_servicesVars

\* Both tickers tick, their goroutines run on, and the database does not
\* refuse the cleanup for ever.
ServicesFairSpec ==
  /\ ServicesSpec
  /\ WF_servicesVars(logsStep(cleanup("initial")))
  /\ WF_servicesVars(logsStep(tick \/ cleanup("ticker")))
  /\ SF_servicesVars(logsStep(findThreshold("ticker")))
  /\ SF_servicesVars(logsStep(deleteOlder("ticker")))
  /\ WF_servicesVars(refreshTick \/ refreshQuery \/ refreshStore)
-----------------------------------------------------------------------------
(* Properties.                                                             *)

StatsCacheTypeOK ==
  /\ RequestLogsTypeOK
  /\ cached \in [Result -> Age]
  /\ refresh \in [Result -> Age]
  /\ fresh \in BOOLEAN
  /\ refreshing \in 0..idle
  /\ read \in [Reader -> Age]
  /\ \A r \in Reader : reading[r] = "no" => read[r] = "none"
  /\ resetting \in BOOLEAN

\* After a reset (stats_handler.go:66, from model_mapping_handler.go:536) no
\* request is told figures from before it, unless a query was under way that
\* had read them and stores its result later (stats_handler.go:132).
ResetForgotten ==
  ~resetting => \A x \in Result : hit(x) => cached[x] # "beforeReset"

\* GetProviderStats and GetModelStats move the time stamp without computing
\* Stats, so that GetStats answers zeroes, and they keep older results alive
\* (stats_handler.go:250).  But not for good: once rows and figures no longer
\* change, all cached answers are what the queries would give.
StatsCatchUp ==
  <>[][~figuresChange /\ ~resetManager]_servicesVars =>
    <>[](\A x \in Result : hit(x) => cached[x] = "current")
=============================================================================
