---------------------------- MODULE ModelConfigs ----------------------------
(***************************************************************************)
(* The backend configurations of one public model and the three places     *)
(* that know them: the model_configs table, the lookup cache with its TTL  *)
(* (handlers/cache.go, getModelConfigs in model_routing.go) and the limit  *)
(* in the runtime manager (BackendRuntime).  Administrative requests of    *)
(* handlers/model_mapping_handler.go change the table, drop the cache and  *)
(* tell the manager in separate steps, while inference requests look up,   *)
(* fill the cache and start.                                               *)
(*                                                                         *)
(* Abstracted: a row is its limit and whether it is enabled and usable;    *)
(* an inference request starts on one of the backends it found, Dispatch   *)
(* has the rest; time is an action that lets a cache item expire.          *)
(***************************************************************************)
EXTENDS BackendRuntime

CONSTANTS
  Admin,        \* administrative requests, each one HTTP call
  NoRow,        \* an id that was never used
  Deleted,      \* an id whose row was deleted; ids are not reused
  NoCache       \* no item for the model in modelConfigCache

Row == [max : Limit, enabled : BOOLEAN]

ASSUME ModelConfigsAssumption ==
  /\ Lease = Request
  /\ {NoRow, Deleted} \cap Row = {}
  /\ NoRow # Deleted

VARIABLES
  rows,           \* model_configs
  cache,          \* the cached lookup result of the model, or NoCache
  expired,        \* has the cache item passed its TTL?
  lookup,         \* where each inference request is
  found,          \* what its lookup returned: enabled config -> max_concurrency
  admin,          \* where each administrative request is
  target,         \* the config it is about
  loaded,         \* the row it holds in memory
  interrupted,    \* history: configs whose last edit answered 500 half way
  overlapped      \* history: did one of them begin before another's answer?

adminVars == <<admin, target, loaded, interrupted, overlapped>>
requestVars == <<lookup, found>>
cacheVars == <<cache, expired>>
vars == <<runtimeVars, rows, cacheVars, requestVars, adminVars>>

NothingFound == [c \in {} |-> 0]

exists(c) == rows[c] \notin {NoRow, Deleted}

\* The rows a lookup query returns.
enabledRows ==
  [c \in {d \in Config : exists(d) /\ rows[d].enabled} |-> rows[c].max]

\* The process starts with rows in the table and nothing in memory.
Init ==
  /\ RuntimeInit
  /\ rows \in [Config -> Row \cup {NoRow}]
  /\ cache = NoCache
  /\ expired = FALSE
  /\ lookup = [r \in Request |-> "new"]
  /\ found = [r \in Request |-> NothingFound]
  /\ admin = [a \in Admin |-> "new"]
  /\ target \in [Admin -> Config]
  /\ loaded = [a \in Admin |-> NoRow]
  /\ interrupted = {}
  /\ overlapped = FALSE
-----------------------------------------------------------------------------
(* Inference requests.                                                     *)

await(r, stage) == lookup' = [lookup EXCEPT ![r] = stage]

cacheValid == cache # NoCache /\ ~expired

lookupHit(r) ==
  /\ lookup[r] = "new"
  /\ cacheValid
  /\ found' = [found EXCEPT ![r] = cache]
  /\ await(r, "found")
  /\ UNCHANGED <<runtimeVars, rows, cacheVars, adminVars>>

\* A lookup that caches the absence of rows as well.
lookupMissEmpty(r) ==
  /\ lookup[r] = "new"
  /\ ~cacheValid
  /\ found' = [found EXCEPT ![r] = enabledRows]
  /\ await(r, "queried")
  /\ UNCHANGED <<runtimeVars, rows, cacheVars, adminVars>>

\* The query; without a usable row the answer is 404.
lookupMiss(r) ==
  /\ lookup[r] = "new"
  /\ ~cacheValid
  /\ found' = [found EXCEPT ![r] = enabledRows]
  /\ await(r, IF enabledRows = NothingFound THEN "done" ELSE "queried")
  /\ UNCHANGED <<runtimeVars, rows, cacheVars, adminVars>>

\* The result is cached, however long ago it was queried.
SetModelConfigs(r) ==
  /\ lookup[r] = "queried"
  /\ cache' = found[r]
  /\ expired' = FALSE
  /\ await(r, "found")
  /\ UNCHANGED <<runtimeVars, rows, found, adminVars>>

startFound(r) ==
  /\ lookup[r] = "found"
  /\ \E c \in DOMAIN found[r] : startRequest(r, c, found[r][c])
  /\ await(r, "serving")
  /\ UNCHANGED <<rows, cacheVars, found, adminVars>>

finishFound(r) ==
  /\ lookup[r] = "serving"
  /\ \E success, measured \in BOOLEAN : Finish(r, success, measured)
  /\ await(r, "done")
  /\ UNCHANGED <<rows, cacheVars, found, adminVars>>

\* An item that would live for ever.
passTTLNever == cacheValid /\ UNCHANGED vars

\* Five minutes pass since the item was set.
passTTL ==
  /\ cacheValid
  /\ expired' = TRUE
  /\ UNCHANGED <<runtimeVars, rows, cache, requestVars, adminVars>>

\* The cleanup goroutine removes expired items.
cleanup ==
  /\ cache # NoCache
  /\ expired
  /\ cache' = NoCache
  /\ expired' = FALSE
  /\ UNCHANGED <<runtimeVars, rows, requestVars, adminVars>>
-----------------------------------------------------------------------------
(* Administrative requests.                                                *)

InProgress == {a \in Admin : admin[a] \notin {"new", "done"}}

mayBegin(a) == admin[a] = "new"

step(a, stage) ==
  /\ admin' = [admin EXCEPT ![a] = stage]
  /\ overlapped' = (overlapped \/ (mayBegin(a) /\ InProgress # {}))

\* The edit stops with a 500 after the row was changed.
fail(a) ==
  /\ interrupted' = interrupted \cup {target[a]}
  /\ step(a, "done")
  /\ UNCHANGED <<runtimeVars, rows, cacheVars, requestVars, target, loaded>>

\* CreateModelConfig and CloneModelConfig: the row is inserted.
create(a) ==
  /\ mayBegin(a)
  /\ rows[target[a]] = NoRow
  /\ \E row \in Row :
       /\ rows' = [rows EXCEPT ![target[a]] = row]
       /\ loaded' = [loaded EXCEPT ![a] = row]
  /\ step(a, "reloaded")
  /\ UNCHANGED <<runtimeVars, cacheVars, requestVars, target, interrupted>>

\* ModifyModelConfig: the config is loaded first; only its existence matters.
modify(a) ==
  /\ mayBegin(a)
  /\ exists(target[a])
  /\ step(a, "modify")
  /\ UNCHANGED <<runtimeVars, rows, cacheVars, requestVars, target, loaded,
                 interrupted>>

\* Updates writes the request's values; it changes nothing, without an error,
\* when the row was deleted meanwhile.
update(a) ==
  /\ admin[a] = "modify"
  /\ \E row \in Row :
       rows' = IF exists(target[a]) THEN [rows EXCEPT ![target[a]] = row] ELSE rows
  /\ step(a, "updated")
  /\ UNCHANGED <<runtimeVars, cacheVars, requestVars, target, loaded,
                 interrupted>>

updateFails(a) ==
  /\ admin[a] = "modify"
  /\ step(a, "done")
  /\ UNCHANGED <<runtimeVars, rows, cacheVars, requestVars, target, loaded,
                 interrupted>>

\* The row is read back, and found deleted or not at all: the cache and the
\* manager are left as they were.
reloadFails(a) == admin[a] = "updated" /\ fail(a)

reload(a) ==
  /\ admin[a] = "updated"
  /\ exists(target[a])
  /\ loaded' = [loaded EXCEPT ![a] = rows[target[a]]]
  /\ step(a, "reloaded")
  /\ UNCHANGED <<runtimeVars, rows, cacheVars, requestVars, target, interrupted>>

delete(a) ==
  /\ mayBegin(a)
  /\ exists(target[a])
  /\ rows' = [rows EXCEPT ![target[a]] = Deleted]
  /\ step(a, "deleted")
  /\ UNCHANGED <<runtimeVars, cacheVars, requestVars, target, loaded, interrupted>>

InvalidateAllModelConfigCache ==
  /\ cache' = NoCache
  /\ expired' = FALSE

invalidate(a) ==
  /\ admin[a] \in {"reloaded", "deleted"}
  /\ InvalidateAllModelConfigCache
  /\ step(a, IF admin[a] = "deleted" THEN "done" ELSE "invalidated")
  /\ UNCHANGED <<runtimeVars, rows, requestVars, target, loaded, interrupted>>

\* A handler that leaves the manager as it was.
tellRuntimeForgotten(a) ==
  /\ admin[a] = "invalidated"
  /\ interrupted' = interrupted \ {target[a]}
  /\ step(a, "done")
  /\ UNCHANGED <<runtimeVars, rows, cacheVars, requestVars, target, loaded>>

tellRuntime(a) ==
  /\ admin[a] = "invalidated"
  /\ updateConfig(target[a], loaded[a].max)
  /\ interrupted' = interrupted \ {target[a]}
  /\ step(a, "done")
  /\ UNCHANGED <<rows, cacheVars, requestVars, target, loaded>>

\* ResetModelConfigRuntime reads the row and then resets with its limit.
reset(a) ==
  /\ mayBegin(a)
  /\ exists(target[a])
  /\ loaded' = [loaded EXCEPT ![a] = rows[target[a]]]
  /\ step(a, "reset")
  /\ UNCHANGED <<runtimeVars, rows, cacheVars, requestVars, target, interrupted>>

resetRuntime(a) ==
  /\ admin[a] = "reset"
  /\ IF target[a] \in states
     THEN resetConfigState(target[a], loaded[a].max)
     ELSE UNCHANGED runtimeVars
  /\ step(a, "done")
  /\ UNCHANGED <<rows, cacheVars, requestVars, target, loaded, interrupted>>
-----------------------------------------------------------------------------
request(r) ==
  lookupHit(r) \/ lookupMiss(r) \/ SetModelConfigs(r) \/ startFound(r)
  \/ finishFound(r)

editing(a) ==
  update(a) \/ updateFails(a) \/ reload(a) \/ reloadFails(a)
  \/ invalidate(a) \/ tellRuntime(a) \/ resetRuntime(a)

Next ==
  \/ \E r \in Request : request(r)
  \/ passTTL
  \/ cleanup
  \/ \E a \in Admin : create(a) \/ modify(a) \/ delete(a) \/ reset(a) \/ editing(a)

Spec == Init /\ [][Next]_vars

\* Handlers that have begun run on, and time passes.
FairSpec ==
  /\ Spec
  /\ \A r \in Request : WF_vars(SetModelConfigs(r))
  /\ \A a \in Admin : WF_vars(editing(a))
  /\ WF_vars(passTTL)
-----------------------------------------------------------------------------
(* Properties.                                                             *)

ModelConfigsTypeOK ==
  /\ rows \in [Config -> Row \cup {NoRow, Deleted}]
  /\ cache # NoCache => cache # NothingFound
  /\ lookup \in [Request -> {"new", "queried", "found", "serving", "done"}]
  /\ admin \in [Admin -> {"new", "modify", "updated", "reloaded", "invalidated",
                          "deleted", "reset", "done"}]
  /\ loaded \in [Admin -> Row \cup {NoRow}]
  /\ interrupted \subseteq Config
  /\ overlapped \in BOOLEAN

\* No edit of c is half way.
Settled(c) == c \notin interrupted /\ \A a \in InProgress : target[a] # c

\* While the operator awaits each answer before the next call, the limit a
\* request is admitted under is the saved one, although the row
\* it holds or finds in the cache may be from before the last edit: an entry
\* in the manager overrides it, and every edit of this process made one.
LimitInForceIsSaved ==
  \A c \in Config : ~overlapped /\ exists(c) /\ Settled(c) =>
    /\ \A r \in Request :
         lookup[r] \in {"queried", "found"} /\ c \in DOMAIN found[r] =>
           limitInForce(c, found[r][c]) = rows[c].max
    /\ cacheValid /\ c \in DOMAIN cache =>
         limitInForce(c, cache[c]) = rows[c].max

\* README.md:106: "max_concurrency=0 means no limit".  Once the edits of a
\* config are answered, saving 0 leaves no limit in force.
ZeroMeansNoLimit ==
  \A c \in states :
    InProgress = {} /\ interrupted = {} /\ exists(c) =>
      (rows[c].max = 0 => maxConcurrency[c] = 0)

\* A lookup result queried before an edit may be cached after it, but not for
\* good: once the administrative requests are over, every later lookup gets
\* the rows of the table (TTL, cache.go:28).
LookupsBecomeFresh == <>[](cacheValid => cache = enabledRows)
=============================================================================
