------------------------- MODULE ModelConfigsProofs -------------------------
(***************************************************************************)
(* The limit in force is the saved one, for any configs, requests and      *)
(* administrative calls that do not overlap.                               *)
(*                                                                         *)
(* LimitInForceIsSaved is not inductive: the row an administrative request *)
(* holds when it tells the manager, and the rows of lookups that have not  *)
(* started yet, decide what the limit will be.  CleanIsSaved speaks of all *)
(* of them: once a config has an entry in the manager, the entry agrees    *)
(* with the table, and what lookups found is of no account; as long as it  *)
(* has none, no edit of it came through, and every lookup result and cache *)
(* item that names it is still current.                                    *)
(***************************************************************************)
EXTENDS ModelConfigs, BackendRuntimeProofs

\* Lookup results and cache items map configs to limits; one on its way to
\* the cache is not empty.
isLookupResult(f) == DOMAIN f \subseteq Config /\ \A c \in DOMAIN f : f[c] \in Limit

ResultsShaped ==
  /\ DOMAIN found = Request
  /\ \A r \in Request :
       /\ isLookupResult(found[r])
       /\ lookup[r] = "queried" => found[r] # NothingFound
  /\ cache # NoCache => isLookupResult(cache)

EntriesShaped ==
  /\ DOMAIN maxConcurrency = Config
  /\ \A r \in Request : leaseConfig[r] # NoConfig => leaseConfig[r] \in states

\* A config that was never saved is known nowhere.
OnlySavedKnown ==
  \A c \in Config : rows[c] = NoRow =>
    /\ c \notin states
    /\ \A r \in Request : c \notin DOMAIN found[r]
    /\ cache # NoCache => c \notin DOMAIN cache
    /\ \A a \in InProgress : target[a] # c

\* A request that will tell the manager holds a row.
RowHeld ==
  \A a \in Admin : admin[a] \in {"reloaded", "invalidated", "reset"} => loaded[a] \in Row

\* Without overlap one administrative request is in progress at a time, and
\* the row it holds, or deleted, is in the table as it left it.
AdminsAlone == \A a, b \in InProgress : a = b

LoadedCurrent ==
  \A a \in Admin :
    /\ admin[a] \in {"reloaded", "invalidated", "reset"} => loaded[a] = rows[target[a]]
    /\ admin[a] = "deleted" => rows[target[a]] = Deleted

\* The row of c was changed and the manager may not know yet.
Dirty(c) ==
  \/ c \in interrupted
  \/ \E a \in Admin : /\ target[a] = c
                      /\ admin[a] \in {"updated", "reloaded", "invalidated", "deleted"}

Saved(c) ==
  IF c \in states
  THEN maxConcurrency[c] = rows[c].max
  ELSE /\ \A r \in Request : c \in DOMAIN found[r] => found[r][c] = rows[c].max
       /\ cache # NoCache /\ c \in DOMAIN cache => cache[c] = rows[c].max

CleanIsSaved == \A c \in Config : exists(c) /\ ~Dirty(c) => Saved(c)

ConfigsInv ==
  /\ ModelConfigsTypeOK
  /\ target \in [Admin -> Config]
  /\ ResultsShaped
  /\ EntriesShaped
  /\ OnlySavedKnown
  /\ RowHeld
  /\ ~overlapped => AdminsAlone /\ LoadedCurrent /\ CleanIsSaved
-----------------------------------------------------------------------------
(* What steps of requests leave alone, and what an edit changes.           *)

\* Steps that change neither a row nor an administrative request.
LEMMA AdminSame ==
  ASSUME UNCHANGED <<rows, adminVars>>
  PROVE  /\ AdminsAlone => AdminsAlone'
         /\ LoadedCurrent => LoadedCurrent'
         /\ RowHeld => RowHeld'
         /\ InProgress' = InProgress
         /\ \A c : Dirty(c)' <=> Dirty(c)
         /\ \A c : exists(c)' <=> exists(c)
BY DEF adminVars, AdminsAlone, LoadedCurrent, RowHeld, InProgress, Dirty, exists

\* The rows a query returns are a lookup result of the saved configs.
LEMMA QueryShaped ==
  ASSUME ModelConfigsTypeOK
  PROVE  /\ isLookupResult(enabledRows)
         /\ \A c \in DOMAIN enabledRows : enabledRows[c] = rows[c].max /\ rows[c] # NoRow
<1>1. ASSUME NEW c \in Config, exists(c) PROVE rows[c] \in Row
  BY <1>1 DEF exists, ModelConfigsTypeOK
<1> QED
  BY <1>1 DEF isLookupResult, enabledRows, exists, Row

\* The initial states satisfy the invariant.
LEMMA ConfigsInit == Init => ConfigsInv
<1> SUFFICES ASSUME Init PROVE ConfigsInv
  OBVIOUS
<1>1. ModelConfigsTypeOK /\ target \in [Admin -> Config]
  BY DEF Init, ModelConfigsTypeOK
<1>2. ResultsShaped
  BY DEF Init, ResultsShaped, isLookupResult, NothingFound
<1>3. EntriesShaped
  BY ModelConfigsAssumption DEF Init, RuntimeInit, EntriesShaped, ModelConfigsAssumption
<1>4. InProgress = {}
  BY DEF Init, InProgress
<1>5. OnlySavedKnown
  BY <1>4 DEF Init, RuntimeInit, OnlySavedKnown, NothingFound
<1>6. AdminsAlone /\ LoadedCurrent /\ RowHeld
  BY <1>4 DEF Init, AdminsAlone, LoadedCurrent, RowHeld
<1>7. CleanIsSaved
  BY DEF Init, RuntimeInit, CleanIsSaved, Saved, NothingFound
<1> QED
  BY <1>1, <1>2, <1>3, <1>5, <1>6, <1>7 DEF ConfigsInv
-----------------------------------------------------------------------------
(* Inference requests.                                                     *)

LEMMA HitKeeps ==
  ASSUME ConfigsInv, NEW r \in Request, lookupHit(r)
  PROVE  ConfigsInv'
<1>1. /\ found' = [found EXCEPT ![r] = cache]
      /\ lookup' = [lookup EXCEPT ![r] = "found"]
      /\ cache # NoCache
      /\ UNCHANGED <<runtimeVars, rows, cacheVars, adminVars>>
  BY DEF lookupHit, await, cacheValid
<1>2. ModelConfigsTypeOK' /\ (target \in [Admin -> Config])'
  BY <1>1 DEF ConfigsInv, ModelConfigsTypeOK, cacheVars, adminVars
<1>3. ResultsShaped'
  BY <1>1 DEF ConfigsInv, ModelConfigsTypeOK, ResultsShaped, cacheVars
<1>4. EntriesShaped'
  BY <1>1 DEF ConfigsInv, EntriesShaped, runtimeVars, leaseVars
<1>5. OnlySavedKnown'
  BY <1>1, AdminSame
     DEF ConfigsInv, ResultsShaped, OnlySavedKnown, runtimeVars, cacheVars, adminVars
<1>6. CleanIsSaved => CleanIsSaved'
  BY <1>1, AdminSame
     DEF ConfigsInv, ResultsShaped, CleanIsSaved, Saved, runtimeVars, cacheVars
<1> QED
  BY <1>1, <1>2, <1>3, <1>4, <1>5, <1>6, AdminSame DEF ConfigsInv, adminVars

LEMMA MissKeepsConfigs ==
  ASSUME ConfigsInv, NEW r \in Request, lookupMiss(r)
  PROVE  ConfigsInv'
<1>1. /\ found' = [found EXCEPT ![r] = enabledRows]
      /\ lookup' = [lookup EXCEPT ![r] =
                      IF enabledRows = NothingFound THEN "done" ELSE "queried"]
      /\ UNCHANGED <<runtimeVars, rows, cacheVars, adminVars>>
  BY DEF lookupMiss, await
<1>2. ModelConfigsTypeOK' /\ (target \in [Admin -> Config])'
  BY <1>1 DEF ConfigsInv, ModelConfigsTypeOK, cacheVars, adminVars
<1>3. ResultsShaped'
  <2>1. isLookupResult(enabledRows)
    BY QueryShaped DEF ConfigsInv
  <2> QED
    BY <1>1, <2>1 DEF ConfigsInv, ModelConfigsTypeOK, ResultsShaped, cacheVars
<1>4. EntriesShaped'
  BY <1>1 DEF ConfigsInv, EntriesShaped, runtimeVars, leaseVars
<1>5. OnlySavedKnown'
  BY <1>1, AdminSame, QueryShaped
     DEF ConfigsInv, ResultsShaped, OnlySavedKnown, runtimeVars, cacheVars, adminVars
<1>6. CleanIsSaved => CleanIsSaved'
  BY <1>1, AdminSame, QueryShaped
     DEF ConfigsInv, ResultsShaped, CleanIsSaved, Saved, runtimeVars, cacheVars
<1> QED
  BY <1>1, <1>2, <1>3, <1>4, <1>5, <1>6, AdminSame DEF ConfigsInv, adminVars

LEMMA FillKeeps ==
  ASSUME ConfigsInv, NEW r \in Request, SetModelConfigs(r)
  PROVE  ConfigsInv'
<1>1. /\ cache' = found[r]
      /\ expired' = FALSE
      /\ lookup' = [lookup EXCEPT ![r] = "found"]
      /\ found[r] # NothingFound
      /\ UNCHANGED <<runtimeVars, rows, found, adminVars>>
  BY DEF SetModelConfigs, await, ConfigsInv, ResultsShaped
<1>2. ModelConfigsTypeOK' /\ (target \in [Admin -> Config])'
  BY <1>1 DEF ConfigsInv, ModelConfigsTypeOK, adminVars, NothingFound
<1>3. ResultsShaped'
  BY <1>1 DEF ConfigsInv, ModelConfigsTypeOK, ResultsShaped
<1>4. EntriesShaped'
  BY <1>1 DEF ConfigsInv, EntriesShaped, runtimeVars, leaseVars
<1>5. OnlySavedKnown'
  BY <1>1, AdminSame DEF ConfigsInv, OnlySavedKnown, runtimeVars, adminVars
<1>6. CleanIsSaved => CleanIsSaved'
  BY <1>1, AdminSame DEF ConfigsInv, CleanIsSaved, Saved, runtimeVars
<1> QED
  BY <1>1, <1>2, <1>3, <1>4, <1>5, <1>6, AdminSame DEF ConfigsInv, adminVars

LEMMA StartFoundKeeps ==
  ASSUME ConfigsInv, NEW r \in Request, startFound(r)
  PROVE  ConfigsInv'
<1>1. PICK c \in DOMAIN found[r] : startRequest(r, c, found[r][c])
  BY DEF startFound
<1>2. /\ states' = states \cup {c}
      /\ maxConcurrency' =
           [maxConcurrency EXCEPT ![c] = limitInForce(c, found[r][c])]
      /\ leaseConfig' = [leaseConfig EXCEPT ![r] = c]
  BY <1>1 DEF startRequest, Register
<1>3. /\ c \in Config
      /\ lookup' = [lookup EXCEPT ![r] = "serving"]
      /\ UNCHANGED <<rows, cacheVars, found, adminVars>>
  BY DEF startFound, await, ConfigsInv, ResultsShaped, isLookupResult
<1>4. ModelConfigsTypeOK' /\ (target \in [Admin -> Config])'
  BY <1>3 DEF ConfigsInv, ModelConfigsTypeOK, cacheVars, adminVars
<1>5. ResultsShaped'
  BY <1>3 DEF ConfigsInv, ModelConfigsTypeOK, ResultsShaped, cacheVars
<1>6. EntriesShaped'
  BY <1>2, <1>3 DEF ConfigsInv, EntriesShaped
<1>7. OnlySavedKnown'
  BY <1>2, <1>3, AdminSame DEF ConfigsInv, OnlySavedKnown, cacheVars, adminVars
<1>8. CleanIsSaved => CleanIsSaved'
  <2> SUFFICES ASSUME CleanIsSaved, NEW d \in Config, exists(d), ~Dirty(d)
               PROVE  Saved(d)'
    BY <1>3, AdminSame DEF CleanIsSaved
  <2>1. Saved(d)
    BY DEF CleanIsSaved
  <2>2. CASE d = c
    BY <1>2, <1>3, <2>1, <2>2
       DEF Saved, limitInForce, ConfigsInv, EntriesShaped
  <2>3. CASE d # c
    BY <1>2, <1>3, <2>1, <2>3 DEF Saved, ConfigsInv, EntriesShaped, cacheVars
  <2> QED
    BY <2>2, <2>3
<1> QED
  BY <1>3, <1>4, <1>5, <1>6, <1>7, <1>8, AdminSame DEF ConfigsInv, adminVars

LEMMA FinishFoundKeeps ==
  ASSUME ConfigsInv, NEW r \in Request, finishFound(r)
  PROVE  ConfigsInv'
<1>1. /\ leaseConfig[r] # NoConfig
      /\ states' = states \cup {leaseConfig[r]}
      /\ UNCHANGED <<maxConcurrency, leaseConfig>>
  BY DEF finishFound, Finish, finishRequest, Register
<1>2. states' = states
  BY <1>1 DEF ConfigsInv, EntriesShaped
<1>3. /\ lookup' = [lookup EXCEPT ![r] = "done"]
      /\ UNCHANGED <<rows, cacheVars, found, adminVars>>
  BY DEF finishFound, await
<1>4. ModelConfigsTypeOK' /\ (target \in [Admin -> Config])'
  BY <1>3 DEF ConfigsInv, ModelConfigsTypeOK, cacheVars, adminVars
<1>5. ResultsShaped'
  BY <1>3 DEF ConfigsInv, ModelConfigsTypeOK, ResultsShaped, cacheVars
<1>6. EntriesShaped'
  BY <1>1, <1>2 DEF ConfigsInv, EntriesShaped
<1>7. OnlySavedKnown'
  BY <1>2, <1>3, AdminSame DEF ConfigsInv, OnlySavedKnown, cacheVars, adminVars
<1>8. CleanIsSaved => CleanIsSaved'
  BY <1>1, <1>2, <1>3, AdminSame DEF CleanIsSaved, Saved, cacheVars
<1> QED
  BY <1>3, <1>4, <1>5, <1>6, <1>7, <1>8, AdminSame DEF ConfigsInv, adminVars

\* An item grows old, or is removed.
LEMMA CacheAgeKeeps ==
  ASSUME ConfigsInv, passTTL \/ cleanup
  PROVE  ConfigsInv'
<1>1. /\ cache' = cache \/ cache' = NoCache
      /\ UNCHANGED <<runtimeVars, rows, requestVars, adminVars>>
  BY DEF passTTL, cleanup
<1>2. ModelConfigsTypeOK' /\ (target \in [Admin -> Config])'
  BY <1>1 DEF ConfigsInv, ModelConfigsTypeOK, requestVars, adminVars, NothingFound
<1>3. ResultsShaped'
  BY <1>1 DEF ConfigsInv, ResultsShaped, requestVars
<1>4. EntriesShaped'
  BY <1>1 DEF ConfigsInv, EntriesShaped, runtimeVars, leaseVars
<1>5. OnlySavedKnown'
  BY <1>1, AdminSame
     DEF ConfigsInv, OnlySavedKnown, runtimeVars, requestVars, adminVars
<1>6. CleanIsSaved => CleanIsSaved'
  BY <1>1, AdminSame DEF CleanIsSaved, Saved, runtimeVars, requestVars
<1> QED
  BY <1>1, <1>2, <1>3, <1>4, <1>5, <1>6, AdminSame DEF ConfigsInv, adminVars
-----------------------------------------------------------------------------
(* Administrative requests.                                                *)

Stages == {"new", "modify", "updated", "reloaded", "invalidated", "deleted", "reset",
           "done"}

\* While no two requests overlap, a step is made by the only one in progress.
LEMMA StepAlone ==
  ASSUME ConfigsInv, NEW a \in Admin, NEW stage \in Stages, admin[a] # "done",
         step(a, stage), ~overlapped'
  PROVE  /\ ~overlapped
         /\ AdminsAlone'
         /\ \A b \in Admin \ {a} : admin[b] \in {"new", "done"} /\ admin'[b] = admin[b]
<1>1. ~overlapped /\ ~(mayBegin(a) /\ InProgress # {})
  BY DEF step, ConfigsInv, ModelConfigsTypeOK
<1>2. ASSUME NEW b \in Admin \ {a}
      PROVE  admin[b] \in {"new", "done"} /\ admin'[b] = admin[b]
  <2>1. b \notin InProgress
    <3>1. CASE mayBegin(a)
      BY <1>1, <3>1
    <3>2. CASE ~mayBegin(a)
      BY <1>1, <3>2 DEF ConfigsInv, AdminsAlone, InProgress, mayBegin
    <3> QED
      BY <3>1, <3>2
  <2> QED
    BY <2>1 DEF InProgress, step, ConfigsInv, ModelConfigsTypeOK
<1>3. AdminsAlone'
  BY <1>2 DEF AdminsAlone, InProgress
<1> QED
  BY <1>1, <1>2, <1>3

\* The changes an administrative step may make: to its own config only; to
\* the cache nothing but dropping it.
ownChanges(a) ==
  /\ UNCHANGED <<requestVars, target, leaseConfig>>
  /\ cache' \in {cache, NoCache}
  /\ rows' \in [Config -> Row \cup {NoRow, Deleted}]
  /\ loaded' \in [Admin -> Row \cup {NoRow}]
  /\ interrupted' \subseteq Config
  /\ states \subseteq states'
  /\ DOMAIN maxConcurrency' = Config
  /\ rows'[target[a]] # NoRow
  /\ \A b \in Admin \ {a} : loaded'[b] = loaded[b]
  /\ admin'[a] \in {"reloaded", "invalidated", "reset"} => loaded'[a] \in Row
  /\ \A c \in Config \ {target[a]} :
       /\ rows'[c] = rows[c]
       /\ c \in states' <=> c \in states
       /\ maxConcurrency'[c] = maxConcurrency[c]
       /\ c \in interrupted' <=> c \in interrupted

\* It remains to show of each step that its own row and config come out right.
ownRowRight(a) ==
  /\ admin'[a] \in {"reloaded", "invalidated", "reset"} => loaded'[a] = rows'[target[a]]
  /\ admin'[a] = "deleted" => rows'[target[a]] = Deleted
  /\ exists(target[a])' /\ ~Dirty(target[a])' => Saved(target[a])'

LEMMA StepKeeps ==
  ASSUME ConfigsInv, NEW a \in Admin, NEW stage \in Stages, admin[a] # "done",
         step(a, stage), ownChanges(a),
         ~overlapped' => ownRowRight(a)
  PROVE  ConfigsInv'
<1>1. admin' = [admin EXCEPT ![a] = stage] /\ overlapped' \in BOOLEAN
  BY DEF step, ConfigsInv, ModelConfigsTypeOK
<1>2. ModelConfigsTypeOK' /\ (target \in [Admin -> Config])'
  <2>1. (cache # NoCache => cache # NothingFound)'
    BY DEF ownChanges, ConfigsInv, ModelConfigsTypeOK, NothingFound
  <2> QED
    BY <1>1, <2>1 DEF ownChanges, ConfigsInv, ModelConfigsTypeOK, requestVars, Stages
<1>3. ResultsShaped'
  BY DEF ownChanges, ConfigsInv, ResultsShaped, requestVars
<1>4. EntriesShaped'
  BY DEF ownChanges, ConfigsInv, EntriesShaped
<1>5. OnlySavedKnown'
  <2> SUFFICES ASSUME NEW c \in Config, rows'[c] = NoRow
               PROVE  /\ c \notin states'
                      /\ \A r \in Request : c \notin DOMAIN found'[r]
                      /\ cache' # NoCache => c \notin DOMAIN cache'
                      /\ \A b \in InProgress' : target'[b] # c
    BY DEF OnlySavedKnown
  <2>1. c # target[a] /\ rows[c] = NoRow
    BY DEF ownChanges
  <2>2. InProgress' \subseteq InProgress \cup {a}
    BY <1>1 DEF InProgress, ConfigsInv, ModelConfigsTypeOK
  <2> QED
    BY <2>1, <2>2 DEF ownChanges, requestVars, ConfigsInv, OnlySavedKnown
<1>6. RowHeld'
  BY <1>1 DEF ownChanges, ConfigsInv, ModelConfigsTypeOK, RowHeld
<1>7. ASSUME ~overlapped' PROVE (AdminsAlone /\ LoadedCurrent /\ CleanIsSaved)'
  <2>1. /\ ~overlapped
        /\ AdminsAlone'
        /\ \A b \in Admin \ {a} : admin[b] \in {"new", "done"} /\ admin'[b] = admin[b]
    BY <1>7, StepAlone
  <2>2. LoadedCurrent'
    BY <1>7, <2>1 DEF LoadedCurrent, ownRowRight, ownChanges
  <2>3. CleanIsSaved'
    <3> SUFFICES ASSUME NEW c \in Config, exists(c)', ~Dirty(c)' PROVE Saved(c)'
      BY DEF CleanIsSaved
    <3>1. CASE c = target[a]
      BY <1>7, <3>1 DEF ownRowRight, ownChanges, exists, Dirty, Saved
    <3>2. CASE c # target[a]
      <4>1. exists(c)
        BY <3>2 DEF ownChanges, exists
      <4>2. ~Dirty(c)
        BY <2>1, <3>2 DEF ownChanges, Dirty
      <4>3. Saved(c)
        BY <2>1, <4>1, <4>2 DEF ConfigsInv, CleanIsSaved
      <4> QED
        BY <3>2, <4>3 DEF ownChanges, requestVars, Saved
    <3> QED
      BY <3>1, <3>2
  <2> QED
    BY <2>1, <2>2, <2>3
<1> QED
  BY <1>2, <1>3, <1>4, <1>5, <1>7, <1>6 DEF ConfigsInv

\* A request in progress is about a config that was saved.
LEMMA TargetSaved ==
  ASSUME ConfigsInv, NEW a \in Admin, admin[a] \notin {"new", "done"}
  PROVE  rows[target[a]] # NoRow
BY DEF ConfigsInv, OnlySavedKnown, InProgress

LEMMA CreateKeeps ==
  ASSUME ConfigsInv, NEW a \in Admin, create(a)
  PROVE  ConfigsInv'
<1>1. PICK row \in Row : /\ rows' = [rows EXCEPT ![target[a]] = row]
                         /\ loaded' = [loaded EXCEPT ![a] = row]
  BY DEF create
<1>2. /\ step(a, "reloaded")
      /\ admin' = [admin EXCEPT ![a] = "reloaded"]
      /\ admin[a] = "new"
      /\ UNCHANGED <<runtimeVars, cacheVars, requestVars, target, interrupted>>
  BY DEF create, step, mayBegin
<1>3. ownChanges(a)
  BY <1>1, <1>2, ModelConfigsAssumption
     DEF ownChanges, ConfigsInv, ModelConfigsTypeOK, RowHeld,
         EntriesShaped,
         ModelConfigsAssumption, runtimeVars, leaseVars, cacheVars
<1>4. ownRowRight(a)
  BY <1>1, <1>2 DEF ownRowRight, Dirty, ConfigsInv, ModelConfigsTypeOK
<1> QED
  BY <1>2, <1>3, <1>4, StepKeeps DEF Stages

LEMMA ModifyKeeps ==
  ASSUME ConfigsInv, NEW a \in Admin, modify(a) \/ updateFails(a)
  PROVE  ConfigsInv'
<1>1. PICK stage \in {"modify", "done"} : step(a, stage)
  BY DEF modify, updateFails
<1>2. /\ admin' = [admin EXCEPT ![a] = stage]
      /\ admin[a] \in {"new", "modify"}
      /\ UNCHANGED <<runtimeVars, rows, cacheVars, requestVars, target, loaded,
                     interrupted>>
  BY <1>1 DEF modify, updateFails, step, mayBegin
<1>3. rows[target[a]] # NoRow
  BY TargetSaved DEF modify, updateFails, exists
<1>4. ownChanges(a)
  BY <1>2, <1>3
     DEF ownChanges, ConfigsInv, ModelConfigsTypeOK, RowHeld,
         EntriesShaped, runtimeVars,
         leaseVars, cacheVars
<1>5. ASSUME ~overlapped' PROVE ownRowRight(a)
  <2>1. ~overlapped
    BY <1>1, <1>5 DEF step, ConfigsInv, ModelConfigsTypeOK
  <2>2. Dirty(target[a])' <=> Dirty(target[a])
    BY <1>2 DEF Dirty, ConfigsInv, ModelConfigsTypeOK
  <2>3. exists(target[a])' /\ ~Dirty(target[a])' => Saved(target[a])'
    BY <1>2, <2>1, <2>2
       DEF ConfigsInv, CleanIsSaved, Saved, exists, runtimeVars, cacheVars, requestVars
  <2> QED
    BY <1>2, <2>3 DEF ownRowRight, ConfigsInv, ModelConfigsTypeOK
<1> QED
  BY <1>1, <1>2, <1>4, <1>5, StepKeeps DEF Stages

LEMMA UpdateKeeps ==
  ASSUME ConfigsInv, NEW a \in Admin, update(a)
  PROVE  ConfigsInv'
<1>1. PICK row \in Row :
        rows' = IF exists(target[a]) THEN [rows EXCEPT ![target[a]] = row] ELSE rows
  BY DEF update
<1>2. /\ step(a, "updated")
      /\ admin' = [admin EXCEPT ![a] = "updated"]
      /\ admin[a] = "modify"
      /\ UNCHANGED <<runtimeVars, cacheVars, requestVars, target, loaded, interrupted>>
  BY DEF update, step
<1>3. rows[target[a]] # NoRow
  BY <1>2, TargetSaved
<1>4. ownChanges(a)
  BY <1>1, <1>2, <1>3, ModelConfigsAssumption
     DEF ownChanges, ConfigsInv, ModelConfigsTypeOK, RowHeld,
         EntriesShaped,
         ModelConfigsAssumption, runtimeVars, leaseVars, cacheVars
<1>5. ownRowRight(a)
  BY <1>2 DEF ownRowRight, Dirty, ConfigsInv, ModelConfigsTypeOK
<1> QED
  BY <1>2, <1>4, <1>5, StepKeeps DEF Stages

LEMMA ReloadKeeps ==
  ASSUME ConfigsInv, NEW a \in Admin, reload(a)
  PROVE  ConfigsInv'
<1>1. /\ step(a, "reloaded")
      /\ admin' = [admin EXCEPT ![a] = "reloaded"]
      /\ admin[a] = "updated"
      /\ exists(target[a])
      /\ loaded' = [loaded EXCEPT ![a] = rows[target[a]]]
      /\ UNCHANGED <<runtimeVars, rows, cacheVars, requestVars, target, interrupted>>
  BY DEF reload, step
<1>2. ownChanges(a)
  BY <1>1
     DEF ownChanges, exists, ConfigsInv, ModelConfigsTypeOK, RowHeld,
         EntriesShaped, runtimeVars,
         leaseVars, cacheVars
<1>3. ownRowRight(a)
  BY <1>1 DEF ownRowRight, Dirty, ConfigsInv, ModelConfigsTypeOK
<1> QED
  BY <1>1, <1>2, <1>3, StepKeeps DEF Stages

LEMMA ReloadFailsKeeps ==
  ASSUME ConfigsInv, NEW a \in Admin, reloadFails(a)
  PROVE  ConfigsInv'
<1>1. /\ step(a, "done")
      /\ admin' = [admin EXCEPT ![a] = "done"]
      /\ admin[a] = "updated"
      /\ interrupted' = interrupted \cup {target[a]}
      /\ UNCHANGED <<runtimeVars, rows, cacheVars, requestVars, target, loaded>>
  BY DEF reloadFails, fail, step
<1>2. rows[target[a]] # NoRow
  BY <1>1, TargetSaved
<1>3. ownChanges(a)
  BY <1>1, <1>2
     DEF ownChanges, ConfigsInv, ModelConfigsTypeOK, RowHeld,
         EntriesShaped, runtimeVars,
         leaseVars, cacheVars
<1>4. ownRowRight(a)
  BY <1>1 DEF ownRowRight, Dirty, ConfigsInv, ModelConfigsTypeOK
<1> QED
  BY <1>1, <1>3, <1>4, StepKeeps DEF Stages

LEMMA DeleteKeeps ==
  ASSUME ConfigsInv, NEW a \in Admin, delete(a)
  PROVE  ConfigsInv'
<1>1. /\ step(a, "deleted")
      /\ admin' = [admin EXCEPT ![a] = "deleted"]
      /\ admin[a] = "new"
      /\ rows' = [rows EXCEPT ![target[a]] = Deleted]
      /\ UNCHANGED <<runtimeVars, cacheVars, requestVars, target, loaded, interrupted>>
  BY DEF delete, step, mayBegin
<1>2. ownChanges(a)
  BY <1>1, ModelConfigsAssumption
     DEF ownChanges, ConfigsInv, ModelConfigsTypeOK, RowHeld,
         EntriesShaped,
         ModelConfigsAssumption, runtimeVars, leaseVars, cacheVars
<1>3. ownRowRight(a)
  BY <1>1 DEF ownRowRight, exists, ConfigsInv, ModelConfigsTypeOK
<1> QED
  BY <1>1, <1>2, <1>3, StepKeeps DEF Stages

LEMMA InvalidateKeeps ==
  ASSUME ConfigsInv, NEW a \in Admin, invalidate(a)
  PROVE  ConfigsInv'
<1>1. PICK stage \in {"done", "invalidated"} :
        /\ step(a, stage)
        /\ stage = IF admin[a] = "deleted" THEN "done" ELSE "invalidated"
  BY DEF invalidate
<1>2. /\ admin' = [admin EXCEPT ![a] = stage]
      /\ admin[a] \in {"reloaded", "deleted"}
      /\ cache' = NoCache
      /\ UNCHANGED <<runtimeVars, rows, requestVars, target, loaded, interrupted>>
  BY <1>1 DEF invalidate, InvalidateAllModelConfigCache, step
<1>3. rows[target[a]] # NoRow
  BY <1>2, TargetSaved
<1>4. ownChanges(a)
  BY <1>1, <1>2, <1>3
     DEF ownChanges, ConfigsInv, ModelConfigsTypeOK, RowHeld,
         EntriesShaped, runtimeVars, leaseVars
<1>5. ASSUME ~overlapped' PROVE ownRowRight(a)
  <2>1. LoadedCurrent
    BY <1>1, <1>5 DEF step, ConfigsInv, ModelConfigsTypeOK
  <2>2. CASE admin[a] = "deleted"
    BY <1>1, <1>2, <2>1, <2>2
       DEF ownRowRight, LoadedCurrent, exists, ConfigsInv, ModelConfigsTypeOK
  <2>3. CASE admin[a] = "reloaded"
    BY <1>1, <1>2, <2>1, <2>3
       DEF ownRowRight, LoadedCurrent, Dirty, ConfigsInv, ModelConfigsTypeOK
  <2> QED
    BY <1>2, <2>2, <2>3
<1> QED
  BY <1>1, <1>2, <1>4, <1>5, StepKeeps DEF Stages

LEMMA TellKeeps ==
  ASSUME ConfigsInv, NEW a \in Admin, tellRuntime(a)
  PROVE  ConfigsInv'
<1>1. /\ step(a, "done")
      /\ admin' = [admin EXCEPT ![a] = "done"]
      /\ admin[a] = "invalidated"
      /\ states' = states \cup {target[a]}
      /\ maxConcurrency' = [maxConcurrency EXCEPT ![target[a]] = loaded[a].max]
      /\ interrupted' = interrupted \ {target[a]}
      /\ UNCHANGED <<leaseConfig, rows, cacheVars, requestVars, target, loaded>>
  BY DEF tellRuntime, updateConfig, Register, step, leaseVars
<1>2. rows[target[a]] # NoRow
  BY <1>1, TargetSaved
<1>3. ownChanges(a)
  BY <1>1, <1>2
     DEF ownChanges, ConfigsInv, ModelConfigsTypeOK, RowHeld,
         EntriesShaped, cacheVars
<1>4. ASSUME ~overlapped' PROVE ownRowRight(a)
  <2>1. LoadedCurrent
    BY <1>1, <1>4 DEF step, ConfigsInv, ModelConfigsTypeOK
  <2>2. maxConcurrency'[target[a]] = rows'[target[a]].max
    BY <1>1, <2>1 DEF LoadedCurrent, ConfigsInv, EntriesShaped
  <2> QED
    BY <1>1, <2>2 DEF ownRowRight, Saved, ConfigsInv, ModelConfigsTypeOK
<1> QED
  BY <1>1, <1>3, <1>4, StepKeeps DEF Stages

LEMMA ResetKeeps ==
  ASSUME ConfigsInv, NEW a \in Admin, reset(a)
  PROVE  ConfigsInv'
<1>1. /\ step(a, "reset")
      /\ admin' = [admin EXCEPT ![a] = "reset"]
      /\ admin[a] = "new"
      /\ exists(target[a])
      /\ loaded' = [loaded EXCEPT ![a] = rows[target[a]]]
      /\ UNCHANGED <<runtimeVars, rows, cacheVars, requestVars, target, interrupted>>
  BY DEF reset, step, mayBegin
<1>2. ownChanges(a)
  BY <1>1
     DEF ownChanges, exists, ConfigsInv, ModelConfigsTypeOK, RowHeld,
         EntriesShaped, runtimeVars,
         leaseVars, cacheVars
<1>3. ASSUME ~overlapped' PROVE ownRowRight(a)
  <2>1. ~overlapped
    BY <1>1, <1>3 DEF step, ConfigsInv, ModelConfigsTypeOK
  <2>2. Dirty(target[a])' <=> Dirty(target[a])
    BY <1>1 DEF Dirty, ConfigsInv, ModelConfigsTypeOK
  <2>3. exists(target[a])' /\ ~Dirty(target[a])' => Saved(target[a])'
    BY <1>1, <2>1, <2>2
       DEF ConfigsInv, CleanIsSaved, Saved, exists, runtimeVars, cacheVars, requestVars
  <2> QED
    BY <1>1, <2>3 DEF ownRowRight, ConfigsInv, ModelConfigsTypeOK
<1> QED
  BY <1>1, <1>2, <1>3, StepKeeps DEF Stages

LEMMA ResetRuntimeKeeps ==
  ASSUME ConfigsInv, NEW a \in Admin, resetRuntime(a)
  PROVE  ConfigsInv'
<1>1. /\ step(a, "done")
      /\ admin' = [admin EXCEPT ![a] = "done"]
      /\ admin[a] = "reset"
      /\ UNCHANGED <<states, leaseConfig, rows, cacheVars, requestVars, target, loaded,
                     interrupted>>
      /\ maxConcurrency' = IF target[a] \in states
                           THEN [maxConcurrency EXCEPT ![target[a]] = loaded[a].max]
                           ELSE maxConcurrency
  BY DEF resetRuntime, resetConfigState, step, runtimeVars, leaseVars
<1>2. rows[target[a]] # NoRow
  BY <1>1, TargetSaved
<1>3. ownChanges(a)
  BY <1>1, <1>2
     DEF ownChanges, ConfigsInv, ModelConfigsTypeOK, RowHeld,
         EntriesShaped, cacheVars
<1>4. ASSUME ~overlapped' PROVE ownRowRight(a)
  <2>1. ~overlapped /\ LoadedCurrent
    BY <1>1, <1>4 DEF step, ConfigsInv, ModelConfigsTypeOK
  <2>2. Dirty(target[a])' <=> Dirty(target[a])
    BY <1>1 DEF Dirty, ConfigsInv, ModelConfigsTypeOK
  <2>3. CASE target[a] \in states
    <3>1. maxConcurrency'[target[a]] = rows'[target[a]].max
      BY <1>1, <2>1, <2>3 DEF LoadedCurrent, ConfigsInv, EntriesShaped
    <3> QED
      BY <1>1, <2>3, <3>1 DEF ownRowRight, Saved, ConfigsInv, ModelConfigsTypeOK
  <2>4. CASE target[a] \notin states
    <3>1. exists(target[a])' /\ ~Dirty(target[a])' => Saved(target[a])'
      BY <1>1, <2>1, <2>2, <2>4
         DEF ConfigsInv, CleanIsSaved, Saved, exists, cacheVars, requestVars
    <3> QED
      BY <1>1, <3>1 DEF ownRowRight, ConfigsInv, ModelConfigsTypeOK
  <2> QED
    BY <2>3, <2>4
<1> QED
  BY <1>1, <1>3, <1>4, StepKeeps DEF Stages
-----------------------------------------------------------------------------
(* The theorems.                                                           *)

LEMMA ConfigsStutter == ConfigsInv /\ UNCHANGED vars => ConfigsInv'
<1> SUFFICES ASSUME ConfigsInv, UNCHANGED vars PROVE ConfigsInv'
  OBVIOUS
<1>1. UNCHANGED <<runtimeVars, rows, cacheVars, requestVars, adminVars>>
  BY DEF vars
<1>2. ModelConfigsTypeOK' /\ (target \in [Admin -> Config])'
  BY <1>1 DEF ConfigsInv, ModelConfigsTypeOK, cacheVars, requestVars, adminVars
<1>3. ResultsShaped' /\ EntriesShaped'
  BY <1>1
     DEF ConfigsInv, ResultsShaped, EntriesShaped, cacheVars, requestVars, runtimeVars,
         leaseVars
<1>4. OnlySavedKnown'
  BY <1>1, AdminSame
     DEF ConfigsInv, OnlySavedKnown, runtimeVars, cacheVars, requestVars, adminVars
<1>5. CleanIsSaved => CleanIsSaved'
  BY <1>1, AdminSame DEF CleanIsSaved, Saved, runtimeVars, cacheVars, requestVars
<1> QED
  BY <1>1, <1>2, <1>3, <1>4, <1>5, AdminSame DEF ConfigsInv, adminVars

LEMMA ConfigsNext == ConfigsInv /\ [Next]_vars => ConfigsInv'
<1> SUFFICES ASSUME ConfigsInv, [Next]_vars PROVE ConfigsInv'
  OBVIOUS
<1>1. ASSUME NEW r \in Request, request(r) PROVE ConfigsInv'
  BY <1>1, HitKeeps, MissKeepsConfigs, FillKeeps, StartFoundKeeps, FinishFoundKeeps
     DEF request
<1>2. ASSUME NEW a \in Admin, editing(a) PROVE ConfigsInv'
  BY <1>2, UpdateKeeps, ModifyKeeps, ReloadKeeps, ReloadFailsKeeps, InvalidateKeeps,
     TellKeeps, ResetRuntimeKeeps
     DEF editing
<1>3. ASSUME NEW a \in Admin, create(a) \/ modify(a) \/ delete(a) \/ reset(a)
      PROVE  ConfigsInv'
  BY <1>3, CreateKeeps, ModifyKeeps, DeleteKeeps, ResetKeeps
<1> QED
  BY <1>1, <1>2, <1>3, CacheAgeKeeps, ConfigsStutter DEF Next

LEMMA ConfigsInvariant == Spec => []ConfigsInv
<1> QED
  BY ConfigsInit, ConfigsNext, PTL DEF Spec

\* Types of the table, the cache and the requests; no empty result is cached
\* (getModelConfigs, cache.go).
THEOREM ConfigsTypeCorrect == Spec => []ModelConfigsTypeOK
<1>1. ConfigsInv => ModelConfigsTypeOK
  BY DEF ConfigsInv
<1> QED
  BY <1>1, ConfigsInvariant, PTL

\* A clean config comes out right of the manager or of the lookup.
LEMMA InvImpliesLimit == ConfigsInv => LimitInForceIsSaved
<1> SUFFICES ASSUME ConfigsInv, NEW c \in Config, ~overlapped, exists(c), Settled(c)
             PROVE  /\ \A r \in Request : c \in DOMAIN found[r] =>
                         limitInForce(c, found[r][c]) = rows[c].max
                    /\ cacheValid /\ c \in DOMAIN cache =>
                         limitInForce(c, cache[c]) = rows[c].max
  BY DEF LimitInForceIsSaved
<1>1. ~Dirty(c)
  BY DEF Settled, Dirty, InProgress
<1>2. Saved(c)
  BY <1>1 DEF ConfigsInv, CleanIsSaved
<1> QED
  BY <1>2 DEF Saved, limitInForce, cacheValid

\* While administrative calls do not overlap, every request is admitted under
\* the limit that was saved, whatever row it found and when (startRequest,
\* ModifyModelConfig).
THEOREM SavedLimitInForce == Spec => []LimitInForceIsSaved
BY ConfigsInvariant, InvImpliesLimit, PTL

\* The handlers use the manager as BackendRuntime allows its callers to.
LEMMA ConfigsStepIsRuntimeStep ==
  ConfigsInv /\ [Next]_vars => [RuntimeNext]_runtimeVars
<1> SUFFICES ASSUME ConfigsInv, [Next]_vars PROVE [RuntimeNext]_runtimeVars
  OBVIOUS
<1>1. ASSUME NEW r \in Request, startFound(r) PROVE RuntimeNext
  <2>1. PICK c \in DOMAIN found[r] : startRequest(r, c, found[r][c])
    BY <1>1 DEF startFound
  <2>2. c \in Config /\ found[r][c] \in Limit
    BY DEF ConfigsInv, ResultsShaped, isLookupResult
  <2> QED
    BY <2>1, <2>2, ModelConfigsAssumption DEF RuntimeNext, ModelConfigsAssumption
<1>2. ASSUME NEW r \in Request, finishFound(r) PROVE RuntimeNext
  BY <1>2, ModelConfigsAssumption DEF finishFound, RuntimeNext, ModelConfigsAssumption
<1>3. ASSUME NEW a \in Admin, tellRuntime(a) \/ resetRuntime(a)
      PROVE  [RuntimeNext]_runtimeVars
  <2>1. target[a] \in Config
    BY DEF ConfigsInv
  <2>2. loaded[a].max \in Limit
    BY <1>3 DEF tellRuntime, resetRuntime, ConfigsInv, RowHeld, Row
  <2> QED
    BY <1>3, <2>1, <2>2 DEF tellRuntime, resetRuntime, RuntimeNext
<1>4. ASSUME UNCHANGED runtimeVars PROVE [RuntimeNext]_runtimeVars
  BY <1>4
<1>5. CASE UNCHANGED vars
  BY <1>5 DEF vars
<1>6. CASE Next
  BY <1>1, <1>2, <1>3, <1>4, <1>6
     DEF Next, request, editing, lookupHit, lookupMiss, SetModelConfigs, passTTL,
         cleanup, create, modify, update, updateFails, reload, reloadFails, fail,
         delete, invalidate, reset
<1> QED
  BY <1>5, <1>6

\* So what is proved of the manager under any callers holds under these: the
\* active count of a backend is the number of requests it is serving.
THEOREM ConfigsCountActive == Spec => []ActiveMatchesLeases
<1>1. Init => RuntimeInit
  BY DEF Init
<1>2. Spec => RuntimeSpec
  BY <1>1, ConfigsInvariant, ConfigsStepIsRuntimeStep, PTL DEF Spec, RuntimeSpec
<1> QED
  BY <1>2, ActiveCountCorrect, PTL
=============================================================================
