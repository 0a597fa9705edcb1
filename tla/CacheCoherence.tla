--------------------------- MODULE CacheCoherence ---------------------------
(***************************************************************************)
(* The Redis read cache of the Go backend against PostgreSQL: dashboard    *)
(* and history requests that fill it, recalculations that invalidate it,   *)
(* and the ML service that writes behind both. Every calculation of the    *)
(* LSI is a version; a row is the version it was last written from.        *)
(***************************************************************************)
EXTENDS Naturals

CONSTANTS
  Reader,      \* dashboard and history requests
  Run,         \* recalculation orchestrations
  MaxVersion,  \* bound on the calculations
  None         \* no cache entry

ASSUME CacheAssumption == MaxVersion \in Nat /\ None \notin Nat /\ Reader \cap Run = {}

\* "series" stands for the history and module-signal keys, read from PostgreSQL alike.
Key == {"latest", "dashboard", "series"}
Version == 0..MaxVersion   \* 0: no row
View == [lsi : Version, contributions : Version, flags : Version]
Blank == [lsi |-> 0, contributions |-> 0, flags |-> 0]

VARIABLES
  computed,   \* calculations so far
  lsi,        \* version of the latest lsi_values row
  details,    \* version of its contributions, SHAP values and active flags
  cache,      \* the entry of each key
  pc,         \* the next call of each reader and run
  view,       \* what a reader has read so far
  got,        \* the result the ML service answered to a run
  snap,       \* the local latestLSI of a run
  persisted,  \* history: versions the ML service committed to PostgreSQL
  behind,     \* history: readers and runs that may hold data from before a change
  excused     \* history: keys whose entry may be out of date

database == <<computed, lsi, details, persisted>>
vars == <<database, cache, pc, view, got, snap, behind, excused>>

Busy == {x \in Reader \cup Run : pc[x] # "idle"}
Place == {"idle", "cacheLatest", "dbLatest", "mlCurrent", "setLatest", "contributions",
          "flags", "setDashboard", "dbSeries", "setSeries",
          "call", "save", "getLatest", "delLatest", "delDashboard", "delSeries", "runSetLatest"}

TypeOK ==
  /\ computed \in Version /\ lsi \in Version /\ details \in Version
  /\ DOMAIN cache = Key
  /\ \A k \in Key : cache[k] # None => cache[k] \in IF k = "dashboard" THEN View ELSE Version
  /\ pc \in [Reader \cup Run -> Place]
  /\ view \in [Reader -> View]
  /\ got \in [Run -> Version] /\ snap \in [Run -> Version]
  /\ persisted \in SUBSET Version
  /\ behind \in SUBSET (Reader \cup Run)
  /\ excused \in SUBSET Key

Goto(x, place) == pc' = [pc EXCEPT ![x] = place]
Done(r) == Goto(r, "idle") /\ view' = [view EXCEPT ![r] = Blank] /\ behind' = behind \ {r}

\* SET k: applied or not, an error is only logged.
Fill(x, k, entry) ==
  \/ /\ cache' = [cache EXCEPT ![k] = entry]
     /\ excused' = IF x \in behind THEN excused \cup {k} ELSE excused
  \/ UNCHANGED <<cache, excused>>

\* The database changed while others were at work.
Changed(x) == behind' = behind \cup (Busy \ {x}) /\ excused' = Key

\* Slip: Calculate that commits the LSI row and its details separately.
CalculateInTwo ==
  /\ computed < MaxVersion
  /\ computed' = computed + 1
  /\ lsi' = computed' /\ persisted' = persisted \cup {computed'}
  /\ UNCHANGED details

\* One calculation. Its persist transaction commits all rows, or fails with a warning.
Calculate ==
  /\ computed < MaxVersion
  /\ computed' = computed + 1
  /\ \/ lsi' = computed' /\ details' = computed' /\ persisted' = persisted \cup {computed'}
     \/ UNCHANGED <<lsi, details, persisted>>

(***************************************************************************)
(* Slips: each the operator named, with one plausible mistake.             *)
(***************************************************************************)
\* DelDashboard with a pattern that matches no key.
WrongPattern(a) ==
  /\ pc[a] = "delDashboard"
  /\ excused' = excused \ {"dashboard"}
  /\ Goto(a, "delSeries")
  /\ UNCHANGED <<database, cache, view, got, snap, behind>>

\* Expire that spares lsi:latest: a key without TTL.
KeepLatest(k) ==
  /\ k # "latest" /\ cache[k] # None
  /\ cache' = [cache EXCEPT ![k] = None]
  /\ UNCHANGED <<database, pc, view, got, snap, behind, excused>>

\* CachedLatest that takes a miss for a hit.
MissAsHit(r) ==
  /\ pc[r] = "cacheLatest"
  /\ view' = [view EXCEPT ![r].lsi = cache["latest"]]
  /\ Goto(r, "contributions")
  /\ UNCHANGED <<database, cache, got, snap, behind, excused>>

Init ==
  /\ computed = 0 /\ lsi = 0 /\ details = 0 /\ persisted = {}
  /\ cache = [k \in Key |-> None]
  /\ pc = [x \in Reader \cup Run |-> "idle"]
  /\ view = [r \in Reader |-> Blank]
  /\ got = [a \in Run |-> 0] /\ snap = [a \in Run |-> 0]
  /\ behind = {} /\ excused = {}

(***************************************************************************)
(* GET /api/dashboard/current: a hit changes nothing.                      *)
(***************************************************************************)
StartDashboard(r) ==
  /\ pc[r] = "idle" /\ Goto(r, "cacheLatest")
  /\ UNCHANGED <<database, cache, view, got, snap, behind, excused>>

CachedLatest(r) ==
  /\ pc[r] = "cacheLatest"
  /\ \/ /\ cache["latest"] # None
        /\ view' = [view EXCEPT ![r].lsi = cache["latest"]]
        /\ behind' = IF "latest" \in excused THEN behind \cup {r} ELSE behind
        /\ Goto(r, "contributions")
     \/ Goto(r, "dbLatest") /\ UNCHANGED <<view, behind>>
  /\ UNCHANGED <<database, cache, got, snap, excused>>

StoredLatest(r) ==
  /\ pc[r] = "dbLatest"
  /\ view' = [view EXCEPT ![r].lsi = lsi]
  /\ Goto(r, IF lsi = 0 THEN "mlCurrent" ELSE "setLatest")
  /\ UNCHANGED <<database, cache, got, snap, behind, excused>>

\* The row was missing: GetCurrentLSI answers with the same reads in the same order, each
\* its own snapshot, or, if it finds no row or fails, with a calculation of its own,
\* outside every lock.
CurrentFromML(r) ==
  /\ pc[r] = "mlCurrent"
  /\ \/ /\ Calculate
        /\ view' = [view EXCEPT ![r] =
             [lsi |-> computed', contributions |-> computed', flags |-> computed']]
        /\ IF lsi' = lsi THEN behind' = behind \cup {r} /\ UNCHANGED excused ELSE Changed(r)
        /\ Goto(r, "setDashboard")
     \/ /\ lsi # 0
        /\ view' = [view EXCEPT ![r].lsi = lsi]
        /\ Goto(r, "contributions")
        /\ UNCHANGED <<database, behind, excused>>
  /\ UNCHANGED <<cache, got, snap>>

SetLatest(r) ==
  /\ pc[r] = "setLatest"
  /\ Fill(r, "latest", view[r].lsi)
  /\ Goto(r, "contributions")
  /\ UNCHANGED <<database, view, got, snap, behind>>

\* GetContributionsByLSI and GetShapValuesByLSI.
ReadContributions(r) ==
  /\ pc[r] = "contributions"
  /\ view' = [view EXCEPT ![r].contributions = details]
  /\ Goto(r, "flags")
  /\ UNCHANGED <<database, cache, got, snap, behind, excused>>

ReadFlags(r) ==
  /\ pc[r] = "flags"
  /\ view' = [view EXCEPT ![r].flags = details]
  /\ Goto(r, "setDashboard")
  /\ UNCHANGED <<database, cache, got, snap, behind, excused>>

SetDashboard(r) ==
  /\ pc[r] = "setDashboard"
  /\ Fill(r, "dashboard", view[r])
  /\ Done(r)
  /\ UNCHANGED <<database, got, snap>>

(***************************************************************************)
(* GET /api/lsi/history and /api/modules/:id/signals.                      *)
(***************************************************************************)
StartSeries(r) ==
  /\ pc[r] = "idle" /\ Goto(r, "dbSeries")
  /\ UNCHANGED <<database, cache, view, got, snap, behind, excused>>

ReadSeries(r) ==
  /\ pc[r] = "dbSeries"
  /\ view' = [view EXCEPT ![r].lsi = lsi]
  /\ Goto(r, "setSeries")
  /\ UNCHANGED <<database, cache, got, snap, behind, excused>>

SetSeries(r) ==
  /\ pc[r] = "setSeries"
  /\ Fill(r, "series", view[r].lsi)
  /\ Done(r)
  /\ UNCHANGED <<database, got, snap>>

\* A query fails or the request's context ends.
Abort(r) ==
  /\ pc[r] # "idle" /\ Done(r)
  /\ UNCHANGED <<database, cache, got, snap, excused>>

(***************************************************************************)
(* LSIService.Recalculate, as far as the cache sees it.                    *)
(***************************************************************************)
StartRun(a) ==
  /\ pc[a] = "idle" /\ Goto(a, "call")
  /\ UNCHANGED <<database, cache, view, got, snap, behind, excused>>

MLAnswers(a) ==
  /\ pc[a] = "call"
  /\ Calculate
  /\ got' = [got EXCEPT ![a] = computed']
  /\ IF lsi' = lsi THEN UNCHANGED <<behind, excused>> ELSE Changed(a)
  /\ Goto(a, "save")
  /\ UNCHANGED <<cache, view, snap>>

\* SaveLSIValue upserts the row alone: the details stay as the ML service left them.
Save(a) ==
  /\ pc[a] = "save"
  /\ lsi' = got[a]
  /\ Changed(a)
  /\ Goto(a, "getLatest")
  /\ UNCHANGED <<computed, details, persisted, cache, view, got, snap>>

GetLatest(a) ==
  /\ pc[a] = "getLatest"
  /\ snap' = [snap EXCEPT ![a] = lsi]
  /\ behind' = behind \ {a}
  /\ Goto(a, "delLatest")
  /\ UNCHANGED <<database, cache, view, got, excused>>

\* One Invalidate call. An error, applied or not, skips the calls that follow.
Delete(a, k, next) ==
  /\ \/ /\ cache' = [cache EXCEPT ![k] = None]
        /\ excused' = excused \ {k}
     \/ UNCHANGED <<cache, excused>> /\ next = "runSetLatest"
  /\ Goto(a, next)
  /\ UNCHANGED <<database, view, got, snap, behind>>

DelLatest(a) ==
  /\ pc[a] = "delLatest"
  /\ \E next \in {"delDashboard", "runSetLatest"} : Delete(a, "latest", next)

DelDashboard(a) ==
  /\ pc[a] = "delDashboard"
  /\ \E next \in {"delSeries", "runSetLatest"} : Delete(a, "dashboard", next)

DelSeries(a) ==
  /\ pc[a] = "delSeries"
  /\ Delete(a, "series", "runSetLatest")

RunSetLatest(a) ==
  /\ pc[a] = "runSetLatest"
  /\ Fill(a, "latest", snap[a])
  /\ Goto(a, "idle")
  /\ behind' = behind \ {a}
  /\ UNCHANGED <<database, view, got, snap>>

\* The call, the upsert or the SELECT fails: nothing is invalidated.
RunFails(a) ==
  /\ pc[a] \in {"call", "save", "getLatest"}
  /\ Goto(a, "idle")
  /\ behind' = behind \ {a}
  /\ UNCHANGED <<database, cache, view, got, snap, excused>>

(***************************************************************************)
(* The environment.                                                        *)
(***************************************************************************)
\* A calculation nobody waits for: the history backfill a handler commits first, a handler
\* that outlived its call, a forecast request whose GetCurrentLSI fell back to one.
MLAlone ==
  /\ Calculate /\ lsi' # lsi
  /\ behind' = behind \cup Busy /\ excused' = Key
  /\ UNCHANGED <<cache, pc, view, got, snap>>

\* The TTL of k passes, or Redis evicts it.
Expire(k) ==
  /\ cache[k] # None
  /\ cache' = [cache EXCEPT ![k] = None]
  /\ UNCHANGED <<database, pc, view, got, snap, behind, excused>>

----------------------------------------------------------------------------
Advance(r) ==
  \/ CachedLatest(r) \/ StoredLatest(r) \/ CurrentFromML(r) \/ SetLatest(r)
  \/ ReadContributions(r) \/ ReadFlags(r) \/ SetDashboard(r)
  \/ ReadSeries(r) \/ SetSeries(r) \/ Abort(r)

Orchestrate(a) ==
  \/ MLAnswers(a) \/ Save(a) \/ GetLatest(a) \/ DelLatest(a) \/ DelDashboard(a)
  \/ DelSeries(a) \/ RunSetLatest(a) \/ RunFails(a)

Next ==
  \/ \E r \in Reader : StartDashboard(r) \/ StartSeries(r) \/ Advance(r)
  \/ \E a \in Run : StartRun(a) \/ Orchestrate(a)
  \/ MLAlone
  \/ \E k \in Key : Expire(k)

Spec == Init /\ [][Next]_vars

\* Requests and runs have timeouts and go on; every key has a TTL.
Fairness ==
  /\ \A r \in Reader : WF_vars(Advance(r))
  /\ \A a \in Run : WF_vars(Orchestrate(a))
  /\ \A k \in Key : WF_vars(Expire(k))
FairSpec == Spec /\ Fairness

----------------------------------------------------------------------------
Current(k) ==
  IF k = "dashboard" THEN [lsi |-> lsi, contributions |-> details, flags |-> details] ELSE lsi

\* Once an invalidation has deleted a key, its entry is what PostgreSQL holds until the
\* database changes: only a request that was already at work at the last change, or that
\* took its LSI from an outdated latest entry, puts older data back (lsi_service.go:278
\* against dashboard_service.go:48 and 106).
FreshAfterInvalidation ==
  \A k \in Key \ excused : cache[k] \in {None, Current(k)}

\* A dashboard never shows contributions or flags of an earlier calculation than its LSI,
\* though it reads them in separate statements and its LSI may come from the cache;
\* unless the ML service failed to persist that calculation.
DetailsNotOlder ==
  LET InOrder(v) == v.lsi \in persisted => v.lsi <= v.contributions /\ v.contributions <= v.flags
  IN /\ cache["dashboard"] # None => InOrder(cache["dashboard"])
     /\ \A r \in Reader : pc[r] = "setDashboard" => InOrder(view[r])

\* Whatever is filled late or not invalidated, the cache ends up agreeing with the
\* database: every stale entry goes with its TTL and is not copied from key to key for ever.
EventuallyFresh == <>[](\A k \in Key : cache[k] \in {None, Current(k)})
=============================================================================
