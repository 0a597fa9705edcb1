--------------------------- MODULE Recalculation ---------------------------
(***************************************************************************)
(* The recalculation orchestration of the Go backend: LSIService.Recalculate*)
(* of several backend processes, the Redis recalculation lock they share,  *)
(* the recalculation_jobs rows and the cached job statuses they write, and *)
(* the gRPC handler of the ML service that outlives the call that began it.*)
(*                                                                         *)
(* Every call to Redis or PostgreSQL ends in one of three ways: it is      *)
(* applied and answered, applied but its answer is lost, or not applied.   *)
(* A call made with the request's own context is not even sent once that   *)
(* context is done; one made with jobStatusContext does not notice.        *)
(***************************************************************************)
EXTENDS Naturals, FiniteSets

CONSTANTS
  Backend,       \* backend processes (replicas)
  RedisBackend,  \* those started with REDIS_ENABLED=true
  Request,       \* recalculation requests; also the lock token each would draw
  Scheduled,     \* those made by the cron job; the others are POST /api/recalculate
  Date,          \* calculation dates
  DateOf,        \* the calculation date of a request
  MaxCrashes,    \* bound on the crashes of backend processes
  None           \* no backend, no token, no date

ASSUME RecalculationAssumption ==
  /\ RedisBackend \subseteq Backend
  /\ Scheduled \subseteq Request
  /\ Date \subseteq Nat
  /\ DateOf \in [Request -> Date]
  /\ MaxCrashes \in Nat
  /\ None \notin Backend \cup Request \cup Date

VARIABLES
  pc,        \* the next call each request makes
  at,        \* the process that serves it
  result,    \* what its caller was told
  ctxDone,   \* requests whose context is cancelled or past its deadline
  running,   \* processes whose LSIService.running flag is set
  lock,      \* the token stored under the Redis lock key
  job,       \* status of the recalculation_jobs row of a request
  link,      \* its result_lsi_value_id, as the date of that lsi_values row
  jobCache,  \* the status cached in Redis under the job's key
  rows,      \* dates that have a row in lsi_values
  latest,    \* the local latestLSI of a request
  ml,        \* the ML service's handler for a request
  crashes,   \* crashes so far
  overrun,   \* history: requests that lost the key and are still inside
  excused,   \* history: requests that PostgreSQL failed or whose context ended
  late,      \* history: requests whose first jobCtx ended before the row was running
  undated    \* history: requests whose answer held no result, or none with a date

lockVars == <<running, lock, overrun>>
jobVars  == <<job, link, jobCache>>
dataVars == <<rows, latest, ml>>
openVars == <<late, undated>>
vars == <<pc, at, result, ctxDone, lockVars, jobVars, dataVars, crashes, excused, openVars>>

(***************************************************************************)
(* Types and places in the code.                                           *)
(***************************************************************************)
\* The calls between a granted lock and its deferred release.
Inside == {"create", "cachePending", "markRunning", "cacheRunning", "call", "wait",
           "save", "latest", "markSuccess", "cacheSuccess", "markFailed", "release"}
\* The places where the process's running flag is set.
Flagged == Inside \cup {"setnx", "unlock"}
Place   == Flagged \cup {"new", "end"}
Result  == {"none", "ok", "busy", "failed", "panic", "lost"}
JobStatus == {"none", "pending", "running", "success", "failed"}
MLState == {"none", "working", "ok", "error"}

TypeOK ==
  /\ pc \in [Request -> Place]
  /\ at \in [Request -> Backend \cup {None}]
  /\ result \in [Request -> Result]
  /\ ctxDone \in SUBSET Request
  /\ running \in SUBSET Backend
  /\ lock \in Request \cup {None}
  /\ job \in [Request -> JobStatus]
  /\ link \in [Request -> Date \cup {None}]
  /\ jobCache \in [Request -> JobStatus]
  /\ rows \in SUBSET Date
  /\ latest \in [Request -> Date \cup {None}]
  /\ ml \in [Request -> MLState]
  /\ crashes \in Nat
  /\ overrun \in SUBSET Request
  /\ excused \in SUBSET Request
  /\ late \in SUBSET Request
  /\ undated \in SUBSET Request

\* Requests that hold (or should hold) the Redis lock: their process uses Redis.
Leased(r) == pc[r] \in Inside /\ at[r] \in RedisBackend
Users == {r \in Request : Leased(r)}

(***************************************************************************)
(* How a remote call ends, and how a request goes on.                      *)
(***************************************************************************)
Outcome == {"ok", "lost", "failed"}
Applied(o) == o # "failed"

\* A call that carries the request's own context.
CtxOutcome(r) == IF r \in ctxDone THEN {"failed"} ELSE Outcome

\* The UPDATEs to 'running' and, after its error, to 'failed' carry the jobCtx that
\* CreateJob began: once that is over, neither is sent.
JobOutcome(r) == IF r \in late THEN {"failed"} ELSE Outcome

Goto(r, place) == pc' = [pc EXCEPT ![r] = place]
Answer(r, answer) == result' = [result EXCEPT ![r] = answer]

\* A PostgreSQL call of r that was not answered with success.
NoteFault(r, o) == excused' = IF o = "ok" THEN excused ELSE excused \cup {r}

SetJob(r, o, status) ==
  job' = IF Applied(o) THEN [job EXCEPT ![r] = status] ELSE job

(***************************************************************************)
(* Slips. Each is the action named in its comment with one plausible       *)
(* mistake; no behaviour uses them. PROJECT.json pairs each with the       *)
(* property that refuses it.                                               *)
(***************************************************************************)
\* LockGranted with SET instead of SET NX.
SetWithoutNX(r) ==
  /\ pc[r] = "setnx" /\ at[r] \in RedisBackend /\ r \notin ctxDone
  /\ lock' = r
  /\ Goto(r, "create")
  /\ UNCHANGED <<at, result, ctxDone, running, overrun, jobVars, dataVars,
                 crashes, excused, openVars>>

\* LockHeld whose caller goes on without the lock.
IgnoreLockHeld(r) ==
  /\ pc[r] = "setnx" /\ at[r] \in RedisBackend /\ r \notin ctxDone /\ lock # None
  /\ Goto(r, "create")
  /\ UNCHANGED <<at, result, ctxDone, lockVars, jobVars, dataVars, crashes, excused, openVars>>

\* LockError that forgets releaseLocal.
ErrorKeepsFlag(r) ==
  /\ pc[r] = "setnx" /\ at[r] \in RedisBackend
  /\ Answer(r, "failed")
  /\ Goto(r, "end")
  /\ UNCHANGED <<at, ctxDone, lockVars, jobVars, dataVars, crashes, excused, openVars>>

\* ReleaseLock with a plain DEL.
DeleteAnyLock(r) ==
  /\ pc[r] = "release"
  /\ lock' = IF at[r] \in RedisBackend THEN None ELSE lock
  /\ overrun' = overrun \ {r}
  /\ Goto(r, "unlock")
  /\ UNCHANGED <<at, result, ctxDone, running, jobVars, dataVars, crashes, excused, openVars>>

\* LockExpires of a key set without LockTTL.
NoTTL == FALSE /\ UNCHANGED vars

\* MarkJobFailure with a status the table's CHECK does not know.
MarkError(r) ==
  /\ pc[r] = "markFailed"
  /\ \E o \in Outcome : SetJob(r, o, "error") /\ NoteFault(r, o)
  /\ Answer(r, "failed")
  /\ Goto(r, "release")
  /\ UNCHANGED <<at, ctxDone, lockVars, link, jobCache, dataVars, crashes, openVars>>

\* MarkJobRunning whose error is only logged.
RunningErrorIgnored(r) ==
  /\ pc[r] = "markRunning"
  /\ \E o \in Outcome : SetJob(r, o, "running") /\ NoteFault(r, o)
  /\ Goto(r, "cacheRunning")
  /\ UNCHANGED <<at, result, ctxDone, lockVars, link, jobCache, dataVars, crashes, openVars>>

\* CallFails that returns without MarkJobFailure.
CallErrorUnmarked(r) ==
  /\ pc[r] \in {"call", "wait"}
  /\ ml' = IF ml[r] = "working" THEN ml ELSE [ml EXCEPT ![r] = "none"]
  /\ Answer(r, "failed")
  /\ Goto(r, "release")
  /\ UNCHANGED <<at, ctxDone, lockVars, jobVars, rows, latest, crashes, excused, openVars>>

\* GetLatestLSI without DESC.
OldestRow(r) ==
  /\ pc[r] = "latest" /\ r \notin ctxDone
  /\ \E d \in rows :
       /\ \A e \in rows : d <= e
       /\ latest' = [latest EXCEPT ![r] = d]
  /\ Goto(r, "markSuccess")
  /\ UNCHANGED <<at, result, ctxDone, lockVars, jobVars, rows, ml, crashes, excused, openVars>>

\* MarkJobSuccess whose error marks the job failed.
FailAfterSuccess(r) ==
  /\ pc[r] = "markSuccess"
  /\ \E o \in Outcome :
       /\ SetJob(r, o, "success")
       /\ link' = IF Applied(o) THEN [link EXCEPT ![r] = latest[r]] ELSE link
       /\ NoteFault(r, o)
       /\ Goto(r, IF o = "ok" THEN "cacheSuccess" ELSE "markFailed")
  /\ Answer(r, "ok")
  /\ UNCHANGED <<at, ctxDone, lockVars, jobCache, dataVars, crashes, openVars>>

Init ==
  /\ pc = [r \in Request |-> "new"]
  /\ at = [r \in Request |-> None]
  /\ result = [r \in Request |-> "none"]
  /\ ctxDone = {}
  /\ running = {}
  /\ lock = None
  /\ job = [r \in Request |-> "none"]
  /\ link = [r \in Request |-> None]
  /\ jobCache = [r \in Request |-> "none"]
  /\ rows = {}
  /\ latest = [r \in Request |-> None]
  /\ ml = [r \in Request |-> "none"]
  /\ crashes = 0
  /\ overrun = {}
  /\ excused = {}
  /\ late = {}
  /\ undated = {}

(***************************************************************************)
(* Acquiring the two locks.                                                *)
(***************************************************************************)
\* running.CompareAndSwap(false, true) succeeds.
Enter(r, b) ==
  /\ pc[r] = "new"
  /\ b \notin running
  /\ running' = running \cup {b}
  /\ at' = [at EXCEPT ![r] = b]
  /\ Goto(r, "setnx")
  /\ UNCHANGED <<result, ctxDone, lock, overrun, jobVars, dataVars, crashes, excused, openVars>>

\* The flag is already set: ErrRecalculationInProgress (409, or a skipped cron run).
Reject(r, b) ==
  /\ pc[r] = "new"
  /\ b \in running
  /\ Answer(r, "busy")
  /\ Goto(r, "end")
  /\ UNCHANGED <<at, ctxDone, lockVars, jobVars, dataVars, crashes, excused, openVars>>

\* AcquireRecalculationLock of a process without Redis returns no token and no error.
SkipLock(r) ==
  /\ pc[r] = "setnx"
  /\ at[r] \notin RedisBackend
  /\ Goto(r, "create")
  /\ UNCHANGED <<at, result, ctxDone, lockVars, jobVars, dataVars, crashes, excused, openVars>>

\* SET NX with LockTTL on a free key.
LockGranted(r) ==
  /\ pc[r] = "setnx"
  /\ at[r] \in RedisBackend
  /\ r \notin ctxDone
  /\ lock = None
  /\ lock' = r
  /\ Goto(r, "create")
  /\ UNCHANGED <<at, result, ctxDone, running, overrun, jobVars, dataVars,
                 crashes, excused, openVars>>

\* The key is set but the answer is lost. The client returns the error, or retries,
\* finds its own token and reports that the lock is held: nobody owns the key now.
LockReplyLost(r) ==
  /\ pc[r] = "setnx"
  /\ at[r] \in RedisBackend
  /\ r \notin ctxDone
  /\ lock = None
  /\ lock' = r
  /\ \E answer \in {"failed", "busy"} : Answer(r, answer)
  /\ Goto(r, "unlock")
  /\ UNCHANGED <<at, ctxDone, running, overrun, jobVars, dataVars, crashes, excused, openVars>>

\* ErrLockAlreadyHeld.
LockHeld(r) ==
  /\ pc[r] = "setnx"
  /\ at[r] \in RedisBackend
  /\ r \notin ctxDone
  /\ lock # None
  /\ Answer(r, "busy")
  /\ Goto(r, "unlock")
  /\ UNCHANGED <<at, ctxDone, lockVars, jobVars, dataVars, crashes, excused, openVars>>

\* Redis is unreachable or the context is done before the command is sent.
LockError(r) ==
  /\ pc[r] = "setnx"
  /\ at[r] \in RedisBackend
  /\ Answer(r, "failed")
  /\ Goto(r, "unlock")
  /\ UNCHANGED <<at, ctxDone, lockVars, jobVars, dataVars, crashes, excused, openVars>>

(***************************************************************************)
(* The job row and its cached status.                                      *)
(***************************************************************************)
\* INSERT with jobStatusContext; without its id the row cannot be updated any more.
CreateJob(r) ==
  /\ pc[r] = "create"
  /\ \E o \in Outcome :
       /\ SetJob(r, o, "pending")
       /\ NoteFault(r, o)
       /\ IF o = "ok"
            THEN Goto(r, "cachePending") /\ UNCHANGED result
            ELSE Goto(r, "release") /\ Answer(r, "failed")
  /\ UNCHANGED <<at, ctxDone, lockVars, link, jobCache, dataVars, crashes, openVars>>

\* One SetJobStatus call: an error is only logged.
CacheJob(r, from, status, outcomes, to) ==
  /\ pc[r] = from
  /\ at[r] \in RedisBackend
  /\ \E o \in outcomes :
       jobCache' = IF Applied(o) THEN [jobCache EXCEPT ![r] = status] ELSE jobCache
  /\ Goto(r, to)
  /\ UNCHANGED <<at, result, ctxDone, lockVars, job, link, dataVars, crashes, excused, openVars>>

CachePending(r) == CacheJob(r, "cachePending", "pending", CtxOutcome(r), "markRunning")
CacheRunning(r) == CacheJob(r, "cacheRunning", "running", CtxOutcome(r), "call")
CacheSuccess(r) == CacheJob(r, "cacheSuccess", "success", Outcome, "release")

\* What the end of a process leaves of the requests it was serving.
Kill(b) ==
  LET dead == {r \in Request : at[r] = b}
  IN /\ pc' = [r \in Request |-> IF r \in dead THEN "end" ELSE pc[r]]
     /\ result' = [r \in Request |-> IF r \in dead THEN "lost" ELSE result[r]]
     /\ at' = [r \in Request |-> IF r \in dead THEN None ELSE at[r]]
     /\ latest' = [r \in Request |-> IF r \in dead THEN None ELSE latest[r]]
     /\ ml' = [r \in Request |-> IF r \in dead /\ ml[r] # "working" THEN "none" ELSE ml[r]]
     /\ ctxDone' = ctxDone \ dead
     /\ overrun' = overrun \ dead
     /\ running' = running \ {b}
     /\ UNCHANGED <<lock, jobVars, rows, excused, openVars>>

\* SetJobStatus reads c.cfg.JobTTL of a nil *Cache. The deferred releaseLocal runs and
\* the Recovery middleware answers 500.
PanicManual(r) ==
  /\ pc[r] = "cachePending"
  /\ at[r] \notin RedisBackend
  /\ r \notin Scheduled
  /\ Answer(r, "panic")
  /\ Goto(r, "unlock")
  /\ UNCHANGED <<at, ctxDone, lockVars, jobVars, dataVars, crashes, excused, openVars>>

\* Nothing recovers a panic on a cron goroutine: it takes the process down.
PanicScheduled(r) ==
  /\ pc[r] = "cachePending"
  /\ at[r] \notin RedisBackend
  /\ r \in Scheduled
  /\ Kill(at[r])
  /\ UNCHANGED crashes

\* jobCtx, five seconds for the INSERT, the SetJobStatus after it and the two UPDATEs
\* below, ends before the UPDATE to 'running' is sent: Redis may have used it up.
JobCtxEnds(r) ==
  /\ pc[r] = "markRunning"
  /\ r \notin late
  /\ late' = late \cup {r}
  /\ UNCHANGED <<pc, at, result, ctxDone, lockVars, jobVars, dataVars, crashes, excused,
                 undated>>

\* A call with jobCtx that was not answered with success: PostgreSQL failed it, unless
\* jobCtx is over.
NoteJobFault(r, o) == IF r \in late THEN UNCHANGED excused ELSE NoteFault(r, o)

\* UPDATE to 'running'. After an error the row is marked failed. What is left of jobCtx
\* may end while the call is under way.
MarkJobRunning(r) ==
  /\ pc[r] = "markRunning"
  /\ \E o \in JobOutcome(r) :
       /\ SetJob(r, o, "running")
       /\ Goto(r, IF o = "ok" THEN "cacheRunning" ELSE "markFailed")
       /\ \/ NoteJobFault(r, o) /\ UNCHANGED late
          \/ o # "ok" /\ late' = late \cup {r} /\ UNCHANGED excused
  /\ UNCHANGED <<at, result, ctxDone, lockVars, link, jobCache, dataVars, crashes, undated>>

\* UPDATE to 'failed' on every error path that has a job; its own error is only logged.
\* After the call of the ML service it has a jobCtx of its own.
MarkJobFailure(r) ==
  /\ pc[r] = "markFailed"
  /\ \E o \in JobOutcome(r) :
       /\ SetJob(r, o, "failed")
       /\ NoteJobFault(r, o)
  /\ Answer(r, "failed")
  /\ Goto(r, "release")
  /\ UNCHANGED <<at, ctxDone, lockVars, link, jobCache, dataVars, crashes, openVars>>

(***************************************************************************)
(* The gRPC call and the ML service's handler.                             *)
(***************************************************************************)
CallML(r) ==
  /\ pc[r] = "call"
  /\ r \notin ctxDone
  /\ ml' = [ml EXCEPT ![r] = "working"]
  /\ Goto(r, "wait")
  /\ UNCHANGED <<at, result, ctxDone, lockVars, jobVars, rows, latest,
                 crashes, excused, openVars>>

\* The handler ends; if nobody waits any more its answer is dropped. The history backfill
\* and the persist step upsert rows for any of the dates, and a failed persist is no error.
MLHandlerEnds(r) ==
  /\ ml[r] = "working"
  /\ \E end \in IF pc[r] = "wait" THEN {"ok", "error"} ELSE {"none"} :
       ml' = [ml EXCEPT ![r] = end]
  /\ \E written \in SUBSET Date : rows' = rows \cup written
  /\ UNCHANGED <<pc, at, result, ctxDone, lockVars, jobVars, latest, crashes, excused, openVars>>

ReceiveResult(r) ==
  /\ pc[r] = "wait"
  /\ ml[r] = "ok"
  /\ ml' = [ml EXCEPT ![r] = "none"]
  /\ Goto(r, "save")
  /\ UNCHANGED <<at, result, ctxDone, lockVars, jobVars, rows, latest,
                 crashes, excused, openVars>>

\* The answer holds no result, or none with a date that parses: it goes to the caller as
\* it is, nothing is stored and the job row is left running.
ReceiveNothing(r) ==
  /\ pc[r] = "wait"
  /\ ml[r] = "ok"
  /\ ml' = [ml EXCEPT ![r] = "none"]
  /\ undated' = undated \cup {r}
  /\ Answer(r, "ok")
  /\ Goto(r, "release")
  /\ UNCHANGED <<at, ctxDone, lockVars, jobVars, rows, latest, crashes, excused, late>>

\* The call fails: an error status, no connection, the 60 s deadline of the call or the
\* end of the request's context. A handler that is at work stays at work.
CallFails(r) ==
  /\ pc[r] \in {"call", "wait"}
  /\ ml' = IF ml[r] = "working" THEN ml ELSE [ml EXCEPT ![r] = "none"]
  /\ Goto(r, "markFailed")
  /\ UNCHANGED <<at, result, ctxDone, lockVars, jobVars, rows, latest,
                 crashes, excused, openVars>>

(***************************************************************************)
(* Storing the result and closing the job.                                 *)
(***************************************************************************)
SaveLSIValue(r) ==
  /\ pc[r] = "save"
  /\ \E o \in CtxOutcome(r) :
       /\ rows' = IF Applied(o) THEN rows \cup {DateOf[r]} ELSE rows
       /\ NoteFault(r, o)
       /\ Goto(r, IF o = "ok" THEN "latest" ELSE "markFailed")
  /\ UNCHANGED <<at, result, ctxDone, lockVars, jobVars, latest, ml, crashes, openVars>>

\* SELECT ... ORDER BY calculation_date DESC LIMIT 1.
GetLatestLSI(r) ==
  /\ pc[r] = "latest"
  /\ r \notin ctxDone
  /\ \E d \in rows :
       /\ \A e \in rows : e <= d
       /\ latest' = [latest EXCEPT ![r] = d]
  /\ Goto(r, "markSuccess")
  /\ UNCHANGED <<at, result, ctxDone, lockVars, jobVars, rows, ml, crashes, excused, openVars>>

\* The SELECT fails: the error is returned and the job row is left as it is.
GetLatestFails(r) ==
  /\ pc[r] = "latest"
  /\ excused' = excused \cup {r}
  /\ Answer(r, "failed")
  /\ Goto(r, "release")
  /\ UNCHANGED <<at, ctxDone, lockVars, jobVars, dataVars, crashes, openVars>>

\* UPDATE to 'success', linked to the latest row; an error is only logged.
MarkJobSuccess(r) ==
  /\ pc[r] = "markSuccess"
  /\ \E o \in Outcome :
       /\ SetJob(r, o, "success")
       /\ link' = IF Applied(o) THEN [link EXCEPT ![r] = latest[r]] ELSE link
       /\ NoteFault(r, o)
       /\ Goto(r, IF o = "ok" THEN "cacheSuccess" ELSE "release")
  /\ Answer(r, "ok")
  /\ UNCHANGED <<at, ctxDone, lockVars, jobCache, dataVars, crashes, openVars>>

(***************************************************************************)
(* The deferred releases, in the order Go runs them.                       *)
(***************************************************************************)
\* The compare-and-delete script; no token, no script.
ReleaseLock(r) ==
  /\ pc[r] = "release"
  /\ \E o \in IF at[r] \in RedisBackend THEN CtxOutcome(r) ELSE {"failed"} :
       lock' = IF Applied(o) /\ lock = r THEN None ELSE lock
  /\ overrun' = overrun \ {r}
  /\ Goto(r, "unlock")
  /\ UNCHANGED <<at, result, ctxDone, running, jobVars, dataVars, crashes, excused, openVars>>

\* releaseLocal: running.Store(false); the request's context and locals are gone.
ReleaseLocal(r) ==
  /\ pc[r] = "unlock"
  /\ running' = running \ {at[r]}
  /\ Goto(r, "end")
  /\ at' = [at EXCEPT ![r] = None]
  /\ ctxDone' = ctxDone \ {r}
  /\ latest' = [latest EXCEPT ![r] = None]
  /\ UNCHANGED <<result, lock, overrun, jobVars, rows, ml, crashes, excused, openVars>>

(***************************************************************************)
(* The environment.                                                        *)
(***************************************************************************)
\* The client disconnects, or the route's or the cron job's timeout passes.
CtxEnds(r) ==
  /\ pc[r] \in Flagged
  /\ r \notin ctxDone
  /\ ctxDone' = ctxDone \cup {r}
  /\ excused' = excused \cup {r}
  /\ UNCHANGED <<pc, at, result, lockVars, jobVars, dataVars, crashes, openVars>>

\* LockTTL passes, or Redis restarts without the key. SCHEDULER timeouts are not
\* checked against REDIS_LOCK_TTL_SECONDS, so the holder may still be at work.
LockExpires ==
  /\ lock # None
  /\ lock' = None
  /\ overrun' = overrun \cup ({lock} \cap Users)
  /\ UNCHANGED <<pc, at, result, ctxDone, running, jobVars, dataVars, crashes, excused, openVars>>

\* A process dies and is started again: its flag and its requests are gone, the Redis
\* key, the job rows and the ML handlers are not.
Crash(b) ==
  /\ crashes < MaxCrashes
  /\ crashes' = crashes + 1
  /\ Kill(b)

----------------------------------------------------------------------------
\* The steps of r's own orchestration after it has entered.
Step(r) ==
  \/ SkipLock(r) \/ LockGranted(r) \/ LockReplyLost(r) \/ LockHeld(r) \/ LockError(r)
  \/ CreateJob(r) \/ CachePending(r) \/ CacheRunning(r) \/ CacheSuccess(r)
  \/ PanicManual(r) \/ PanicScheduled(r) \/ MarkJobRunning(r) \/ MarkJobFailure(r)
  \/ CallML(r) \/ ReceiveResult(r) \/ ReceiveNothing(r) \/ CallFails(r)
  \/ SaveLSIValue(r) \/ GetLatestLSI(r) \/ GetLatestFails(r) \/ MarkJobSuccess(r)
  \/ ReleaseLock(r) \/ ReleaseLocal(r)

Next ==
  \/ \E r \in Request, b \in Backend : Enter(r, b) \/ Reject(r, b)
  \/ \E r \in Request : Step(r) \/ MLHandlerEnds(r) \/ CtxEnds(r) \/ JobCtxEnds(r)
  \/ LockExpires
  \/ \E b \in Backend : Crash(b)

Spec == Init /\ [][Next]_vars

\* A live process takes its next step, the call deadlines included; a lost key expires.
\* Clients, crashes and the ML handler owe nothing.
Fairness == (\A r \in Request : WF_vars(Step(r))) /\ WF_vars(LockExpires)
FairSpec == Spec /\ Fairness

----------------------------------------------------------------------------
(***************************************************************************)
(* What the orchestration promises.                                        *)
(***************************************************************************)
\* A request between its granted lock and the release still owns the key, unless the key
\* expired under it (lock.go:33 against lock.go:51).
LeaseHeld == \A r \in Request : Leased(r) /\ r \notin overrun => lock = r

\* LSIService.running is set exactly while one request of the process is at work: with
\* or without Redis one process runs one recalculation, and no path leaves the flag set.
OneRunPerProcess ==
  /\ \A r, s \in Request :
       pc[r] \in Flagged /\ pc[s] \in Flagged /\ at[r] = at[s] => r = s
  /\ running = {at[r] : r \in {q \in Request : pc[q] \in Flagged}}

\* A deferred release never removes a key that another request has set since, however
\* late it runs: what the token in the release script is for.
OnlyOwnLockReleased ==
  [][\A r \in Request :
       pc[r] = "release" /\ pc'[r] # "release" /\ lock # r => lock' = lock]_vars

\* A job row only moves forward and is final once it is success or failed, though its
\* UPDATEs are unconditional and their answers can be lost.
JobForward ==
  [][\A r \in Request : job'[r] # job[r] =>
       <<job[r], job'[r]>> \in {<<"none", "pending">>, <<"pending", "running">>,
         <<"pending", "failed">>, <<"running", "success">>, <<"running", "failed">>}]_vars

\* A successful job is linked to a stored value no older than the date it computed.
LinkedRowStands ==
  \A r \in Request : job[r] = "success" => link[r] \in rows /\ link[r] >= DateOf[r]

\* The status cached in Redis never tells more than the job row.
CacheNotAhead ==
  \A r \in Request :
    /\ jobCache[r] = "pending" => job[r] # "none"
    /\ jobCache[r] = "running" => job[r] \in {"running", "success", "failed"}
    /\ jobCache[r] = "success" => job[r] = "success"

\* Where an orchestration that came to its end leaves its job row open although
\* PostgreSQL answered every call it was sent and the request's context was alive: a
\* pending row only if the jobCtx of CreateJob and MarkJobRunning ran out between them,
\* which a slow Redis is enough for, a running one only if it did or if the ML service
\* answered without a dated result. An ML failure, a timeout of the call, a Redis that
\* fails fast and lock contention end in a closed row, or in none.
HealthyRunClosesJob ==
  \A r \in Request :
    /\ pc[r] = "end"
    /\ result[r] \notin {"lost", "panic"}
    /\ r \notin excused
    => /\ job[r] = "pending" => r \in late
       /\ job[r] = "running" => r \in late \cup undated

\* Whatever fails, the system comes back to where a recalculation is accepted: no flag
\* set, no key in Redis.
ComesToRest == <>[](running = {} /\ lock = None)

\* The orchestration implements the lock's promise.
Lease == INSTANCE LeasedLock WITH
  Client <- Request, holder <- lock, using <- Users, stale <- overrun
ImplementsLease == Lease!Spec

\* Two requests are inside the recalculation at once only if one of them outlived
\* LockTTL: the distributed lock of POST /api/recalculate and of the cron job.
Exclusive == Lease!OneFreshUser

\* README.md:42 and backend/README.md:20: without Redis the backend keeps working.
NoPanic == \A r \in Request : result[r] # "panic"

\* docs/c4/workspace.dsl:61: the lock prevents parallel recalculation, as long as nobody
\* outlives it.
OneHandlerAtWork ==
  overrun = {} => \A r, s \in Request : ml[r] = "working" /\ ml[s] = "working" => r = s
=============================================================================
