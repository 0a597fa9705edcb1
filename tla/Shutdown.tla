------------------------------ MODULE Shutdown ------------------------------
(***************************************************************************)
(* The life of one api-gateway process: main, the HTTP server's requests,  *)
(* the cron scheduler with its goroutines and wait group, and the orderly  *)
(* shutdown after SIGTERM that closes what they use.                       *)
(***************************************************************************)
EXTENDS Naturals, FiniteSets

CONSTANTS
  CronJob,  \* firings of the cron entry
  Startup,  \* the run of SCHEDULER_RUN_ON_STARTUP=true
  Http      \* HTTP requests

ASSUME ShutdownAssumption == IsFiniteSet(CronJob) /\ Startup \notin CronJob

Job == CronJob \cup {Startup}
Resource == {"redis", "postgres", "grpc"}

VARIABLES
  main,    \* where main is
  signal,  \* rootCtx is done
  late,    \* shutdownCtx is past its ten seconds
  cronOn,  \* the cron runner schedules entries
  job,     \* the goroutine of each job
  wg,      \* Scheduler.wg
  http,    \* requests in flight
  closed,  \* resources main has closed
  missed   \* history: jobs not yet counted when wg.Wait returned

vars == <<main, signal, late, cronOn, job, wg, http, closed, missed>>

Active(j) == job[j] \in {"spawned", "counted"}

TypeOK ==
  /\ main \in {"start", "serve", "http", "stop", "waitJobs", "waitCron",
               "redis", "postgres", "grpc", "exited"}
  /\ signal \in BOOLEAN /\ late \in BOOLEAN /\ cronOn \in BOOLEAN
  /\ job \in [Job -> {"idle", "spawned", "counted", "ended", "killed"}]
  /\ wg \in Nat
  /\ http \in SUBSET Http
  /\ closed \in SUBSET Resource
  /\ missed \in SUBSET Job

(***************************************************************************)
(* Slips: each the action named, with one plausible mistake.               *)
(***************************************************************************)
\* EndJob that calls Done twice.
DoneTwice(j) ==
  /\ job[j] = "counted"
  /\ job' = [job EXCEPT ![j] = "ended"]
  /\ wg' = wg - 2
  /\ UNCHANGED <<main, signal, late, cronOn, http, closed, missed>>

\* EndJob without its deferred Done.
NoDone(j) ==
  /\ job[j] = "counted"
  /\ job' = [job EXCEPT ![j] = "ended"]
  /\ UNCHANGED <<main, signal, late, cronOn, wg, http, closed, missed>>

\* WaitCron that trusts wg.Wait alone.
SkipCronWait ==
  /\ main = "waitCron"
  /\ main' = "redis"
  /\ UNCHANGED <<signal, late, cronOn, job, wg, http, closed, missed>>

\* WaitJobs without wg.Wait.
WaitNothing ==
  /\ main = "waitJobs"
  /\ main' = "waitCron"
  /\ missed' = {j \in Job : job[j] = "spawned"}
  /\ UNCHANGED <<signal, late, cronOn, job, wg, http, closed>>

Init ==
  /\ main = "start" /\ signal = FALSE /\ late = FALSE /\ cronOn = FALSE
  /\ job = [j \in Job |-> "idle"] /\ wg = 0
  /\ http = {} /\ closed = {} /\ missed = {}

(***************************************************************************)
(* The scheduler.                                                          *)
(***************************************************************************)
\* Scheduler.Start; with RunOnStartup it spawns a run whose context is rootCtx.
Start ==
  /\ main = "start"
  /\ main' = "serve"
  /\ cronOn' = TRUE
  /\ job' \in {job, [job EXCEPT ![Startup] = "spawned"]}
  /\ UNCHANGED <<signal, late, wg, http, closed, missed>>

\* The entry is due: cron counts the job among its own and spawns it.
Fire(j) ==
  /\ cronOn /\ j \in CronJob /\ job[j] = "idle"
  /\ main # "exited"
  /\ job' = [job EXCEPT ![j] = "spawned"]
  /\ UNCHANGED <<main, signal, late, cronOn, wg, http, closed, missed>>

\* Scheduler.run: wg.Add(1), on the job's own goroutine.
CountJob(j) ==
  /\ job[j] = "spawned"
  /\ job' = [job EXCEPT ![j] = "counted"]
  /\ wg' = wg + 1
  /\ UNCHANGED <<main, signal, late, cronOn, http, closed, missed>>

\* RecalculationJob.Run returns, at the latest when its timeout passes; wg.Done.
EndJob(j) ==
  /\ job[j] = "counted"
  /\ job' = [job EXCEPT ![j] = "ended"]
  /\ wg' = wg - 1
  /\ UNCHANGED <<main, signal, late, cronOn, http, closed, missed>>

(***************************************************************************)
(* The HTTP server and the environment.                                    *)
(***************************************************************************)
Arrive(h) ==
  /\ main = "serve" /\ h \notin http
  /\ http' = http \cup {h}
  /\ UNCHANGED <<main, signal, late, cronOn, job, wg, closed, missed>>

Finish(h) ==
  /\ h \in http
  /\ http' = http \ {h}
  /\ UNCHANGED <<main, signal, late, cronOn, job, wg, closed, missed>>

\* SIGINT or SIGTERM.
Signal ==
  /\ ~signal /\ main # "exited"
  /\ signal' = TRUE
  /\ UNCHANGED <<main, late, cronOn, job, wg, http, closed, missed>>

\* The deadline of shutdownCtx.
Deadline ==
  /\ ~late /\ main \notin {"start", "serve", "exited"}
  /\ late' = TRUE
  /\ UNCHANGED <<main, signal, cronOn, job, wg, http, closed, missed>>

\* Whoever still works goes with the process.
Exit ==
  /\ main' = "exited"
  /\ job' = [j \in Job |-> IF Active(j) THEN "killed" ELSE job[j]]
  /\ http' = {}
  /\ wg' = 0

(***************************************************************************)
(* main.                                                                   *)
(***************************************************************************)
\* ListenAndServe returns an error: log.Fatalf, without any of the rest.
ServerFails ==
  /\ main = "serve"
  /\ Exit
  /\ UNCHANGED <<signal, late, cronOn, closed, missed>>

BeginShutdown ==
  /\ main = "serve" /\ signal
  /\ main' = "http"
  /\ UNCHANGED <<signal, late, cronOn, job, wg, http, closed, missed>>

\* server.Shutdown returns: nothing in flight, or the deadline.
HttpDown ==
  /\ main = "http" /\ (http = {} \/ late)
  /\ main' = "stop"
  /\ UNCHANGED <<signal, late, cronOn, job, wg, http, closed, missed>>

\* cron.Stop: no further firings.
StopCron ==
  /\ main = "stop"
  /\ main' = "waitJobs"
  /\ cronOn' = FALSE
  /\ UNCHANGED <<signal, late, job, wg, http, closed, missed>>

\* wg.Wait returns, still inside Scheduler.Stop: no deadline ends it.
WaitJobs ==
  /\ main = "waitJobs" /\ wg = 0
  /\ main' = "waitCron"
  /\ missed' = {j \in Job : job[j] = "spawned"}
  /\ UNCHANGED <<signal, late, cronOn, job, wg, http, closed>>

\* The select on the context of cron.Stop and the deadline.
WaitCron ==
  /\ main = "waitCron"
  /\ late \/ \A j \in CronJob : ~Active(j)
  /\ main' = "redis"
  /\ UNCHANGED <<signal, late, cronOn, job, wg, http, closed, missed>>

CloseResource(x, next) ==
  /\ main = x
  /\ closed' = closed \cup {x}
  /\ main' = next
  /\ UNCHANGED <<signal, late, cronOn, job, wg, http, missed>>

CloseLast ==
  /\ main = "grpc"
  /\ closed' = closed \cup {"grpc"}
  /\ Exit
  /\ UNCHANGED <<signal, late, cronOn, missed>>

Main ==
  \/ Start \/ BeginShutdown \/ HttpDown \/ StopCron \/ WaitJobs \/ WaitCron
  \/ CloseResource("redis", "postgres") \/ CloseResource("postgres", "grpc") \/ CloseLast

Next ==
  \/ Main \/ ServerFails \/ Signal \/ Deadline
  \/ \E j \in Job : Fire(j) \/ CountJob(j) \/ EndJob(j)
  \/ \E h \in Http : Arrive(h) \/ Finish(h)

Spec == Init /\ [][Next]_vars

\* main and the goroutines run on; a job ends by its own timeout, the deadline passes.
\* Requests owe nothing: server.Shutdown does not wait for them past the deadline.
Fairness ==
  /\ WF_vars(Main) /\ WF_vars(Deadline)
  /\ \A j \in Job : WF_vars(CountJob(j) \/ EndJob(j))
FairSpec == Spec /\ Fairness

----------------------------------------------------------------------------
\* Within the ten seconds nothing is closed under a request or a scheduled run that still
\* uses it; only a startup run that had not reached wg.Add when Stop waited can be hit
\* (scheduler.go:54 and 66). Cron firings in that gap are caught by the context of cron.Stop.
ClosedAfterWork ==
  closed # {} /\ ~late =>
    /\ http = {}
    /\ \A j \in Job : Active(j) => j = Startup /\ j \in missed

\* However long it takes, the deadline does not let go of a run that Stop has counted: it
\* ends before its connections are closed.
CountedRunsEnd ==
  \A j \in Job : closed # {} /\ job[j] = "counted" => j \in missed

\* A signal always ends the process.
ShutdownCompletes == signal ~> main = "exited"

\* main.go:104-107: waiting for the scheduler stops at the deadline ("scheduler stop timeout").
StopBounded == late => main # "waitJobs" \/ wg = 0
=============================================================================
