--------------------------- MODULE ShutdownProofs ---------------------------
(***************************************************************************)
(* Theorems about the shutdown of one process, for any number of firings   *)
(* and requests.                                                           *)
(***************************************************************************)
EXTENDS Shutdown, FiniteSetTheorems, TLAPS

Counted == {j \in Job : job[j] = "counted"}
Ending  == {"redis", "postgres", "grpc", "exited"}

(***************************************************************************)
(* The inductive invariant: the wait group counts the counted runs; what   *)
(* main has waited for stays so, since cron schedules nothing any more.    *)
(***************************************************************************)
WgCounts == wg = Cardinality(Counted)
WaitedFor ==
  /\ main = "start" => \A j \in Job : job[j] = "idle"
  /\ main \in {"start", "waitJobs", "waitCron", "redis", "postgres", "grpc"} => ~cronOn
  /\ main \in {"waitCron"} \cup Ending => \A j \in Job : Active(j) => j \in missed
  /\ main \in Ending /\ ~late => \A j \in CronJob : ~Active(j)
  /\ main \in {"stop", "waitJobs", "waitCron"} \cup Ending /\ ~late => http = {}
  /\ closed # {} => main \in Ending
Inv == TypeOK /\ WgCounts /\ WaitedFor

LEMMA CountedFinite == IsFiniteSet(Counted)
<1>1. IsFiniteSet(Job) BY ShutdownAssumption, FS_AddElement DEF Job
<1> QED BY <1>1, FS_Subset DEF Counted

LEMMA NextType == TypeOK /\ WgCounts /\ [Next]_vars => TypeOK'
<1> SUFFICES ASSUME TypeOK, WgCounts, [Next]_vars PROVE TypeOK' OBVIOUS
<1> USE DEF TypeOK
<1>1. CASE Main
  <2>1. CASE Start BY <2>1 DEF Start, Job
  <2>2. CASE BeginShutdown \/ HttpDown \/ StopCron \/ WaitJobs \/ WaitCron
    BY <2>2 DEF BeginShutdown, HttpDown, StopCron, WaitJobs, WaitCron
  <2>3. CASE CloseResource("redis", "postgres") \/ CloseResource("postgres", "grpc")
    BY <2>3 DEF CloseResource, Resource
  <2>4. CASE CloseLast BY <2>4 DEF CloseLast, Exit, Resource
  <2> QED BY <1>1, <2>1, <2>2, <2>3, <2>4 DEF Main
<1>2. CASE ServerFails BY <1>2 DEF ServerFails, Exit
<1>3. CASE Signal \/ Deadline BY <1>3 DEF Signal, Deadline
<1>4. ASSUME NEW j \in Job, Fire(j) \/ CountJob(j) PROVE TypeOK'
  BY <1>4 DEF Fire, CountJob
<1>5. ASSUME NEW j \in Job, EndJob(j) PROVE TypeOK'
  <2>1. j \in Counted BY <1>5 DEF EndJob, Counted
  <2>2. wg # 0 BY <2>1, CountedFinite, FS_EmptySet DEF WgCounts
  <2>3. wg' \in Nat BY <1>5, <2>2 DEF EndJob
  <2> QED BY <1>5, <2>3 DEF EndJob
<1>6. ASSUME NEW h \in Http, Arrive(h) \/ Finish(h) PROVE TypeOK'
  BY <1>6 DEF Arrive, Finish
<1>7. CASE UNCHANGED vars BY <1>7 DEF vars
<1> QED BY <1>1, <1>2, <1>3, <1>4, <1>5, <1>6, <1>7 DEF Next

\* A step that leaves the jobs and the wait group alone.
LEMMA SameJobs == WgCounts /\ UNCHANGED <<job, wg>> => WgCounts'
BY DEF WgCounts, Counted

LEMMA ExitCounts == TypeOK /\ Exit => WgCounts'
<1> SUFFICES ASSUME TypeOK, Exit PROVE WgCounts' OBVIOUS
<1>1. Counted' = {} BY DEF TypeOK, Exit, Counted, Active
<1> QED BY <1>1, FS_EmptySet DEF WgCounts, Exit

LEMMA NextCounts == Inv /\ [Next]_vars => WgCounts'
<1> SUFFICES ASSUME Inv, [Next]_vars PROVE WgCounts' OBVIOUS
<1> USE DEF Inv
<1>1. CASE Start
  <2>1. \A j \in Job : job[j] # "counted" /\ job'[j] # "counted"
    BY <1>1 DEF Start, TypeOK, WaitedFor, Job
  <2>2. Counted' = Counted BY <2>1 DEF Counted
  <2> QED BY <1>1, <2>2 DEF Start, WgCounts
<1>2. CASE CloseLast \/ ServerFails
  BY <1>2, ExitCounts DEF CloseLast, ServerFails
<1>3. CASE \/ BeginShutdown \/ HttpDown \/ StopCron \/ WaitJobs \/ WaitCron \/ Signal \/ Deadline
           \/ CloseResource("redis", "postgres") \/ CloseResource("postgres", "grpc")
  BY <1>3, SameJobs DEF BeginShutdown, HttpDown, StopCron, WaitJobs, WaitCron, Signal,
     Deadline, CloseResource
<1>4. ASSUME NEW j \in Job, Fire(j) PROVE WgCounts'
  <2>1. Counted' = Counted BY <1>4 DEF Fire, TypeOK, Counted
  <2> QED BY <1>4, <2>1 DEF Fire, WgCounts
<1>5. ASSUME NEW j \in Job, CountJob(j) PROVE WgCounts'
  <2>1. j \notin Counted /\ Counted' = Counted \cup {j}
    BY <1>5 DEF CountJob, TypeOK, Counted
  <2>2. Cardinality(Counted') = Cardinality(Counted) + 1
    BY <2>1, CountedFinite, FS_AddElement
  <2> QED BY <1>5, <2>2 DEF CountJob, WgCounts
<1>6. ASSUME NEW j \in Job, EndJob(j) PROVE WgCounts'
  <2>1. j \in Counted /\ Counted' = Counted \ {j}
    BY <1>6 DEF EndJob, TypeOK, Counted
  <2>2. Cardinality(Counted') = Cardinality(Counted) - 1
    BY <2>1, CountedFinite, FS_RemoveElement
  <2> QED BY <1>6, <2>2 DEF EndJob, WgCounts
<1>7. ASSUME NEW h \in Http, Arrive(h) \/ Finish(h) PROVE WgCounts'
  BY <1>7, SameJobs DEF Arrive, Finish
<1>8. CASE UNCHANGED vars BY <1>8, SameJobs DEF vars
<1> QED BY <1>1, <1>2, <1>3, <1>4, <1>5, <1>6, <1>7, <1>8 DEF Next, Main

LEMMA NextWaited == TypeOK /\ WgCounts /\ WaitedFor /\ [Next]_vars => WaitedFor'
<1> SUFFICES ASSUME TypeOK, WgCounts, WaitedFor, [Next]_vars PROVE WaitedFor' OBVIOUS
<1> USE DEF WaitedFor, Ending, Active, TypeOK
<1>1. CASE Start BY <1>1 DEF Start
<1>2. CASE CloseLast \/ ServerFails
  BY <1>2 DEF CloseLast, ServerFails, Exit, Job
<1>3. CASE BeginShutdown \/ HttpDown \/ StopCron \/ Signal \/ Deadline
  BY <1>3 DEF BeginShutdown, HttpDown, StopCron, Signal, Deadline
<1>4. CASE WaitJobs
  <2>1. Cardinality(Counted) = 0 BY <1>4 DEF WaitJobs, WgCounts
  <2>2. Counted = {} BY <2>1, CountedFinite, FS_EmptySet
  <2>3. \A j \in Job : job[j] # "counted" BY <2>2 DEF Counted
  <2> QED BY <1>4, <2>3 DEF WaitJobs
<1>5. CASE WaitCron \/ CloseResource("redis", "postgres") \/ CloseResource("postgres", "grpc")
  BY <1>5 DEF WaitCron, CloseResource
<1>6. ASSUME NEW j \in Job, Fire(j) PROVE WaitedFor'
  BY <1>6 DEF Fire
<1>7. ASSUME NEW j \in Job, CountJob(j) \/ EndJob(j) PROVE WaitedFor'
  BY <1>7 DEF CountJob, EndJob, Job
<1>8. ASSUME NEW h \in Http, Arrive(h) \/ Finish(h) PROVE WaitedFor'
  BY <1>8 DEF Arrive, Finish
<1>9. CASE UNCHANGED vars BY <1>9 DEF vars
<1> QED BY <1>1, <1>2, <1>3, <1>4, <1>5, <1>6, <1>7, <1>8, <1>9 DEF Next, Main

LEMMA InvCorrect == Spec => []Inv
<1>1. Init => Inv
  <2> SUFFICES ASSUME Init PROVE Inv OBVIOUS
  <2>1. Counted = {} BY DEF Init, Counted
  <2>2. WgCounts BY <2>1, FS_EmptySet DEF Init, WgCounts
  <2> QED BY <2>2 DEF Init, Inv, TypeOK, WaitedFor, Ending
<1>2. Inv /\ [Next]_vars => Inv' BY NextType, NextCounts, NextWaited DEF Inv
<1> QED BY <1>1, <1>2, PTL DEF Spec

\* Every variable keeps its type; in particular the wait group never goes negative, which
\* in Go is a panic.
THEOREM ShutdownTypes == Spec => []TypeOK
BY InvCorrect, PTL DEF Inv

\* Before the deadline nothing is closed under a request or a run, but for a startup run
\* that Stop could not see.
THEOREM WorkEndsFirst == Spec => []ClosedAfterWork
<1>1. Inv => ClosedAfterWork
  BY DEF Inv, WaitedFor, Ending, ClosedAfterWork, Job
<1> QED BY <1>1, InvCorrect, PTL

\* A counted run ends before its connections are closed, deadline or not.
THEOREM RunsEndFirst == Spec => []CountedRunsEnd
<1>1. Inv => CountedRunsEnd
  BY DEF Inv, WaitedFor, Ending, CountedRunsEnd, Active
<1> QED BY <1>1, InvCorrect, PTL
=============================================================================
