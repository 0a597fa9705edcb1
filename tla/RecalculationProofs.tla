------------------------ MODULE RecalculationProofs ------------------------
(***************************************************************************)
(* Theorems about the recalculation orchestration, for any number of       *)
(* processes, requests, dates and crashes.                                 *)
(***************************************************************************)
EXTENDS Recalculation, TLAPS

(***************************************************************************)
(* Type correctness.                                                       *)
(***************************************************************************)
LEMMA InitType == Init => TypeOK
BY RecalculationAssumption DEF Init, TypeOK, Place, Result, JobStatus, MLState

\* A cached-status call keeps the types, whichever of the three it is.
LEMMA CacheJobType ==
  ASSUME TypeOK, NEW r \in Request, NEW from \in Place, NEW to \in Place,
         NEW status \in JobStatus, NEW outcomes, CacheJob(r, from, status, outcomes, to)
  PROVE  TypeOK'
BY DEF TypeOK, CacheJob, Goto, lockVars, dataVars, openVars

LEMMA KillType ==
  ASSUME TypeOK, NEW b \in Backend, Kill(b), crashes' \in Nat
  PROVE  TypeOK'
BY DEF TypeOK, Kill, jobVars, openVars, Place, Result, MLState

LEMMA StepType ==
  ASSUME TypeOK, NEW r \in Request, Step(r)
  PROVE  TypeOK'
<1> USE DEF TypeOK, Goto, Answer, SetJob, NoteFault, lockVars, jobVars, dataVars, openVars
<1> USE DEF Place, Flagged, Inside, Result, JobStatus, MLState
<1>1. CASE SkipLock(r) BY <1>1 DEF SkipLock
<1>2. CASE LockGranted(r) BY <1>2 DEF LockGranted
<1>3. CASE LockReplyLost(r) BY <1>3 DEF LockReplyLost
<1>4. CASE LockHeld(r) BY <1>4 DEF LockHeld
<1>5. CASE LockError(r) BY <1>5 DEF LockError
<1>6. CASE CreateJob(r) BY <1>6 DEF CreateJob
<1>7. CASE CachePending(r) BY <1>7, CacheJobType DEF CachePending
<1>8. CASE CacheRunning(r) BY <1>8, CacheJobType DEF CacheRunning
<1>9. CASE CacheSuccess(r) BY <1>9, CacheJobType DEF CacheSuccess
<1>10. CASE PanicManual(r) BY <1>10 DEF PanicManual
<1>11. CASE PanicScheduled(r)
  <2>1. at[r] = None \/ at[r] \in Backend OBVIOUS
  <2>2. CASE at[r] \in Backend BY <1>11, <2>2, KillType DEF PanicScheduled
  <2>3. CASE at[r] = None BY <1>11, <2>3 DEF PanicScheduled, Kill
  <2> QED BY <2>1, <2>2, <2>3
<1>12. CASE MarkJobRunning(r) BY <1>12 DEF MarkJobRunning, NoteJobFault
<1>13. CASE MarkJobFailure(r) BY <1>13 DEF MarkJobFailure, NoteJobFault
<1>14. CASE CallML(r) BY <1>14 DEF CallML
<1>15. CASE ReceiveResult(r) BY <1>15 DEF ReceiveResult
<1>16. CASE CallFails(r) BY <1>16 DEF CallFails
<1>17. CASE SaveLSIValue(r)
  <2>0. DateOf[r] \in Date BY RecalculationAssumption, Zenon
  <2>1. rows \cup {DateOf[r]} \in SUBSET Date BY <2>0
  <2>2. rows' \in SUBSET Date BY <1>17, <2>1 DEF SaveLSIValue
  <2>3. excused' \in SUBSET Request /\ pc' \in [Request -> Place]
    BY <1>17 DEF SaveLSIValue
  <2> QED BY <1>17, <2>2, <2>3 DEF SaveLSIValue
<1>18. CASE GetLatestLSI(r) BY <1>18 DEF GetLatestLSI
<1>19. CASE GetLatestFails(r) BY <1>19 DEF GetLatestFails
<1>20. CASE MarkJobSuccess(r) BY <1>20 DEF MarkJobSuccess
<1>21. CASE ReleaseLock(r) BY <1>21 DEF ReleaseLock
<1>22. CASE ReleaseLocal(r) BY <1>22 DEF ReleaseLocal
<1>23. CASE ReceiveNothing(r) BY <1>23 DEF ReceiveNothing
<1> QED
  BY <1>1, <1>2, <1>3, <1>4, <1>5, <1>6, <1>7, <1>8, <1>9, <1>10, <1>11, <1>12, <1>13,
     <1>14, <1>15, <1>16, <1>17, <1>18, <1>19, <1>20, <1>21, <1>22, <1>23 DEF Step

LEMMA NextType == TypeOK /\ [Next]_vars => TypeOK'
<1> SUFFICES ASSUME TypeOK, [Next]_vars PROVE TypeOK'
  OBVIOUS
<1>1. CASE \E r \in Request, b \in Backend : Enter(r, b)
  BY <1>1 DEF TypeOK, Enter, Goto, jobVars, dataVars, openVars, Place, Flagged
<1>2. CASE \E r \in Request, b \in Backend : Reject(r, b)
  BY <1>2 DEF TypeOK, Reject, Goto, Answer, lockVars, jobVars, dataVars, openVars, Place,
              Result
<1>3. CASE \E r \in Request : Step(r)
  BY <1>3, StepType
<1>4. CASE \E r \in Request : MLHandlerEnds(r)
  BY <1>4 DEF TypeOK, MLHandlerEnds, lockVars, jobVars, openVars, MLState
<1>5. CASE \E r \in Request : CtxEnds(r)
  BY <1>5 DEF TypeOK, CtxEnds, lockVars, jobVars, dataVars, openVars
<1>6. CASE LockExpires
  BY <1>6 DEF TypeOK, LockExpires, jobVars, dataVars, openVars
<1>7. CASE \E b \in Backend : Crash(b)
  BY <1>7, KillType DEF TypeOK, Crash
<1>8. CASE UNCHANGED vars
  BY <1>8 DEF TypeOK, vars, lockVars, jobVars, dataVars, openVars
<1>9. CASE \E r \in Request : JobCtxEnds(r)
  BY <1>9 DEF TypeOK, JobCtxEnds, lockVars, jobVars, dataVars
<1> QED
  BY <1>1, <1>2, <1>3, <1>4, <1>5, <1>6, <1>7, <1>8, <1>9 DEF Next

\* Every variable keeps its type, over every interleaving, failure and crash.
THEOREM TypeCorrect == Spec => []TypeOK
BY InitType, NextType, PTL DEF Spec

(***************************************************************************)
(* How a step of a request touches the two locks. A quiet step leaves the  *)
(* flag, the key and the set of lease holders alone.                       *)
(***************************************************************************)
Moves(r, p) == pc' = [pc EXCEPT ![r] = p] /\ pc[r] \in Flagged /\ p \in Flagged
Quiet(r) ==
  /\ UNCHANGED <<at, running, lock, overrun>>
  /\ \E p \in Flagged :
       /\ Moves(r, p)
       /\ at[r] \in RedisBackend => (pc[r] \in Inside <=> p \in Inside)

LEMMA StepKinds ==
  ASSUME TypeOK, NEW r \in Request, Step(r)
  PROVE  \/ Quiet(r) \/ LockGranted(r) \/ LockReplyLost(r) \/ ReleaseLock(r)
         \/ ReleaseLocal(r) \/ PanicScheduled(r)
<1> USE DEF Quiet, Moves, Goto, Answer, lockVars, Flagged, Inside
<1>1. CASE SkipLock(r) BY <1>1 DEF SkipLock
<1>2. CASE LockHeld(r) BY <1>2 DEF LockHeld
<1>3. CASE LockError(r) BY <1>3 DEF LockError
<1>4. CASE CreateJob(r) BY <1>4 DEF CreateJob
<1>5. CASE CachePending(r) BY <1>5 DEF CachePending, CacheJob
<1>6. CASE CacheRunning(r) BY <1>6 DEF CacheRunning, CacheJob
<1>7. CASE CacheSuccess(r) BY <1>7 DEF CacheSuccess, CacheJob
<1>8. CASE PanicManual(r) BY <1>8 DEF PanicManual
<1>9. CASE MarkJobRunning(r) BY <1>9 DEF MarkJobRunning
<1>10. CASE MarkJobFailure(r) BY <1>10 DEF MarkJobFailure
<1>11. CASE CallML(r) BY <1>11 DEF CallML
<1>12. CASE ReceiveResult(r) BY <1>12 DEF ReceiveResult
<1>13. CASE CallFails(r) BY <1>13 DEF CallFails
<1>14. CASE SaveLSIValue(r) BY <1>14 DEF SaveLSIValue
<1>15. CASE GetLatestLSI(r) BY <1>15 DEF GetLatestLSI
<1>16. CASE GetLatestFails(r) BY <1>16 DEF GetLatestFails
<1>17. CASE MarkJobSuccess(r) BY <1>17 DEF MarkJobSuccess
<1>18. CASE ReceiveNothing(r) BY <1>18 DEF ReceiveNothing
<1> QED
  BY <1>1, <1>2, <1>3, <1>4, <1>5, <1>6, <1>7, <1>8, <1>9, <1>10, <1>11, <1>12, <1>13,
     <1>14, <1>15, <1>16, <1>17, <1>18 DEF Step

(***************************************************************************)
(* The running flag. Inductive form: a request is assigned to a process    *)
(* exactly while it is flagged, each flagged process serves one request.   *)
(***************************************************************************)
FlagInv ==
  /\ \A r \in Request : pc[r] \in Flagged <=> at[r] # None
  /\ \A r \in Request : at[r] # None => at[r] \in running
  /\ \A r, s \in Request : at[r] # None /\ at[r] = at[s] => r = s
  /\ \A b \in running : \E r \in Request : at[r] = b

LEMMA KillFlag ==
  ASSUME TypeOK, FlagInv, NEW b \in Backend, Kill(b)
  PROVE  FlagInv'
<1>1. \A r \in Request : IF at[r] = b THEN pc'[r] = "end" /\ at'[r] = None
                                      ELSE pc'[r] = pc[r] /\ at'[r] = at[r]
  BY DEF Kill
<1>2. running' = running \ {b} BY DEF Kill
<1>3. None # b BY RecalculationAssumption
<1> QED BY <1>1, <1>2, <1>3 DEF FlagInv, Flagged, Inside

LEMMA MoveFlag ==
  ASSUME TypeOK, FlagInv, NEW r \in Request, NEW p \in Flagged, Moves(r, p),
         UNCHANGED <<at, running>>
  PROVE  FlagInv'
BY DEF TypeOK, FlagInv, Moves

LEMMA NextFlag ==
  ASSUME TypeOK, FlagInv, [Next]_vars
  PROVE  FlagInv'
<1>1. ASSUME NEW r \in Request, NEW b \in Backend, Enter(r, b) PROVE FlagInv'
  <2>1. pc'[r] = "setnx" /\ at'[r] = b /\ running' = running \cup {b} /\ b \notin running
    BY <1>1 DEF Enter, Goto, TypeOK
  <2>2. \A s \in Request : s # r => pc'[s] = pc[s] /\ at'[s] = at[s]
    BY <1>1 DEF Enter, Goto, TypeOK
  <2>3. None # b /\ None \notin running BY RecalculationAssumption DEF TypeOK
  <2>4. at[r] = None BY <1>1 DEF Enter, FlagInv, Flagged, Inside
  <2>5. "setnx" \in Flagged BY DEF Flagged
  <2> QED BY <2>1, <2>2, <2>3, <2>4, <2>5 DEF FlagInv
<1>2. ASSUME NEW r \in Request, NEW b \in Backend, Reject(r, b) PROVE FlagInv'
  BY <1>2 DEF Reject, Goto, TypeOK, FlagInv, lockVars, Flagged, Inside
<1>3. ASSUME NEW r \in Request, Step(r) PROVE FlagInv'
  <2>1. CASE Quiet(r) BY <2>1, MoveFlag DEF Quiet
  <2>2. CASE LockGranted(r) \/ LockReplyLost(r) \/ ReleaseLock(r)
    <3>1. \E p \in Flagged : Moves(r, p)
      BY <2>2 DEF LockGranted, LockReplyLost, ReleaseLock, Goto, Moves, Flagged, Inside
    <3>2. UNCHANGED <<at, running>> BY <2>2 DEF LockGranted, LockReplyLost, ReleaseLock
    <3> QED BY <3>1, <3>2, MoveFlag
  <2>3. CASE ReleaseLocal(r)
    <3>1. pc[r] \in Flagged /\ pc'[r] = "end" /\ at'[r] = None /\ running' = running \ {at[r]}
      BY <2>3 DEF ReleaseLocal, Goto, TypeOK, Flagged
    <3>2. \A s \in Request : s # r => pc'[s] = pc[s] /\ at'[s] = at[s]
      BY <2>3 DEF ReleaseLocal, Goto, TypeOK
    <3> QED BY <3>1, <3>2 DEF FlagInv, Flagged, Inside
  <2>4. CASE PanicScheduled(r)
    <3>1. at[r] \in Backend
      BY <2>4 DEF PanicScheduled, FlagInv, TypeOK, Flagged, Inside
    <3> QED BY <2>4, <3>1, KillFlag DEF PanicScheduled
  <2> QED BY <1>3, <2>1, <2>2, <2>3, <2>4, StepKinds
<1>4. ASSUME NEW r \in Request, MLHandlerEnds(r) \/ CtxEnds(r) \/ JobCtxEnds(r) PROVE FlagInv'
  BY <1>4 DEF MLHandlerEnds, CtxEnds, JobCtxEnds, FlagInv, lockVars
<1>5. CASE LockExpires BY <1>5 DEF LockExpires, FlagInv
<1>6. ASSUME NEW b \in Backend, Crash(b) PROVE FlagInv'
  BY <1>6, KillFlag DEF Crash
<1>7. CASE UNCHANGED vars BY <1>7 DEF vars, FlagInv, lockVars
<1> QED BY <1>1, <1>2, <1>3, <1>4, <1>5, <1>6, <1>7 DEF Next

LEMMA FlagCorrect == Spec => []FlagInv
<1>1. Init => FlagInv BY DEF Init, FlagInv, Flagged, Inside
<1>2. TypeOK /\ FlagInv /\ [Next]_vars => FlagInv' BY NextFlag
<1> QED BY <1>1, <1>2, TypeCorrect, PTL DEF Spec

\* One process runs one recalculation at a time, and its flag is set exactly then: the
\* in-process protection of lsi_service.go:226, with or without Redis.
THEOREM LocalExclusion == Spec => []OneRunPerProcess
<1>1. ASSUME FlagInv, None \notin running PROVE OneRunPerProcess
  <2>1. running \subseteq {at[r] : r \in {q \in Request : pc[q] \in Flagged}}
    BY <1>1 DEF FlagInv
  <2>2. {at[r] : r \in {q \in Request : pc[q] \in Flagged}} \subseteq running
    BY <1>1 DEF FlagInv
  <2> QED BY <1>1, <2>1, <2>2 DEF FlagInv, OneRunPerProcess
<1>2. TypeOK => None \notin running BY RecalculationAssumption DEF TypeOK
<1> QED BY <1>1, <1>2, TypeCorrect, FlagCorrect, PTL

(***************************************************************************)
(* The Redis key. Inductive form: besides LeaseHeld, only lease holders    *)
(* are recorded as having lost the key.                                    *)
(***************************************************************************)
LeaseInv == LeaseHeld /\ overrun \subseteq Users

LEMMA KillUsers ==
  ASSUME TypeOK, NEW b \in Backend, Kill(b)
  PROVE  \E dead \in SUBSET Request :
           Users' = Users \ dead /\ overrun' = overrun \ dead /\ lock' = lock
<1> DEFINE dead == {r \in Request : at[r] = b}
<1>1. \A r \in Request : IF r \in dead THEN pc'[r] = "end" /\ at'[r] = None
                                       ELSE pc'[r] = pc[r] /\ at'[r] = at[r]
  BY DEF Kill
<1>2. Users' = Users \ dead BY <1>1 DEF Users, Leased, Inside
<1>3. overrun' = overrun \ dead /\ lock' = lock BY DEF Kill
<1> QED BY <1>2, <1>3

LEMMA QuietUsers ==
  ASSUME TypeOK, NEW r \in Request, Quiet(r)
  PROVE  Users' = Users
<1>1. PICK p \in Flagged : Moves(r, p) /\ (at[r] \in RedisBackend => (pc[r] \in Inside <=> p \in Inside))
  BY DEF Quiet
<1>2. pc'[r] = p /\ \A s \in Request : s # r => pc'[s] = pc[s]
  BY <1>1 DEF Moves, TypeOK
<1>3. at' = at BY DEF Quiet
<1> QED BY <1>1, <1>2, <1>3 DEF Users, Leased

\* One step of the system is one step of the leased lock, or none.
LEMMA StepRefines ==
  ASSUME TypeOK, FlagInv, LeaseInv, [Next]_vars
  PROVE  [Lease!Next]_<<lock, Users, overrun>>
<1> USE DEF Lease!Next, Lease!Grant, Lease!GrantUnseen, Lease!Leave, Lease!Die, Lease!Expire
<1>1. ASSUME NEW r \in Request, NEW b \in Backend, Enter(r, b) \/ Reject(r, b)
      PROVE  UNCHANGED <<lock, Users, overrun>>
  <2>1. \A s \in Request : s # r => pc'[s] = pc[s] /\ at'[s] = at[s]
    BY <1>1 DEF Enter, Reject, Goto, TypeOK
  <2>2. pc[r] \notin Inside /\ pc'[r] \notin Inside
    BY <1>1 DEF Enter, Reject, Goto, TypeOK, Inside
  <2>3. Users' = Users BY <2>1, <2>2 DEF Users, Leased
  <2> QED BY <1>1, <2>3 DEF Enter, Reject, lockVars
<1>2. ASSUME NEW r \in Request, Step(r) PROVE [Lease!Next]_<<lock, Users, overrun>>
  <2>1. CASE Quiet(r) BY <2>1, QuietUsers DEF Quiet
  <2>2. CASE LockGranted(r)
    <3>1. lock = None /\ lock' = r /\ overrun' = overrun BY <2>2 DEF LockGranted
    <3>2. at' = at /\ at[r] \in RedisBackend /\ pc[r] = "setnx" /\ pc'[r] = "create"
      BY <2>2 DEF LockGranted, Goto, TypeOK
    <3>3. \A s \in Request : s # r => pc'[s] = pc[s]
      BY <2>2 DEF LockGranted, Goto, TypeOK
    <3>4. r \notin Users /\ Users' = Users \cup {r}
      BY <3>2, <3>3 DEF Users, Leased, Inside
    <3> QED BY <3>1, <3>4
  <2>3. CASE LockReplyLost(r)
    <3>1. lock = None /\ lock' = r /\ overrun' = overrun BY <2>3 DEF LockReplyLost
    <3>2. at' = at /\ pc[r] = "setnx" /\ pc'[r] = "unlock"
      BY <2>3 DEF LockReplyLost, Goto, TypeOK
    <3>3. \A s \in Request : s # r => pc'[s] = pc[s]
      BY <2>3 DEF LockReplyLost, Goto, TypeOK
    <3>4. r \notin Users /\ Users' = Users BY <3>2, <3>3 DEF Users, Leased, Inside
    <3> QED BY <3>1, <3>4
  <2>4. CASE ReleaseLock(r)
    <3>1. lock' \in {lock, IF lock = r THEN None ELSE lock} /\ overrun' = overrun \ {r}
      BY <2>4 DEF ReleaseLock
    <3>2. at' = at /\ pc[r] = "release" /\ pc'[r] = "unlock"
      BY <2>4 DEF ReleaseLock, Goto, TypeOK
    <3>3. \A s \in Request : s # r => pc'[s] = pc[s]
      BY <2>4 DEF ReleaseLock, Goto, TypeOK
    <3>4. Users' = Users \ {r} BY <3>2, <3>3 DEF Users, Leased, Inside
    <3>5. CASE r \in Users BY <3>1, <3>4, <3>5
    <3>6. CASE r \notin Users
      <4>1. at[r] \notin RedisBackend BY <3>2, <3>6 DEF Users, Leased, Inside
      <4>2. lock' = lock BY <2>4, <4>1 DEF ReleaseLock, Applied
      <4>3. overrun' = overrun BY <3>1, <3>6 DEF LeaseInv
      <4> QED BY <3>4, <3>6, <4>2, <4>3
    <3> QED BY <3>5, <3>6
  <2>5. CASE ReleaseLocal(r)
    <3>1. UNCHANGED <<lock, overrun>> BY <2>5 DEF ReleaseLocal
    <3>2. pc[r] \notin Inside /\ pc'[r] \notin Inside
      BY <2>5 DEF ReleaseLocal, Goto, TypeOK, Inside
    <3>3. \A s \in Request : s # r => pc'[s] = pc[s] /\ at'[s] = at[s]
      BY <2>5 DEF ReleaseLocal, Goto, TypeOK
    <3> QED BY <3>1, <3>2, <3>3 DEF Users, Leased
  <2>6. CASE PanicScheduled(r)
    <3>1. at[r] \in Backend BY <2>6 DEF PanicScheduled, FlagInv, TypeOK, Flagged, Inside
    <3>2. PICK dead \in SUBSET Request :
            Users' = Users \ dead /\ overrun' = overrun \ dead /\ lock' = lock
      BY <2>6, <3>1, KillUsers DEF PanicScheduled
    <3>3. dead \cap Users \in SUBSET Request /\ dead \cap Users \subseteq Users
      OBVIOUS
    <3>4. Users' = Users \ (dead \cap Users) BY <3>2
    <3>5. overrun' = overrun \ (dead \cap Users) BY <3>2 DEF LeaseInv
    <3> QED BY <3>2, <3>3, <3>4, <3>5
  <2> QED BY <1>2, <2>1, <2>2, <2>3, <2>4, <2>5, <2>6, StepKinds
<1>3. ASSUME NEW r \in Request, MLHandlerEnds(r) \/ CtxEnds(r) \/ JobCtxEnds(r)
      PROVE  UNCHANGED <<lock, Users, overrun>>
  BY <1>3 DEF MLHandlerEnds, CtxEnds, JobCtxEnds, lockVars, Users, Leased
<1>4. CASE LockExpires
  <2>1. Users' = Users BY <1>4 DEF LockExpires, Users, Leased
  <2>2. overrun' = overrun \cup ({lock} \cap Users) BY <1>4 DEF LockExpires
  <2> QED BY <1>4, <2>1, <2>2 DEF LockExpires
<1>5. ASSUME NEW b \in Backend, Crash(b) PROVE Lease!Next
  <2>1. PICK dead \in SUBSET Request :
          Users' = Users \ dead /\ overrun' = overrun \ dead /\ lock' = lock
    BY <1>5, KillUsers DEF Crash
  <2>2. dead \cap Users \in SUBSET Request /\ dead \cap Users \subseteq Users
    OBVIOUS
  <2>3. Users' = Users \ (dead \cap Users) BY <2>1
  <2>4. overrun' = overrun \ (dead \cap Users) BY <2>1 DEF LeaseInv
  <2> QED BY <2>1, <2>2, <2>3, <2>4
<1>6. CASE UNCHANGED vars BY <1>6 DEF vars, lockVars, Users, Leased
<1> QED BY <1>1, <1>2, <1>3, <1>4, <1>5, <1>6 DEF Next

\* The lease invariant only needs the abstract step.
LEMMA LeaseKept ==
  ASSUME LeaseInv, [Lease!Next]_<<lock, Users, overrun>>
  PROVE  LeaseInv'
<1> DEFINE L == overrun \subseteq Users /\ \A r \in Users \ overrun : lock = r
<1>1. LeaseInv <=> L BY DEF LeaseInv, LeaseHeld, Users
<1>2. LeaseInv' <=> L' BY DEF LeaseInv, LeaseHeld, Users
<1>3. None \notin Request BY RecalculationAssumption
<1>4. Users \subseteq Request BY DEF Users
<1> HIDE DEF L
<1>5. ASSUME NEW r \in Request, Lease!Grant(r) PROVE L'
  BY <1>1, <1>3, <1>4, <1>5 DEF L, Lease!Grant
<1>6. ASSUME NEW r \in Request, Lease!GrantUnseen(r) PROVE L'
  BY <1>1, <1>3, <1>4, <1>6 DEF L, Lease!GrantUnseen
<1>7. ASSUME NEW r \in Request, Lease!Leave(r) PROVE L'
  BY <1>1, <1>3, <1>4, <1>7 DEF L, Lease!Leave
<1>8. ASSUME NEW C \in SUBSET Request, Lease!Die(C) PROVE L'
  BY <1>1, <1>8 DEF L, Lease!Die
<1>9. CASE Lease!Expire BY <1>1, <1>2, <1>3, <1>4, <1>9 DEF L, Lease!Expire
<1>10. CASE UNCHANGED <<lock, Users, overrun>> BY <1>1, <1>2, <1>10 DEF L
<1> QED BY <1>2, <1>5, <1>6, <1>7, <1>8, <1>9, <1>10 DEF Lease!Next

LEMMA LeaseCorrect == Spec => [](TypeOK /\ FlagInv /\ LeaseInv)
<1>1. Init => LeaseInv BY DEF Init, LeaseInv, LeaseHeld, Users, Leased, Inside
<1>2. TypeOK /\ FlagInv /\ LeaseInv /\ [Next]_vars => LeaseInv'
  BY StepRefines, LeaseKept
<1> QED BY <1>1, <1>2, TypeCorrect, FlagCorrect, PTL DEF Spec

\* A request inside the recalculation owns the key until the key expires under it.
THEOREM LeaseHeldAlways == Spec => []LeaseHeld
<1>1. LeaseInv => LeaseHeld BY DEF LeaseInv
<1> QED BY <1>1, LeaseCorrect, PTL

\* No two requests are inside the recalculation of Redis-connected processes unless one
\* of them outlived the key, however calls are lost, contexts end and processes die.
THEOREM ExclusiveAlways == Spec => []Exclusive
<1>1. LeaseInv => Exclusive BY DEF LeaseInv, LeaseHeld, Users, Exclusive, Lease!OneFreshUser
<1> QED BY <1>1, LeaseCorrect, PTL

\* The orchestration implements the leased lock.
THEOREM Refinement == Spec => ImplementsLease
<1>1. Init => Lease!Init
  BY DEF Init, Lease!Init, Users, Leased, Inside
<1>2. TypeOK /\ FlagInv /\ LeaseInv /\ [Next]_vars => [Lease!Next]_Lease!vars
  BY StepRefines DEF Lease!vars
<1> QED BY <1>1, <1>2, LeaseCorrect, PTL DEF Spec, ImplementsLease, Lease!Spec

\* The exclusion is the abstract lock's promise, not an accident of this client: whatever is
\* done under a key that is granted, returned and expires as LeasedLock says, at most one of
\* its users has not outlived it.
THEOREM LeaseExcludes == ImplementsLease => []Exclusive
<1>1. Lease!Init => LeaseInv
  BY DEF Lease!Init, LeaseInv, LeaseHeld, Users
<1>2. LeaseInv /\ [Lease!Next]_Lease!vars => LeaseInv'
  BY LeaseKept DEF Lease!vars
<1>3. LeaseInv => Exclusive
  BY DEF LeaseInv, LeaseHeld, Users, Exclusive, Lease!OneFreshUser
<1> QED BY <1>1, <1>2, <1>3, PTL DEF ImplementsLease, Lease!Spec

(***************************************************************************)
(* The job row. Inductive form: where the request is fixes what its row    *)
(* may say, the answers that were lost included.                           *)
(***************************************************************************)
Starting == {"new", "setnx", "create"}
Pending  == {"cachePending", "markRunning"}
Working  == {"cacheRunning", "call", "wait", "save", "latest", "markSuccess"}
JobAt(p, status) ==
  /\ p \in Starting => status = "none"
  /\ p \in Pending => status = "pending"
  /\ p \in Working => status = "running"
  /\ p = "markFailed" => status \in {"pending", "running"}
  /\ p = "cacheSuccess" => status = "success"
JobInv == \A r \in Request : JobAt(pc[r], job[r])

Forward(old, new) ==
  new # old => <<old, new>> \in {<<"none", "pending">>, <<"pending", "running">>,
    <<"pending", "failed">>, <<"running", "success">>, <<"running", "failed">>}
JobStep == \A r \in Request : JobAt(pc'[r], job'[r]) /\ Forward(job[r], job'[r])

\* A step of r that takes it to p and its row to status.
LEMMA OneRow ==
  ASSUME TypeOK, JobInv, NEW r \in Request, NEW p \in Place, NEW status \in JobStatus,
         pc' = [pc EXCEPT ![r] = p], job' = [job EXCEPT ![r] = status],
         JobAt(pc[r], job[r]) => JobAt(p, status) /\ Forward(job[r], status)
  PROVE  JobStep
<1>1. pc'[r] = p /\ job'[r] = status BY DEF TypeOK
<1>2. \A s \in Request : s # r => pc'[s] = pc[s] /\ job'[s] = job[s] BY DEF TypeOK
<1> QED BY <1>1, <1>2 DEF JobInv, JobStep, Forward

\* A step of r that takes it to p and leaves its row alone.
LEMMA NoRow ==
  ASSUME TypeOK, JobInv, NEW r \in Request, NEW p \in Place,
         pc' = [pc EXCEPT ![r] = p], job' = job, JobAt(pc[r], job[r]) => JobAt(p, job[r])
  PROVE  JobStep
<1>1. pc'[r] = p BY DEF TypeOK
<1>2. \A s \in Request : s # r => pc'[s] = pc[s] BY DEF TypeOK
<1> QED BY <1>1, <1>2 DEF JobInv, JobStep, Forward

LEMMA KillJob ==
  ASSUME TypeOK, JobInv, NEW b, Kill(b)
  PROVE  JobStep
BY DEF Kill, jobVars, JobInv, JobStep, Forward, JobAt, Starting, Pending, Working

\* The answers of one UPDATE or INSERT: applied or not.
LEMMA SetJobTwoWays ==
  ASSUME TypeOK, NEW r \in Request, NEW o, NEW status, SetJob(r, o, status)
  PROVE  \/ Applied(o) /\ job' = [job EXCEPT ![r] = status]
         \/ ~Applied(o) /\ job' = job
BY DEF SetJob

LEMMA StepJob ==
  ASSUME TypeOK, JobInv, NEW r \in Request, Step(r)
  PROVE  JobStep
<1> USE DEF Goto, jobVars, Place, Flagged, Inside, JobStatus
<1> USE DEF JobAt, Starting, Pending, Working
<1>1. CASE SkipLock(r) \/ LockGranted(r) \/ LockReplyLost(r) \/ LockHeld(r) \/ LockError(r)
  BY <1>1, NoRow DEF SkipLock, LockGranted, LockReplyLost, LockHeld, LockError
<1>2. CASE CreateJob(r)
  <2>1. PICK o \in Outcome : SetJob(r, o, "pending") /\ Goto(r, IF o = "ok" THEN "cachePending" ELSE "release")
    BY <1>2 DEF CreateJob
  <2>2. CASE Applied(o) BY <1>2, <2>1, <2>2, SetJobTwoWays, OneRow DEF CreateJob, Forward
  <2>3. CASE ~Applied(o) BY <1>2, <2>1, <2>3, SetJobTwoWays, NoRow DEF CreateJob, Applied
  <2> QED BY <2>2, <2>3
<1>3. CASE CachePending(r) \/ CacheRunning(r) \/ CacheSuccess(r)
  BY <1>3, NoRow DEF CachePending, CacheRunning, CacheSuccess, CacheJob
<1>4. CASE PanicManual(r) BY <1>4, NoRow DEF PanicManual
<1>5. CASE PanicScheduled(r) BY <1>5, KillJob DEF PanicScheduled
<1>6. CASE MarkJobRunning(r)
  <2>1. PICK o \in Outcome : SetJob(r, o, "running") /\ Goto(r, IF o = "ok" THEN "cacheRunning" ELSE "markFailed")
    BY <1>6 DEF MarkJobRunning, JobOutcome, Outcome
  <2>2. CASE Applied(o) BY <1>6, <2>1, <2>2, SetJobTwoWays, OneRow DEF MarkJobRunning, Forward
  <2>3. CASE ~Applied(o) BY <1>6, <2>1, <2>3, SetJobTwoWays, NoRow DEF MarkJobRunning, Applied
  <2> QED BY <2>2, <2>3
<1>7. CASE MarkJobFailure(r)
  <2>1. PICK o \in Outcome : SetJob(r, o, "failed")
    BY <1>7 DEF MarkJobFailure, JobOutcome, Outcome
  <2>2. CASE Applied(o) BY <1>7, <2>1, <2>2, SetJobTwoWays, OneRow DEF MarkJobFailure, Forward
  <2>3. CASE ~Applied(o) BY <1>7, <2>1, <2>3, SetJobTwoWays, NoRow DEF MarkJobFailure
  <2> QED BY <2>2, <2>3
<1>8. CASE CallML(r) \/ ReceiveResult(r) \/ ReceiveNothing(r) \/ CallFails(r)
  BY <1>8, NoRow DEF CallML, ReceiveResult, ReceiveNothing, CallFails
<1>9. CASE SaveLSIValue(r) BY <1>9, NoRow DEF SaveLSIValue
<1>10. CASE GetLatestLSI(r) \/ GetLatestFails(r)
  BY <1>10, NoRow DEF GetLatestLSI, GetLatestFails
<1>11. CASE MarkJobSuccess(r)
  <2>1. PICK o \in Outcome : SetJob(r, o, "success") /\ Goto(r, IF o = "ok" THEN "cacheSuccess" ELSE "release")
    BY <1>11 DEF MarkJobSuccess
  <2>2. CASE Applied(o) BY <1>11, <2>1, <2>2, SetJobTwoWays, OneRow DEF MarkJobSuccess, Forward
  <2>3. CASE ~Applied(o) BY <1>11, <2>1, <2>3, SetJobTwoWays, NoRow DEF MarkJobSuccess, Applied
  <2> QED BY <2>2, <2>3
<1>12. CASE ReleaseLock(r) \/ ReleaseLocal(r)
  BY <1>12, NoRow DEF ReleaseLock, ReleaseLocal
<1> QED
  BY <1>1, <1>2, <1>3, <1>4, <1>5, <1>6, <1>7, <1>8, <1>9, <1>10, <1>11, <1>12 DEF Step

LEMMA NextJob ==
  ASSUME TypeOK, JobInv, [Next]_vars
  PROVE  JobStep
<1>1. ASSUME NEW r \in Request, NEW b \in Backend, Enter(r, b) \/ Reject(r, b) PROVE JobStep
  BY <1>1, NoRow DEF Enter, Reject, Goto, jobVars, Place, Flagged, JobAt, Starting, Pending, Working
<1>2. ASSUME NEW r \in Request, Step(r) PROVE JobStep BY <1>2, StepJob
<1>3. ASSUME NEW r \in Request, MLHandlerEnds(r) \/ CtxEnds(r) \/ JobCtxEnds(r) PROVE JobStep
  BY <1>3 DEF MLHandlerEnds, CtxEnds, JobCtxEnds, jobVars, JobInv, JobStep, Forward
<1>4. CASE LockExpires BY <1>4 DEF LockExpires, jobVars, JobInv, JobStep, Forward
<1>5. ASSUME NEW b \in Backend, Crash(b) PROVE JobStep BY <1>5, KillJob DEF Crash
<1>6. CASE UNCHANGED vars BY <1>6 DEF vars, jobVars, JobInv, JobStep, Forward
<1> QED BY <1>1, <1>2, <1>3, <1>4, <1>5, <1>6 DEF Next

\* A job row only moves forward, whatever answers are lost and processes die.
THEOREM JobsOnlyMoveForward == Spec => JobForward
<1>1. Init => JobInv BY DEF Init, JobInv, JobAt, Starting, Pending, Working
<1>2. JobInv /\ JobStep => JobInv' BY DEF JobInv, JobStep
<1>3. JobStep => [\A r \in Request : job'[r] # job[r] =>
       <<job[r], job'[r]>> \in {<<"none", "pending">>, <<"pending", "running">>,
         <<"pending", "failed">>, <<"running", "success">>, <<"running", "failed">>}]_vars
  BY DEF JobStep, Forward
<1>4. TypeOK /\ JobInv /\ [Next]_vars => JobStep BY NextJob
<1> QED BY <1>1, <1>2, <1>3, <1>4, TypeCorrect, PTL DEF Spec, JobForward

(***************************************************************************)
(* The release script.                                                     *)
(***************************************************************************)
OwnRelease(r) == pc[r] = "release" /\ pc'[r] # "release" /\ lock # r => lock' = lock

LEMMA ReleaseStep ==
  ASSUME TypeOK, [Next]_vars, NEW r \in Request
  PROVE  OwnRelease(r)
<1>1. ASSUME NEW s \in Request, Step(s) PROVE OwnRelease(r)
  <2>1. CASE Quiet(s) \/ ReleaseLocal(s) \/ PanicScheduled(s)
    BY <2>1 DEF OwnRelease, Quiet, ReleaseLocal, PanicScheduled, Kill
  <2>2. CASE LockGranted(s) \/ LockReplyLost(s)
    BY <2>2 DEF TypeOK, OwnRelease, LockGranted, LockReplyLost, Goto
  <2>3. CASE ReleaseLock(s) BY <2>3 DEF TypeOK, OwnRelease, ReleaseLock, Goto
  <2> QED BY <1>1, <2>1, <2>2, <2>3, StepKinds
<1>2. ASSUME NEW s \in Request, NEW b \in Backend, Enter(s, b) \/ Reject(s, b)
      PROVE  OwnRelease(r)
  BY <1>2 DEF OwnRelease, Enter, Reject, lockVars
<1>3. ASSUME NEW s \in Request, MLHandlerEnds(s) \/ CtxEnds(s) \/ JobCtxEnds(s) PROVE OwnRelease(r)
  BY <1>3 DEF OwnRelease, MLHandlerEnds, CtxEnds, JobCtxEnds, lockVars
<1>4. CASE LockExpires BY <1>4 DEF OwnRelease, LockExpires
<1>5. ASSUME NEW b \in Backend, Crash(b) PROVE OwnRelease(r)
  BY <1>5 DEF OwnRelease, Crash, Kill
<1>6. CASE UNCHANGED vars BY <1>6 DEF OwnRelease, vars
<1> QED BY <1>1, <1>2, <1>3, <1>4, <1>5, <1>6 DEF Next

\* A release, however late, never removes a key another request has set (lock.go:51).
THEOREM OwnLockOnly == Spec => OnlyOwnLockReleased
<1>1. TypeOK /\ [Next]_vars =>
        [\A r \in Request :
           pc[r] = "release" /\ pc'[r] # "release" /\ lock # r => lock' = lock]_vars
  BY ReleaseStep DEF OwnRelease
<1> QED BY <1>1, TypeCorrect, PTL DEF Spec, OnlyOwnLockReleased

(***************************************************************************)
(* The cached status: written only where the row is known to say as much,  *)
(* and a row that only moves forward cannot fall behind it again.          *)
(***************************************************************************)
LEMMA JobCorrect == Spec => [](TypeOK /\ JobInv)
<1>1. Init => JobInv BY DEF Init, JobInv, JobAt, Starting, Pending, Working
<1>2. TypeOK /\ JobInv /\ [Next]_vars => JobInv' BY NextJob DEF JobInv, JobStep
<1> QED BY <1>1, <1>2, TypeCorrect, PTL DEF Spec

CacheWrite(r) ==
  \/ jobCache'[r] = jobCache[r]
  \/ <<pc[r], jobCache'[r]>> \in {<<"cachePending", "pending">>,
       <<"cacheRunning", "running">>, <<"cacheSuccess", "success">>}

LEMMA CacheWrites ==
  ASSUME TypeOK, [Next]_vars, NEW r \in Request
  PROVE  CacheWrite(r)
<1> USE DEF CacheWrite, jobVars
<1>1. ASSUME NEW s \in Request, Step(s) PROVE CacheWrite(r)
  <2>1. CASE CachePending(s) \/ CacheRunning(s) \/ CacheSuccess(s)
    <3> USE DEF CacheJob, TypeOK
    <3>1. CASE CachePending(s) BY <3>1 DEF CachePending
    <3>2. CASE CacheRunning(s) BY <3>2 DEF CacheRunning
    <3>3. CASE CacheSuccess(s) BY <3>3 DEF CacheSuccess
    <3> QED BY <2>1, <3>1, <3>2, <3>3
  <2>2. CASE SkipLock(s) \/ LockGranted(s) \/ LockReplyLost(s) \/ LockHeld(s) \/ LockError(s)
    BY <2>2 DEF SkipLock, LockGranted, LockReplyLost, LockHeld, LockError
  <2>3. CASE CreateJob(s) \/ PanicManual(s) \/ PanicScheduled(s) \/ MarkJobRunning(s)
    BY <2>3 DEF CreateJob, PanicManual, PanicScheduled, MarkJobRunning, Kill
  <2>4. CASE \/ MarkJobFailure(s) \/ CallML(s) \/ ReceiveResult(s) \/ ReceiveNothing(s)
             \/ CallFails(s)
    BY <2>4 DEF MarkJobFailure, CallML, ReceiveResult, ReceiveNothing, CallFails
  <2>5. CASE SaveLSIValue(s) \/ GetLatestLSI(s) \/ GetLatestFails(s) \/ MarkJobSuccess(s)
    BY <2>5 DEF SaveLSIValue, GetLatestLSI, GetLatestFails, MarkJobSuccess
  <2>6. CASE ReleaseLock(s) \/ ReleaseLocal(s) BY <2>6 DEF ReleaseLock, ReleaseLocal
  <2> QED BY <1>1, <2>1, <2>2, <2>3, <2>4, <2>5, <2>6 DEF Step
<1>2. ASSUME NEW s \in Request, NEW b \in Backend, Enter(s, b) \/ Reject(s, b)
      PROVE  CacheWrite(r)
  BY <1>2 DEF Enter, Reject
<1>3. ASSUME NEW s \in Request, MLHandlerEnds(s) \/ CtxEnds(s) \/ JobCtxEnds(s) PROVE CacheWrite(r)
  BY <1>3 DEF MLHandlerEnds, CtxEnds, JobCtxEnds
<1>4. CASE LockExpires BY <1>4 DEF LockExpires
<1>5. ASSUME NEW b \in Backend, Crash(b) PROVE CacheWrite(r) BY <1>5 DEF Crash, Kill
<1>6. CASE UNCHANGED vars BY <1>6 DEF vars
<1> QED BY <1>1, <1>2, <1>3, <1>4, <1>5, <1>6 DEF Next

LEMMA CacheStep ==
  ASSUME TypeOK, JobInv, CacheNotAhead, [Next]_vars
  PROVE  CacheNotAhead'
<1> SUFFICES ASSUME NEW r \in Request
             PROVE  /\ jobCache'[r] = "pending" => job'[r] # "none"
                    /\ jobCache'[r] = "running" => job'[r] \in {"running", "success", "failed"}
                    /\ jobCache'[r] = "success" => job'[r] = "success"
  BY DEF CacheNotAhead
<1>1. Forward(job[r], job'[r]) BY NextJob DEF JobStep
<1>2. JobAt(pc[r], job[r]) BY DEF JobInv
<1>3. CASE jobCache'[r] = jobCache[r] BY <1>1, <1>3 DEF CacheNotAhead, Forward
<1>4. CASE <<pc[r], jobCache'[r]>> \in {<<"cachePending", "pending">>,
             <<"cacheRunning", "running">>, <<"cacheSuccess", "success">>}
  BY <1>1, <1>2, <1>4 DEF Forward, JobAt, Pending, Working
<1> QED BY <1>3, <1>4, CacheWrites DEF CacheWrite

\* The status in Redis never tells more than the row (lsi_service.go, SetJobStatus).
THEOREM CacheNeverAhead == Spec => []CacheNotAhead
<1>1. Init => CacheNotAhead BY DEF Init, CacheNotAhead
<1>2. TypeOK /\ JobInv /\ CacheNotAhead /\ [Next]_vars => CacheNotAhead' BY CacheStep
<1> QED BY <1>1, <1>2, JobCorrect, PTL DEF Spec

(***************************************************************************)
(* The row a successful job is linked to. Inductive form: what the request *)
(* has seen before it links.                                               *)
(***************************************************************************)
Stands(d, r) == d \in rows /\ d >= DateOf[r]
RowOf(r) ==
  /\ pc[r] = "latest" => DateOf[r] \in rows
  /\ pc[r] = "markSuccess" => Stands(latest[r], r)
  /\ job[r] = "success" => Stands(link[r], r)
RowInv == \A r \in Request : RowOf(r)

\* A step that leaves what r remembers alone: rows are never deleted.
LEMMA RowKept ==
  ASSUME RowInv, NEW r \in Request, rows \subseteq rows', link'[r] = link[r],
         job'[r] = "success" => job[r] = "success",
         pc'[r] = "latest" => pc[r] = "latest",
         pc'[r] = "markSuccess" => pc[r] = "markSuccess" /\ latest'[r] = latest[r]
  PROVE  RowOf(r)'
BY DEF RowInv, RowOf, Stands

LEMMA KillRow ==
  ASSUME TypeOK, RowInv, NEW b, Kill(b)
  PROVE  RowInv'
<1> SUFFICES ASSUME NEW r \in Request PROVE RowOf(r)'
  BY DEF RowInv
<1> QED BY RowKept DEF Kill, jobVars

\* A step of s that writes neither link nor a success, and goes to neither place.
LEMMA RowElsewhere ==
  ASSUME TypeOK, RowInv, NEW s \in Request, NEW p \in Place, NEW status \in JobStatus,
         pc' = [pc EXCEPT ![s] = p], p \notin {"latest", "markSuccess"},
         job' = job \/ job' = [job EXCEPT ![s] = status], status # "success",
         link' = link, rows' = rows, latest' = latest \/ latest' = [latest EXCEPT ![s] = None]
  PROVE  RowInv'
<1> SUFFICES ASSUME NEW r \in Request PROVE RowOf(r)'
  BY DEF RowInv
<1>1. CASE r = s BY <1>1, RowKept DEF TypeOK
<1>2. CASE r # s BY <1>2, RowKept DEF TypeOK
<1> QED BY <1>1, <1>2

LEMMA StepRow ==
  ASSUME TypeOK, RowInv, NEW s \in Request, Step(s)
  PROVE  RowInv'
<1> USE DEF Goto, SetJob, jobVars, dataVars, Place, Flagged, Inside, JobStatus
<1>1. CASE SkipLock(s) \/ LockGranted(s) \/ LockReplyLost(s) \/ LockHeld(s) \/ LockError(s)
  BY <1>1, RowElsewhere DEF SkipLock, LockGranted, LockReplyLost, LockHeld, LockError
<1>2. CASE CreateJob(s)
  BY <1>2, RowElsewhere DEF CreateJob
<1>3. CASE CachePending(s) \/ CacheRunning(s) \/ CacheSuccess(s)
  BY <1>3, RowElsewhere DEF CachePending, CacheRunning, CacheSuccess, CacheJob
<1>4. CASE PanicManual(s) BY <1>4, RowElsewhere DEF PanicManual
<1>5. CASE PanicScheduled(s) BY <1>5, KillRow DEF PanicScheduled
<1>6. CASE MarkJobRunning(s)
  <2>1. PICK p \in {"cacheRunning", "markFailed"} : pc' = [pc EXCEPT ![s] = p]
    BY <1>6 DEF MarkJobRunning
  <2>2. job' = job \/ job' = [job EXCEPT ![s] = "running"] BY <1>6 DEF MarkJobRunning
  <2> QED BY <1>6, <2>1, <2>2, RowElsewhere DEF MarkJobRunning
<1>7. CASE MarkJobFailure(s)
  <2>1. job' = job \/ job' = [job EXCEPT ![s] = "failed"] BY <1>7 DEF MarkJobFailure
  <2>2. pc' = [pc EXCEPT ![s] = "release"] /\ UNCHANGED <<link, rows, latest>>
    BY <1>7 DEF MarkJobFailure
  <2>3. "failed" \in JobStatus /\ "release" \in Place
    OBVIOUS
  <2>4. "failed" # "success" /\ "release" \notin {"latest", "markSuccess"}
    OBVIOUS
  <2> HIDE DEF JobStatus, Place
  <2> QED BY <2>1, <2>2, <2>3, <2>4, RowElsewhere
<1>8. CASE \/ CallML(s) \/ ReceiveResult(s) \/ ReceiveNothing(s) \/ CallFails(s)
          \/ GetLatestFails(s)
  BY <1>8, RowElsewhere DEF CallML, ReceiveResult, ReceiveNothing, CallFails, GetLatestFails
<1>9. CASE SaveLSIValue(s)
  <2> SUFFICES ASSUME NEW r \in Request PROVE RowOf(r)'
    BY DEF RowInv
  <2>1. PICK o \in CtxOutcome(s) :
          /\ rows' = IF Applied(o) THEN rows \cup {DateOf[s]} ELSE rows
          /\ pc' = [pc EXCEPT ![s] = IF o = "ok" THEN "latest" ELSE "markFailed"]
    BY <1>9 DEF SaveLSIValue
  <2>2. rows \subseteq rows' /\ job' = job /\ link' = link /\ latest' = latest
    BY <1>9, <2>1 DEF SaveLSIValue
  <2>3. CASE r # s BY <2>1, <2>2, <2>3, RowKept DEF TypeOK
  <2>4. CASE r = s /\ o = "ok"
    <3>1. DateOf[r] \in rows' /\ pc'[r] = "latest" BY <2>1, <2>4 DEF Applied, TypeOK
    <3> QED BY <2>2, <3>1 DEF RowInv, RowOf, Stands
  <2>5. CASE r = s /\ o # "ok" BY <2>1, <2>2, <2>5, RowKept DEF TypeOK
  <2> QED BY <2>3, <2>4, <2>5
<1>10. CASE GetLatestLSI(s)
  <2> SUFFICES ASSUME NEW r \in Request PROVE RowOf(r)'
    BY DEF RowInv
  <2>1. PICK d \in rows : (\A e \in rows : e <= d) /\ latest' = [latest EXCEPT ![s] = d]
    BY <1>10 DEF GetLatestLSI
  <2>2. pc' = [pc EXCEPT ![s] = "markSuccess"] /\ pc[s] = "latest"
        /\ rows' = rows /\ job' = job /\ link' = link
    BY <1>10 DEF GetLatestLSI
  <2>3. CASE r # s BY <2>1, <2>2, <2>3, RowKept DEF TypeOK
  <2>4. CASE r = s
    <3>1. DateOf[r] \in rows BY <2>2, <2>4 DEF RowInv, RowOf
    <3>2. d \in Nat /\ DateOf[r] \in Nat /\ DateOf[r] <= d
      BY <2>1, <3>1, RecalculationAssumption DEF TypeOK
    <3>3. latest'[r] = d BY <2>1, <2>4 DEF TypeOK
    <3>4. Stands(latest[r], r)' BY <2>2, <3>2, <3>3 DEF Stands
    <3>5. pc'[r] = "markSuccess" BY <2>2, <2>4 DEF TypeOK
    <3> QED BY <2>2, <3>4, <3>5 DEF RowInv, RowOf, Stands
  <2> QED BY <2>3, <2>4
<1>11. CASE MarkJobSuccess(s)
  <2> SUFFICES ASSUME NEW r \in Request PROVE RowOf(r)'
    BY DEF RowInv
  <2>1. PICK o \in Outcome :
          /\ SetJob(s, o, "success")
          /\ link' = IF Applied(o) THEN [link EXCEPT ![s] = latest[s]] ELSE link
          /\ pc' = [pc EXCEPT ![s] = IF o = "ok" THEN "cacheSuccess" ELSE "release"]
    BY <1>11 DEF MarkJobSuccess
  <2>2. rows' = rows /\ latest' = latest /\ pc[s] = "markSuccess"
    BY <1>11 DEF MarkJobSuccess
  <2>3. CASE r # s BY <2>1, <2>2, <2>3, RowKept DEF TypeOK
  <2>4. CASE r = s /\ Applied(o)
    <3>1. link'[r] = latest[r] /\ pc'[r] \notin {"latest", "markSuccess"}
      BY <2>1, <2>4 DEF TypeOK
    <3>2. Stands(latest[r], r) BY <2>2, <2>4 DEF RowInv, RowOf
    <3> QED BY <2>2, <3>1, <3>2 DEF RowOf, Stands
  <2>5. CASE r = s /\ ~Applied(o) BY <2>1, <2>2, <2>5, RowKept DEF TypeOK
  <2> QED BY <2>3, <2>4, <2>5
<1>12. CASE ReleaseLock(s) \/ ReleaseLocal(s)
  BY <1>12, RowElsewhere DEF ReleaseLock, ReleaseLocal
<1> QED
  BY <1>1, <1>2, <1>3, <1>4, <1>5, <1>6, <1>7, <1>8, <1>9, <1>10, <1>11, <1>12 DEF Step

LEMMA NextRow ==
  ASSUME TypeOK, RowInv, [Next]_vars
  PROVE  RowInv'
<1> USE DEF jobVars, dataVars
<1>1. ASSUME NEW r \in Request, NEW b \in Backend, Enter(r, b) \/ Reject(r, b) PROVE RowInv'
  BY <1>1, RowElsewhere DEF Enter, Reject, Goto, Place, Flagged, JobStatus
<1>2. ASSUME NEW r \in Request, Step(r) PROVE RowInv' BY <1>2, StepRow
<1>3. ASSUME NEW s \in Request, MLHandlerEnds(s) \/ CtxEnds(s) \/ JobCtxEnds(s) PROVE RowInv'
  <2> SUFFICES ASSUME NEW r \in Request PROVE RowOf(r)'
    BY DEF RowInv
  <2> QED BY <1>3, RowKept DEF MLHandlerEnds, CtxEnds, JobCtxEnds
<1>4. CASE LockExpires BY <1>4 DEF LockExpires, RowInv, RowOf, Stands
<1>5. ASSUME NEW b \in Backend, Crash(b) PROVE RowInv' BY <1>5, KillRow DEF Crash
<1>6. CASE UNCHANGED vars BY <1>6 DEF vars, RowInv, RowOf, Stands
<1> QED BY <1>1, <1>2, <1>3, <1>4, <1>5, <1>6 DEF Next

\* A successful job is linked to a stored value no older than the date it computed.
THEOREM LinkedRowStandsAlways == Spec => []LinkedRowStands
<1>1. Init => RowInv BY DEF Init, RowInv, RowOf
<1>2. TypeOK /\ RowInv /\ [Next]_vars => RowInv' BY NextRow
<1>3. RowInv => LinkedRowStands BY DEF RowInv, RowOf, Stands, LinkedRowStands
<1> QED BY <1>1, <1>2, <1>3, TypeCorrect, PTL DEF Spec

(***************************************************************************)
(* The row a run leaves behind. Inductive form: from the deferred release  *)
(* on, a row still open is accounted for.                                  *)
(***************************************************************************)
Settled(r) ==
  /\ job[r] = "pending" => r \in late
  /\ job[r] = "running" => r \in late \cup undated
EndOf(r) ==
  r \notin excused =>
    /\ pc[r] = "release" => Settled(r)
    /\ pc[r] = "unlock" => result[r] = "panic" \/ Settled(r)
    /\ pc[r] = "end" => result[r] \in {"lost", "panic"} \/ Settled(r)
EndInv == \A r \in Request : EndOf(r)

\* What is noted of a request is never forgotten.
Noted == excused \subseteq excused' /\ late \subseteq late' /\ undated \subseteq undated'

\* A step that leaves r's place, answer and row alone.
LEMMA EndKept ==
  ASSUME EndInv, NEW r \in Request, Noted,
         pc'[r] = pc[r], result'[r] = result[r], job'[r] = job[r]
  PROVE  EndOf(r)'
BY DEF EndInv, EndOf, Settled, Noted

LEMMA KillEnd ==
  ASSUME TypeOK, EndInv, NEW b, Kill(b)
  PROVE  EndInv'
<1> SUFFICES ASSUME NEW r \in Request PROVE EndOf(r)'
  BY DEF EndInv
<1>1. CASE at[r] = b BY <1>1 DEF Kill, EndOf
<1>2. CASE at[r] # b BY <1>2, EndKept DEF Kill, jobVars, openVars, Noted
<1> QED BY <1>1, <1>2

\* Before the release nothing is owed.
LEMMA EndOpen ==
  ASSUME TypeOK, NEW s \in Request, NEW p \in Place, pc' = [pc EXCEPT ![s] = p],
         p \notin {"release", "unlock", "end"}
  PROVE  EndOf(s)'
BY DEF TypeOK, EndOf

\* Where a step leaves its own request.
LEMMA StepEnds ==
  ASSUME TypeOK, JobInv, EndInv, NEW s \in Request, Step(s), ~PanicScheduled(s)
  PROVE  EndOf(s)'
<1> USE DEF Goto, Answer, NoteFault, jobVars, dataVars, openVars, Place, Flagged, Inside
<1>1. JobAt(pc[s], job[s]) BY DEF JobInv
<1>2. CASE SkipLock(s) \/ LockGranted(s)
  BY <1>2, EndOpen DEF SkipLock, LockGranted
<1>3. CASE LockReplyLost(s) \/ LockHeld(s) \/ LockError(s)
  <2>1. pc[s] = "setnx" /\ pc'[s] = "unlock" /\ job'[s] = job[s]
    BY <1>3 DEF LockReplyLost, LockHeld, LockError, TypeOK
  <2>2. job[s] = "none" BY <1>1, <2>1 DEF JobAt, Starting
  <2> QED BY <2>1, <2>2 DEF EndOf, Settled
<1>4. CASE CreateJob(s)
  <2>1. CASE pc' = [pc EXCEPT ![s] = "cachePending"] BY <2>1, EndOpen
  <2>2. CASE s \in excused' BY <2>2 DEF EndOf
  <2> QED BY <1>4, <2>1, <2>2 DEF CreateJob
<1>5. CASE CachePending(s) \/ CacheRunning(s)
  BY <1>5, EndOpen DEF CachePending, CacheRunning, CacheJob
<1>6. CASE CacheSuccess(s)
  <2>1. pc[s] = "cacheSuccess" /\ pc'[s] = "release" /\ job'[s] = job[s]
    BY <1>6 DEF CacheSuccess, CacheJob, TypeOK
  <2>2. job[s] = "success" BY <1>1, <2>1 DEF JobAt
  <2> QED BY <2>1, <2>2 DEF EndOf, Settled
<1>7. CASE PanicManual(s)
  BY <1>7 DEF PanicManual, EndOf, TypeOK
<1>8. CASE MarkJobRunning(s)
  <2>1. PICK p \in {"cacheRunning", "markFailed"} : pc' = [pc EXCEPT ![s] = p]
    BY <1>8 DEF MarkJobRunning
  <2> QED BY <2>1, EndOpen
<1>9. CASE MarkJobFailure(s)
  <2>1. PICK o \in JobOutcome(s) : SetJob(s, o, "failed") /\ NoteJobFault(s, o)
    BY <1>9 DEF MarkJobFailure
  <2>2. CASE o = "ok"
    <3>1. job'[s] = "failed" /\ pc'[s] = "release"
      BY <1>9, <2>1, <2>2 DEF MarkJobFailure, SetJob, Applied, TypeOK
    <3> QED BY <3>1 DEF EndOf, Settled
  <2>3. CASE o # "ok" /\ s \notin late BY <2>1, <2>3 DEF EndOf, NoteJobFault
  <2>4. CASE s \in late BY <1>9, <2>4 DEF MarkJobFailure, EndOf, Settled
  <2> QED BY <2>2, <2>3, <2>4
<1>10. CASE CallML(s) \/ ReceiveResult(s) \/ CallFails(s) \/ GetLatestLSI(s)
  BY <1>10, EndOpen DEF CallML, ReceiveResult, ReceiveNothing, CallFails, GetLatestLSI
<1>11. CASE SaveLSIValue(s)
  <2>1. PICK p \in {"latest", "markFailed"} : pc' = [pc EXCEPT ![s] = p]
    BY <1>11 DEF SaveLSIValue
  <2> QED BY <2>1, EndOpen
<1>12. CASE GetLatestFails(s) BY <1>12 DEF GetLatestFails, EndOf
<1>13. CASE MarkJobSuccess(s)
  <2>1. CASE pc' = [pc EXCEPT ![s] = "cacheSuccess"] BY <2>1, EndOpen
  <2>2. CASE s \in excused' BY <2>2 DEF EndOf
  <2> QED BY <1>13, <2>1, <2>2 DEF MarkJobSuccess
<1>14. CASE ReleaseLock(s)
  BY <1>14 DEF ReleaseLock, EndInv, EndOf, Settled, TypeOK
<1>15. CASE ReleaseLocal(s)
  BY <1>15 DEF ReleaseLocal, EndInv, EndOf, Settled, TypeOK
<1>16. CASE ReceiveNothing(s)
  <2>1. pc[s] = "wait" /\ pc'[s] = "release" /\ job'[s] = job[s] /\ s \in undated'
    BY <1>16 DEF ReceiveNothing, TypeOK
  <2>2. job[s] = "running" BY <1>1, <2>1 DEF JobAt, Working
  <2> QED BY <2>1, <2>2 DEF EndOf, Settled
<1> QED
  BY <1>2, <1>3, <1>4, <1>5, <1>6, <1>7, <1>8, <1>9, <1>10, <1>11, <1>12, <1>13, <1>14,
     <1>15, <1>16 DEF Step

\* A step of s writes its own place, answer and row only, and forgets no excuse.
LEMMA StepIsOwn ==
  ASSUME TypeOK, NEW s \in Request, Step(s), ~PanicScheduled(s),
         NEW r \in Request, r # s
  PROVE  Noted /\ pc'[r] = pc[r] /\ result'[r] = result[r] /\ job'[r] = job[r]
<1> USE DEF TypeOK, Goto, Answer, SetJob, NoteFault, jobVars, openVars, Noted
<1>1. CASE SkipLock(s) \/ LockGranted(s) \/ LockReplyLost(s) \/ LockHeld(s) \/ LockError(s)
  BY <1>1 DEF SkipLock, LockGranted, LockReplyLost, LockHeld, LockError
<1>2. CASE CreateJob(s) BY <1>2 DEF CreateJob
<1>3. CASE CachePending(s) \/ CacheRunning(s) \/ CacheSuccess(s)
  BY <1>3 DEF CachePending, CacheRunning, CacheSuccess, CacheJob
<1>4. CASE PanicManual(s) BY <1>4 DEF PanicManual
<1>5. CASE MarkJobRunning(s) BY <1>5 DEF MarkJobRunning, NoteJobFault
<1>6. CASE MarkJobFailure(s) BY <1>6 DEF MarkJobFailure, NoteJobFault
<1>7. CASE CallML(s) \/ ReceiveResult(s) \/ ReceiveNothing(s) \/ CallFails(s)
  BY <1>7 DEF CallML, ReceiveResult, ReceiveNothing, CallFails
<1>8. CASE SaveLSIValue(s) BY <1>8 DEF SaveLSIValue
<1>9. CASE GetLatestLSI(s) \/ GetLatestFails(s) BY <1>9 DEF GetLatestLSI, GetLatestFails
<1>10. CASE MarkJobSuccess(s) BY <1>10 DEF MarkJobSuccess
<1>11. CASE ReleaseLock(s) \/ ReleaseLocal(s) BY <1>11 DEF ReleaseLock, ReleaseLocal
<1> QED
  BY <1>1, <1>2, <1>3, <1>4, <1>5, <1>6, <1>7, <1>8, <1>9, <1>10, <1>11 DEF Step

LEMMA NextEnd ==
  ASSUME TypeOK, JobInv, EndInv, [Next]_vars
  PROVE  EndInv'
<1>1. ASSUME NEW s \in Request, Step(s) PROVE EndInv'
  <2>1. CASE PanicScheduled(s) BY <2>1, KillEnd DEF PanicScheduled
  <2>2. CASE ~PanicScheduled(s)
    <3> SUFFICES ASSUME NEW r \in Request PROVE EndOf(r)'
      BY DEF EndInv
    <3>1. CASE r = s BY <1>1, <2>2, <3>1, StepEnds
    <3>2. CASE r # s BY <1>1, <2>2, <3>2, StepIsOwn, EndKept
    <3> QED BY <3>1, <3>2
  <2> QED BY <2>1, <2>2
<1>2. ASSUME NEW s \in Request, NEW b \in Backend, Enter(s, b) \/ Reject(s, b) PROVE EndInv'
  <2> SUFFICES ASSUME NEW r \in Request PROVE EndOf(r)'
    BY DEF EndInv
  <2>1. CASE r # s
    BY <1>2, <2>1, EndKept DEF Enter, Reject, Goto, Answer, jobVars, openVars, Noted, TypeOK
  <2>2. CASE r = s
    <3>1. job'[r] = "none"
      BY <1>2, <2>2 DEF Enter, Reject, jobVars, JobInv, JobAt, Starting
    <3> QED BY <3>1 DEF EndOf, Settled
  <2> QED BY <2>1, <2>2
<1>3. ASSUME NEW s \in Request, MLHandlerEnds(s) \/ CtxEnds(s) \/ JobCtxEnds(s) PROVE EndInv'
  <2> SUFFICES ASSUME NEW r \in Request PROVE EndOf(r)'
    BY DEF EndInv
  <2> QED BY <1>3, EndKept DEF MLHandlerEnds, CtxEnds, JobCtxEnds, jobVars, openVars, Noted
<1>4. CASE LockExpires BY <1>4 DEF LockExpires, jobVars, openVars, EndInv, EndOf, Settled
<1>5. ASSUME NEW b \in Backend, Crash(b) PROVE EndInv' BY <1>5, KillEnd DEF Crash
<1>6. CASE UNCHANGED vars BY <1>6 DEF vars, jobVars, openVars, EndInv, EndOf, Settled
<1> QED BY <1>1, <1>2, <1>3, <1>4, <1>5, <1>6 DEF Next

\* A run that came to its end with PostgreSQL answering and its context alive leaves its
\* row pending only if the jobCtx it shares with CreateJob ran out before the row was
\* marked running, and running only for that reason or for an answer without a dated
\* result (lsi_service.go:104-151).
THEOREM HealthyRunCloses == Spec => []HealthyRunClosesJob
<1>1. Init => EndInv BY DEF Init, EndInv, EndOf
<1>2. TypeOK /\ JobInv /\ EndInv /\ [Next]_vars => EndInv' BY NextEnd
<1>3. EndInv => HealthyRunClosesJob BY DEF EndInv, EndOf, Settled, HealthyRunClosesJob
<1> QED BY <1>1, <1>2, <1>3, JobCorrect, PTL DEF Spec
=============================================================================
