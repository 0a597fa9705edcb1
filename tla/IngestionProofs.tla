-------------------------- MODULE IngestionProofs --------------------------
(***************************************************************************)
(* Theorems about Ingestion for every number of runs, sources and faults.  *)
(***************************************************************************)
EXTENDS Ingestion, TLAPS

\* A run in the middle of a source is at one.
Inside == \A h \in Handler : pc[h] \in {"fetch", "status", "except"} => next[h] \in Source

\* A run holds rows of sources it has registered only.
LocksBehind ==
  \A h \in Handler : \A s \in locks[h] :
    s < next[h] \/ (s = next[h] /\ pc[h] \in {"fetch", "status", "except"})

\* What a run without a failed statement has done so far.
Undisturbed(h) ==
  /\ conn[h] \notin {"aborted", "closed"}
  /\ pc[h] # "stopped"
  /\ \A s \in Source : s < next[h] => results[h][s] = own[h][s] /\ own[h][s] # "none"
  /\ pc[h] = "status" => own[h][next[h]] = fetched[h]
  /\ pc[h] = "except" => own[h][next[h]] = "failed"
  /\ pc[h] = "end" => next[h] = N + 1
Isolated == \A h \in Handler \ faulted : Undisturbed(h)

Inv == TypeOK /\ Inside /\ LocksBehind /\ Isolated

LEMMA InitInv == Init => Inv
  BY IngestionAssumption DEF Init, Inv, TypeOK, Inside, LocksBehind, Isolated, Undisturbed, Source, Status

(***************************************************************************)
(* The four ways a statement goes, as far as the other lemmas need them.   *)
(***************************************************************************)
DatabaseType ==
  /\ conn \in [Handler -> {"none", "open", "aborted", "broken", "closed"}]
  /\ locks \in [Handler -> SUBSET Source]
  /\ faults \in Nat
  /\ faulted \in SUBSET Handler

\* A statement that is skipped or succeeds.
Succeeds(h) == Skipped(h) \/ Updates(h)

LEMMA FailsType ==
  ASSUME NEW h \in Handler, DatabaseType, Fails(h)
  PROVE  /\ DatabaseType'
         /\ locks'[h] = {} /\ h \in faulted' /\ faulted \subseteq faulted'
         /\ \A g \in Handler : g # h => locks'[g] = locks[g] /\ conn'[g] = conn[g]
  BY DEF DatabaseType, Fails, Live

LEMMA SucceedsType ==
  ASSUME NEW h \in Handler, DatabaseType, Succeeds(h)
  PROVE  /\ DatabaseType'
         /\ locks' = locks /\ faulted' = faulted
         /\ conn'[h] \in {"none", "open"}
         /\ \A g \in Handler : g # h => conn'[g] = conn[g]
  BY DEF DatabaseType, Succeeds, Skipped, Updates, Live, database

LEMMA UpsertsType ==
  ASSUME NEW h \in Handler, DatabaseType, Upserts(h, next[h]), next[h] \in Source
  PROVE  /\ DatabaseType'
         /\ faulted' = faulted
         /\ conn'[h] = "open" /\ locks'[h] = locks[h] \cup {next[h]}
         /\ \A g \in Handler : g # h => locks'[g] = locks[g] /\ conn'[g] = conn[g]
  BY DEF DatabaseType, Upserts, Live

LEMMA AppendType ==
  ASSUME NEW h \in Handler, NEW status \in Status, TypeOK, next[h] \in Source, Append(h, status)
  PROVE  /\ results' \in [Handler -> [Source -> Status \cup {"none"}]]
         /\ next' \in [Handler -> 1..(N + 1)]
         /\ next'[h] = next[h] + 1 /\ pc'[h] = "register"
         /\ results'[h][next[h]] = status
         /\ \A s \in Source : s # next[h] => results'[h][s] = results[h][s]
         /\ pc' = [pc EXCEPT ![h] = "register"]
         /\ \A g \in Handler : g # h =>
              results'[g] = results[g] /\ next'[g] = next[g] /\ pc'[g] = pc[g]
  BY IngestionAssumption DEF Append, Goto, TypeOK, Source

(***************************************************************************)
(* A step of one run: the invariant at that run is enough.                 *)
(***************************************************************************)
InvAt(h) ==
  /\ pc[h] \in {"fetch", "status", "except"} => next[h] \in Source
  /\ \A s \in locks[h] :
       s < next[h] \/ (s = next[h] /\ pc[h] \in {"fetch", "status", "except"})
  /\ h \notin faulted => Undisturbed(h)

Untouched(g) ==
  /\ pc'[g] = pc[g] /\ next'[g] = next[g] /\ conn'[g] = conn[g] /\ locks'[g] = locks[g]
  /\ fetched'[g] = fetched[g] /\ results'[g] = results[g] /\ own'[g] = own[g]

LEMMA OneRun ==
  ASSUME NEW h \in Handler, Inv, TypeOK', InvAt(h)', faulted \subseteq faulted',
         \A g \in Handler : g # h => Untouched(g)
  PROVE  Inv'
<1>1. Inside' BY DEF Inv, Inside, InvAt, Untouched
<1>2. LocksBehind' BY DEF Inv, LocksBehind, InvAt, Untouched
<1>3. Isolated'
  <2> SUFFICES ASSUME NEW g \in Handler, g \notin faulted' PROVE Undisturbed(g)' BY DEF Isolated
  <2>1. CASE g = h BY <2>1 DEF InvAt
  <2>2. CASE g # h
    <3>1. Undisturbed(g) BY DEF Inv, Isolated
    <3> QED BY <2>2, <3>1 DEF Undisturbed, Untouched
  <2> QED BY <2>1, <2>2
<1> QED BY <1>1, <1>2, <1>3 DEF Inv

LEMMA AppendInv ==
  ASSUME NEW h \in Handler, NEW status \in Status, Inv, Succeeds(h),
         pc[h] \in {"status", "except"}, Append(h, status),
         h \notin faulted => own[h][next[h]] = status,
         UNCHANGED <<fetched, up, own>>
  PROVE  Inv'
<1>1. TypeOK /\ next[h] \in Source /\ DatabaseType BY DEF Inv, TypeOK, Inside, DatabaseType
<1>2. DatabaseType' /\ locks' = locks /\ faulted' = faulted /\ conn'[h] \in {"none", "open"}
      /\ \A g \in Handler : g # h => conn'[g] = conn[g]
  BY <1>1, SucceedsType
<1>3. /\ results' \in [Handler -> [Source -> Status \cup {"none"}]]
      /\ next' \in [Handler -> 1..(N + 1)]
      /\ next'[h] = next[h] + 1 /\ pc'[h] = "register"
      /\ results'[h][next[h]] = status
      /\ \A s \in Source : s # next[h] => results'[h][s] = results[h][s]
      /\ pc' = [pc EXCEPT ![h] = "register"]
      /\ \A g \in Handler : g # h =>
           results'[g] = results[g] /\ next'[g] = next[g] /\ pc'[g] = pc[g]
  BY <1>1, AppendType
<1>4. TypeOK' BY <1>1, <1>2, <1>3 DEF TypeOK, DatabaseType
<1>5. ASSUME NEW s \in locks'[h] PROVE s < next'[h]
  <2>1. s \in locks[h] /\ s \in Source /\ next[h] \in Nat BY <1>1, <1>2, <1>5, IngestionAssumption DEF TypeOK, Source
  <2>2. s \in Nat BY <2>1, IngestionAssumption DEF Source
  <2>3. s <= next[h] BY <2>1, <2>2 DEF Inv, LocksBehind
  <2> QED BY <2>1, <2>2, <2>3, <1>3
<1>6. ASSUME h \notin faulted' PROVE Undisturbed(h)'
  <2>1. Undisturbed(h) /\ own[h][next[h]] = status BY <1>2, <1>6 DEF Inv, Isolated
  <2>2. ASSUME NEW s \in Source, s < next'[h] PROVE results'[h][s] = own'[h][s] /\ own'[h][s] # "none"
    <3>1. s < next[h] \/ s = next[h] BY <1>1, <1>3, <2>2, IngestionAssumption DEF Source
    <3>2. CASE s = next[h] BY <1>3, <2>1, <3>2 DEF Status
    <3>3. CASE s < next[h] /\ s # next[h] BY <1>3, <2>1, <3>3 DEF Undisturbed
    <3> QED BY <3>1, <3>2, <3>3
  <2> QED BY <1>2, <1>3, <2>2 DEF Undisturbed
<1>7. InvAt(h)' BY <1>3, <1>5, <1>6 DEF InvAt
<1>8. \A g \in Handler : g # h => Untouched(g) BY <1>2, <1>3 DEF Untouched
<1> QED BY <1>2, <1>4, <1>7, <1>8, OneRun

\* A failed statement excuses its run from Undisturbed and drops its rows.
LEMMA FailInv ==
  ASSUME NEW h \in Handler, NEW place \in {"except", "stopped"}, Inv, Fails(h), Goto(h, place),
         \/ pc[h] = "register" /\ next[h] \in Source
         \/ pc[h] \in {"status", "except"},
         results' = results \/ results' = [results EXCEPT ![h] = [s \in Source |-> "none"]],
         UNCHANGED <<next, fetched, up, own>>
  PROVE  Inv'
<1>1. TypeOK /\ DatabaseType /\ next[h] \in Source BY DEF Inv, TypeOK, Inside, DatabaseType
<1>2. /\ DatabaseType' /\ locks'[h] = {} /\ h \in faulted' /\ faulted \subseteq faulted'
      /\ \A g \in Handler : g # h => locks'[g] = locks[g] /\ conn'[g] = conn[g]
  BY <1>1, FailsType
<1>3. TypeOK'
  <2>1. pc' \in [Handler -> {"start", "register", "fetch", "status", "except", "end", "stopped"}]
    BY <1>1 DEF TypeOK, Goto
  <2>2. results' \in [Handler -> [Source -> Status \cup {"none"}]]
    <3>1. [s \in Source |-> "none"] \in [Source -> Status \cup {"none"}] OBVIOUS
    <3>2. results \in [Handler -> [Source -> Status \cup {"none"}]] BY <1>1 DEF TypeOK
    <3> QED BY <3>1, <3>2, Zenon
  <2> QED BY <1>1, <1>2, <2>1, <2>2 DEF TypeOK, DatabaseType
<1>4. InvAt(h)' BY <1>1, <1>2 DEF InvAt
<1>5. \A g \in Handler : g # h => Untouched(g) BY <1>1, <1>2 DEF Untouched, TypeOK, Goto
<1> QED BY <1>2, <1>3, <1>4, <1>5, OneRun

LEMMA RegisterInv == ASSUME NEW h \in Handler, Inv, Register(h) PROVE Inv'
<1>1. TypeOK /\ DatabaseType /\ next[h] \in Source BY DEF Inv, TypeOK, Register, DatabaseType
<1>2. CASE Fails(h) /\ Goto(h, "except") BY <1>2, <1>1, FailInv DEF Register
<1>3. CASE (Skipped(h) \/ Upserts(h, next[h])) /\ Goto(h, "fetch")
  <2>1. /\ DatabaseType' /\ faulted' = faulted /\ conn'[h] \in {"none", "open"}
        /\ locks'[h] \in {locks[h], locks[h] \cup {next[h]}}
        /\ \A g \in Handler : g # h => locks'[g] = locks[g] /\ conn'[g] = conn[g]
    <3>1. CASE Skipped(h) BY <3>1, <1>1 DEF Skipped, database, DatabaseType
    <3>2. CASE Upserts(h, next[h]) BY <3>2, <1>1, UpsertsType
    <3> QED BY <1>3, <3>1, <3>2
  <2>2. pc' = [pc EXCEPT ![h] = "fetch"] /\ UNCHANGED <<next, fetched, results, up, own>>
    BY <1>3 DEF Register, Goto
  <2>3. TypeOK' BY <1>1, <2>1, <2>2 DEF TypeOK, DatabaseType
  <2>4. \A s \in locks'[h] : s < next'[h] \/ s = next'[h]
    BY <2>1, <2>2 DEF Inv, LocksBehind
  <2>5. h \notin faulted' => Undisturbed(h)'
    <3> SUFFICES ASSUME h \notin faulted PROVE Undisturbed(h)' BY <2>1
    <3>1. Undisturbed(h) BY DEF Inv, Isolated
    <3> QED BY <1>1, <2>1, <2>2, <3>1 DEF Undisturbed, TypeOK
  <2>6. InvAt(h)' BY <1>1, <2>2, <2>4, <2>5 DEF InvAt, TypeOK
  <2>7. \A g \in Handler : g # h => Untouched(g) BY <1>1, <2>1, <2>2 DEF Untouched, TypeOK
  <2> QED BY <2>1, <2>3, <2>6, <2>7, OneRun
<1> QED BY <1>2, <1>3 DEF Register

LEMMA FetchInv == ASSUME NEW h \in Handler, Inv, Fetch(h) PROVE Inv'
<1>1. TypeOK /\ next[h] \in Source /\ next[h] \in Nat
  BY IngestionAssumption DEF Inv, Fetch, Inside, Source
<1>2. PICK status \in Status :
        /\ fetched' = [fetched EXCEPT ![h] = status]
        /\ own' = [own EXCEPT ![h][next[h]] = status]
        /\ pc' = [pc EXCEPT ![h] = IF status = "failed" THEN "except" ELSE "status"]
  BY DEF Fetch, Goto
<1>3. UNCHANGED <<next, conn, locks, faulted, results, up, faults>> /\ pc[h] = "fetch"
  BY DEF Fetch, database
<1>4. TypeOK' BY <1>1, <1>2, <1>3 DEF TypeOK
<1>5. /\ own'[h][next[h]] = status /\ fetched'[h] = status
      /\ \A s \in Source : s # next[h] => own'[h][s] = own[h][s]
  BY <1>1, <1>2 DEF TypeOK
<1>6. h \notin faulted' => Undisturbed(h)'
  <2> SUFFICES ASSUME h \notin faulted PROVE Undisturbed(h)' BY <1>3
  <2>1. Undisturbed(h) BY DEF Inv, Isolated
  <2>2. \A s \in Source : s < next'[h] => s # next[h] BY <1>1, <1>3
  <2> QED BY <1>1, <1>2, <1>3, <1>5, <2>1, <2>2 DEF Undisturbed, TypeOK
<1>7. InvAt(h)' BY <1>1, <1>2, <1>3, <1>6 DEF InvAt, Inv, LocksBehind, TypeOK
<1>8. \A g \in Handler : g # h => Untouched(g) BY <1>1, <1>2, <1>3 DEF Untouched, TypeOK
<1> QED BY <1>3, <1>4, <1>7, <1>8, OneRun

LEMMA CloseInv == ASSUME NEW h \in Handler, Inv, Close(h) PROVE Inv'
<1>1. TypeOK BY DEF Inv
<1>2. TypeOK' BY <1>1 DEF TypeOK, Close, Goto
<1>3. h \notin faulted' => Undisturbed(h)'
  BY <1>1 DEF Inv, Isolated, Undisturbed, Close, Goto, TypeOK
<1>4. InvAt(h)' BY <1>1, <1>3 DEF InvAt, Close, Goto, TypeOK
<1>5. \A g \in Handler : g # h => Untouched(g) BY <1>1 DEF Untouched, TypeOK, Close, Goto
<1> QED BY <1>2, <1>4, <1>5, OneRun DEF Close

LEMMA ConnectInv == ASSUME NEW h \in Handler, Inv, Connect(h) PROVE Inv'
<1>1. TypeOK BY DEF Inv
<1>2. TypeOK' BY <1>1 DEF TypeOK, Connect, Goto
<1>3. h \notin faulted' => Undisturbed(h)'
  BY <1>1 DEF Inv, Isolated, Undisturbed, Connect, Goto, TypeOK
<1>4. InvAt(h)' BY <1>1, <1>3 DEF Inv, LocksBehind, InvAt, Connect, Goto, TypeOK
<1>5. \A g \in Handler : g # h => Untouched(g) BY <1>1 DEF Untouched, TypeOK, Connect, Goto
<1> QED BY <1>2, <1>4, <1>5, OneRun DEF Connect

(***************************************************************************)
(* All steps.                                                              *)
(***************************************************************************)
LEMMA NextInv == Inv /\ [Next]_vars => Inv'
<1> SUFFICES ASSUME Inv, [Next]_vars PROVE Inv' OBVIOUS
<1>1. ASSUME NEW h \in Handler, Step(h) PROVE Inv'
  <2>1. CASE Connect(h) \/ Register(h) \/ Fetch(h) \/ Close(h)
    BY <2>1, ConnectInv, RegisterInv, FetchInv, CloseInv
  <2>2. CASE UpdateStatus(h)
    <3>1. CASE Fails(h) /\ Goto(h, "except") /\ UNCHANGED <<next, results>>
      BY <2>2, <3>1, FailInv DEF UpdateStatus
    <3>2. CASE (Skipped(h) \/ Updates(h)) /\ Append(h, fetched[h])
      <4>1. fetched[h] \in Status BY DEF Inv, TypeOK
      <4>2. h \notin faulted => own[h][next[h]] = fetched[h]
        BY <2>2 DEF Inv, Isolated, Undisturbed, UpdateStatus
      <4> QED BY <2>2, <3>2, <4>1, <4>2, AppendInv DEF UpdateStatus, Succeeds
    <3> QED BY <2>2, <3>1, <3>2 DEF UpdateStatus
  <2>3. CASE Except(h)
    <3>1. "failed" \in Status BY DEF Status
    <3>2. h \notin faulted => own[h][next[h]] = "failed"
      BY <2>3 DEF Inv, Isolated, Undisturbed, Except
    <3> QED BY <2>3, <3>1, <3>2, AppendInv DEF Except, Succeeds
  <2>4. CASE Escape(h) BY <2>4, FailInv DEF Escape
  <2> QED BY <1>1, <2>1, <2>2, <2>3, <2>4 DEF Step
<1>2. CASE GoDown
  <2>1. TypeOK'
    <3>1. conn' \in [Handler -> {"none", "open", "aborted", "broken", "closed"}]
      BY <1>2 DEF Inv, TypeOK, GoDown
    <3>2. locks' \in [Handler -> SUBSET Source] BY <1>2 DEF GoDown
    <3>3. up' \in BOOLEAN BY <1>2, Zenon DEF GoDown
    <3>4. faults \in Nat /\ faults' = faults + 1 BY <1>2, Zenon DEF Inv, TypeOK, GoDown
    <3>5. faults' \in Nat BY <3>4
    <3> QED BY <1>2, <3>1, <3>2, <3>3, <3>5 DEF Inv, TypeOK, GoDown
  <2>2. Inside' /\ LocksBehind' BY <1>2 DEF Inv, Inside, LocksBehind, GoDown, TypeOK
  <2>3. Isolated' BY <1>2 DEF Inv, Isolated, Undisturbed, GoDown, TypeOK
  <2> QED BY <2>1, <2>2, <2>3 DEF Inv
<1>3. CASE ComeBack \/ UNCHANGED vars
  <2>1. UNCHANGED <<pc, next, conn, locks, faulted, fetched, results, faults, own>> /\ up' \in BOOLEAN
    BY <1>3 DEF Inv, TypeOK, ComeBack, vars, database
  <2>2. TypeOK' BY <2>1 DEF Inv, TypeOK
  <2>3. Inside' /\ LocksBehind' BY <2>1 DEF Inv, Inside, LocksBehind
  <2>4. Isolated' BY <2>1 DEF Inv, Isolated, Undisturbed
  <2> QED BY <2>2, <2>3, <2>4 DEF Inv
<1> QED BY <1>1, <1>2, <1>3 DEF Next

LEMMA InvCorrect == Spec => []Inv
<1> QED BY InitInv, NextInv, PTL DEF Spec

(***************************************************************************)
(* What follows.                                                           *)
(***************************************************************************)
\* Types: next never runs past the list, whatever fails.
THEOREM IngestionTypes == Spec => []TypeOK
<1>1. Inv => TypeOK BY DEF Inv
<1> QED BY <1>1, InvCorrect, PTL

\* Any number of runs, over any number of sources, never wait in a circle for rows of
\* data_sources (base_parser.py:118-123 and the transaction nothing commits).
THEOREM NoDeadlock == Spec => []NoWaitCycle
<1>1. Inv => NoWaitCycle
  <2> SUFFICES ASSUME Inv, NEW h \in Handler, NEW g \in Handler, NEW k \in Handler,
                      Waits(h, g), Waits(g, k)
               PROVE  next[h] < next[g]
    BY DEF NoWaitCycle
  <2>1. next[h] \in locks[g] /\ pc[g] = "register" BY DEF Waits
  <2> QED BY <2>1 DEF Inv, LocksBehind
<1> QED BY <1>1, InvCorrect, PTL

\* A run none of whose statements failed reports every source, each by its own parser's
\* outcome (base_parser.py:109-135).
THEOREM Isolation == Spec => []SourceIsolation
<1>1. Inv => SourceIsolation
  <2> SUFFICES ASSUME Inv, NEW h \in Handler \ faulted
               PROVE  /\ pc[h] # "stopped"
                      /\ pc[h] = "end" =>
                           results[h] = own[h] /\ \A s \in Source : results[h][s] # "none"
    BY DEF SourceIsolation
  <2>1. Undisturbed(h) BY DEF Inv, Isolated
  <2>2. pc[h] = "end" => \A s \in Source : results[h][s] = own[h][s] /\ own[h][s] # "none"
    BY <2>1, IngestionAssumption DEF Undisturbed, Source
  <2>3. results[h] \in [Source -> Status \cup {"none"}] /\ own[h] \in [Source -> Status \cup {"none"}]
    BY DEF Inv, TypeOK
  <2> QED BY <2>1, <2>2, <2>3 DEF Undisturbed
<1> QED BY <1>1, InvCorrect, PTL
=============================================================================
