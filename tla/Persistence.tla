---------------------------- MODULE Persistence ----------------------------
(***************************************************************************)
(* What run_latest_recalculation of several ML handlers leaves behind: the *)
(* history backfill and the persist transaction, statement by statement    *)
(* with PostgreSQL's row locks, the shared lsi_dashboard.csv, and the      *)
(* backend's own upsert of the answer.                                     *)
(***************************************************************************)
EXTENDS Naturals, Sequences

CONSTANTS
  Handler,    \* threads of the server; one call of run_latest_recalculation each at a time
  Days,       \* number of dates in the wide dataset
  DateOf,     \* the date each one calculates for
  MaxFaults,  \* bound on failed transactions
  None        \* no row

Wide == 1..Days
Date == 1..(Days + 1)  \* a request may ask for a date the dataset does not have


Table == {"lsi", "signals", "contributions"}  \* SHAP values go with the contributions
Writer == Handler \X {"history", "own"}
Row == Writer \cup {None}

ASSUME PersistenceAssumption ==
  /\ Days \in Nat /\ MaxFaults \in Nat
  /\ DateOf \in [Handler -> Date]
  /\ None \notin Writer

VARIABLES
  pc,       \* the next step of each handler
  todo,     \* statements its transaction has still to make
  wrote,    \* rows its transaction has written and keeps locked
  seen,     \* the active flags its transaction found and deleted
  rows,     \* committed rows: who wrote them last
  flags,    \* committed active flags of a date: whose they are
  csv,      \* lsi_dashboard.csv: whose row each date has
  copy,     \* the file as a handler has read it
  faults,   \* failed transactions so far
  crowded,  \* history: handlers that were at work beside another
  excused   \* history: dates on which file and rows may differ

database == <<rows, flags>>
txVars == <<todo, wrote, seen>>
files == <<csv, copy>>
vars == <<pc, txVars, database, files, faults, crowded, excused>>

AtWork(h) == pc[h] # "idle"
Kind(h) == IF pc[h] = "backfill" THEN "history" ELSE "own"
Goto(h, place) == pc' = [pc EXCEPT ![h] = place]

Statement == (Table \cup {"flags"}) \X Date

TypeOK ==
  /\ pc \in [Handler -> {"idle", "history", "backfill", "parse", "read", "write", "persist",
                         "answer"}]
  /\ todo \in [Handler -> Seq(Statement)]
  /\ wrote \in [Handler -> SUBSET Statement]
  /\ seen \in [Handler -> [Date -> SUBSET Writer]]
  /\ rows \in [Table -> [Date -> Row]]
  /\ flags \in [Date -> SUBSET Writer]
  /\ csv \in [Date -> Row] /\ copy \in [Handler -> [Date -> Row]]
  /\ faults \in Nat
  /\ crowded \in SUBSET Handler /\ excused \in SUBSET Date

(***************************************************************************)
(* The statements of the two transactions, in their order.                 *)
(***************************************************************************)
\* Slip: BackfillPlan with the dates in descending order for a date beyond the dataset.
UnsortedPlan(h) ==
  LET order == <<"lsi", "signals", "flags", "contributions">>
      day(i) == ((i - 1) \div 4) + 1
  IN [i \in 1..(4 * Days) |->
        <<order[((i - 1) % 4) + 1], IF DateOf[h] \in Wide THEN day(i) ELSE Days + 1 - day(i)>>]

\* persist_lsi_history: date by date.
BackfillPlan(h) ==
  LET order == <<"lsi", "signals", "flags", "contributions">>
  IN [i \in 1..(4 * Days) |-> <<order[((i - 1) % 4) + 1], ((i - 1) \div 4) + 1>>]

\* Slip: PersistPlan that replaces the flags first.
FlagsFirst(h) ==
  LET order == <<"flags", "signals", "lsi", "contributions">>
  IN [i \in 1..4 |-> <<order[i], DateOf[h]>>]

\* _persist_to_db: the handler's own date.
PersistPlan(h) ==
  LET order == <<"signals", "lsi", "contributions", "flags">>
  IN [i \in 1..4 |-> <<order[i], DateOf[h]>>]

(***************************************************************************)
(* Row locks. A DELETE of flags sees, and locks, committed rows only; the  *)
(* INSERT after it meets no one else's rows.                               *)
(***************************************************************************)
Waits(h, g) ==
  /\ h # g
  /\ todo[h] # <<>>
  /\ Head(todo[h]) \in wrote[g] /\ Head(todo[h])[1] # "flags"
InCircle(h) == \E g \in Handler : Waits(h, g) /\ Waits(g, h)

After(h) == IF pc[h] = "backfill" THEN "parse" ELSE "answer"
Touched(h) == IF pc[h] = "backfill" THEN Wide ELSE {DateOf[h]}

EndTransaction(h) ==
  /\ todo' = [todo EXCEPT ![h] = <<>>]
  /\ wrote' = [wrote EXCEPT ![h] = {}]
  /\ seen' = [seen EXCEPT ![h] = [d \in Date |-> {}]]

(***************************************************************************)
(* Slips: each the action named, with one plausible mistake.               *)
(***************************************************************************)
\* Rollback that leaves the failed transaction open.
NoRollback(h) ==
  /\ pc[h] \in {"backfill", "persist"}
  /\ InCircle(h) \/ faults < MaxFaults
  /\ faults' = IF InCircle(h) THEN faults ELSE faults + 1
  /\ todo' = [todo EXCEPT ![h] = <<>>]
  /\ excused' = excused \cup Touched(h)
  /\ Goto(h, After(h))
  /\ UNCHANGED <<wrote, seen, database, files, crowded>>

\* WriteFile with keep="first".
KeepFirst(h) ==
  /\ pc[h] = "write"
  /\ csv' = [copy[h] EXCEPT ![DateOf[h]] = IF @ = None THEN <<h, "own">> ELSE @]
  /\ todo' = [todo EXCEPT ![h] = PersistPlan(h)]
  /\ Goto(h, "persist")
  /\ UNCHANGED <<wrote, seen, database, copy, faults, crowded, excused>>

\* Parse that goes on without a snapshot.
ParseToNowhere(h) ==
  /\ pc[h] = "parse"
  /\ Goto(h, "failed")
  /\ UNCHANGED <<txVars, database, files, faults, crowded, excused>>

Init ==
  /\ pc = [h \in Handler |-> "idle"]
  /\ todo = [h \in Handler |-> <<>>] /\ wrote = [h \in Handler |-> {}]
  /\ seen = [h \in Handler |-> [d \in Date |-> {}]]
  /\ rows = [t \in Table |-> [d \in Date |-> None]] /\ flags = [d \in Date |-> {}]
  /\ csv = [d \in Date |-> None] /\ copy = [h \in Handler |-> [d \in Date |-> None]]
  /\ faults = 0 /\ crowded = {} /\ excused = {}

(***************************************************************************)
(* One handler.                                                            *)
(***************************************************************************)
\* RecalculateLSI or the fallback of GetCurrentLSI, on a thread of its own.
Start(h) ==
  /\ pc[h] = "idle"
  /\ Goto(h, "history")
  /\ LET others == {g \in Handler : AtWork(g)}
     IN IF others = {} THEN UNCHANGED <<crowded, excused>>
        ELSE crowded' = crowded \cup others \cup {h} /\ excused' = Date
  /\ UNCHANGED <<txVars, database, files, faults>>

\* save_lsi_history_dashboard writes the whole file; an earlier error skips the backfill.
WriteHistory(h) ==
  /\ pc[h] = "history"
  /\ \/ /\ csv' = [d \in Date |-> IF d \in Wide THEN <<h, "history">> ELSE None]
        /\ todo' = [todo EXCEPT ![h] = BackfillPlan(h)]
        /\ Goto(h, "backfill")
     \/ Goto(h, "parse") /\ UNCHANGED <<csv, todo>>
  /\ UNCHANGED <<wrote, seen, database, copy, faults, crowded, excused>>

\* The next statement of the open transaction, once its row is free.
Execute(h) ==
  /\ pc[h] \in {"backfill", "persist"} /\ todo[h] # <<>>
  /\ \A g \in Handler : ~Waits(h, g)
  /\ LET s == Head(todo[h])
     IN /\ wrote' = [wrote EXCEPT ![h] = @ \cup {s}]
        /\ seen' = IF s[1] = "flags" THEN [seen EXCEPT ![h][s[2]] = flags[s[2]]] ELSE seen
  /\ todo' = [todo EXCEPT ![h] = Tail(@)]
  /\ UNCHANGED <<pc, database, files, faults, crowded, excused>>

Commit(h) ==
  /\ pc[h] \in {"backfill", "persist"} /\ todo[h] = <<>>
  /\ rows' = [t \in Table |-> [d \in Date |->
                IF <<t, d>> \in wrote[h] THEN <<h, Kind(h)>> ELSE rows[t][d]]]
  /\ flags' = [d \in Date |->
                IF <<"flags", d>> \in wrote[h]
                THEN (flags[d] \ seen[h][d]) \cup {<<h, Kind(h)>>} ELSE flags[d]]
  /\ excused' = IF h \in crowded THEN excused ELSE excused \ Touched(h)
  /\ EndTransaction(h)
  /\ Goto(h, After(h))
  /\ UNCHANGED <<files, faults, crowded>>

\* A statement fails, or PostgreSQL picks h to end a deadlock. Both callers log a warning
\* and go on.
Rollback(h) ==
  /\ pc[h] \in {"backfill", "persist"}
  /\ InCircle(h) \/ faults < MaxFaults
  /\ faults' = IF InCircle(h) THEN faults ELSE faults + 1
  /\ excused' = excused \cup Touched(h)
  /\ EndTransaction(h)
  /\ Goto(h, After(h))
  /\ UNCHANGED <<database, files, crowded>>

\* The parsers and the snapshot; an empty dataset or a formula error ends the call.
Parse(h) ==
  /\ pc[h] = "parse"
  /\ \/ Goto(h, "read") /\ UNCHANGED crowded
     \/ Goto(h, "idle") /\ crowded' = crowded \ {h}
  /\ UNCHANGED <<txVars, database, files, faults, excused>>

\* _save_csv_outputs reads the file, ...
ReadFile(h) ==
  /\ pc[h] = "read"
  /\ copy' = [copy EXCEPT ![h] = csv]
  /\ Goto(h, "write")
  /\ UNCHANGED <<txVars, database, csv, faults, crowded, excused>>

\* ... replaces the row of its date, keep="last", and writes it back.
WriteFile(h) ==
  /\ pc[h] = "write"
  /\ csv' = [copy[h] EXCEPT ![DateOf[h]] = <<h, "own">>]
  /\ todo' = [todo EXCEPT ![h] = PersistPlan(h)]
  /\ Goto(h, "persist")
  /\ UNCHANGED <<wrote, seen, database, copy, faults, crowded, excused>>

\* The backend's SaveLSIValue of the answer, or a caller that is gone.
Answer(h) ==
  /\ pc[h] = "answer"
  /\ \/ /\ \A g \in Handler \ {h} : <<"lsi", DateOf[h]>> \notin wrote[g]
        /\ rows' = [rows EXCEPT !["lsi"][DateOf[h]] = <<h, "own">>]
     \/ UNCHANGED rows
  /\ copy' = [copy EXCEPT ![h] = [d \in Date |-> None]]
  /\ Goto(h, "idle")
  /\ crowded' = crowded \ {h}
  /\ UNCHANGED <<txVars, flags, csv, faults, excused>>

Step(h) ==
  \/ WriteHistory(h) \/ Execute(h) \/ Commit(h) \/ Rollback(h) \/ Parse(h)
  \/ ReadFile(h) \/ WriteFile(h) \/ Answer(h)

Next == \E h \in Handler : Start(h) \/ Step(h)

Spec == Init /\ [][Next]_vars

\* A thread of the server runs on; PostgreSQL finds deadlocks and hands row locks on in the
\* order they were asked for, so that nobody waits for ever. Requests owe nothing.
FairSpec == Spec /\ \A h \in Handler : SF_vars(Step(h))

----------------------------------------------------------------------------
\* What PostgreSQL holds besides the LSI of a date comes from one calculation, and no flag
\* of another is left beside it, whatever handlers interleave: the flags are replaced by
\* DELETE and INSERT under the row locks the upserts before them have taken
\* (latest_recalculation.py:95-116, lsi_history.py:143-178).
DetailsOfOneWriter ==
  \A d \in Date :
    /\ rows["signals"][d] = rows["contributions"][d]
    /\ flags[d] = {rows["contributions"][d]} \ {None}

\* When nobody is at work, the CSV file that backtests read agrees with the stored history
\* on every date of the dataset, unless a transaction failed or handlers overlapped since
\* the date was last written by a handler alone.
FileAgreesWithRows ==
  (\A h \in Handler : ~AtWork(h)) =>
    \A d \in Wide \ excused : csv[d] = rows["lsi"][d]

\* Two transactions of the same kind never deadlock; a backfill and a persist may, as they
\* take lsi_values and module_signals in opposite orders.
SameKindNeverCircles ==
  \A h, g \in Handler : Waits(h, g) /\ Waits(g, h) => pc[h] # pc[g]

\* Every call of run_latest_recalculation ends, also one caught in a deadlock.
EveryCallEnds == \A h \in Handler : AtWork(h) ~> ~AtWork(h)
=============================================================================
