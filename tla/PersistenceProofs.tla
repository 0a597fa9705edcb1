------------------------- MODULE PersistenceProofs -------------------------
(***************************************************************************)
(* Theorems about Persistence for any number of handlers, dates and failed *)
(* transactions.                                                           *)
(***************************************************************************)
EXTENDS Persistence, SequenceTheorems, TLAPS

InTransaction(h) == pc[h] \in {"backfill", "persist"}

\* The statements of the transaction at a place of the code, and their number.
PlanAt(h, place) == IF place = "backfill" THEN BackfillPlan(h) ELSE PersistPlan(h)
LengthAt(place) == IF place = "backfill" THEN 4 * Days ELSE 4

(***************************************************************************)
(* The two plans. The index of a statement of the backfill is written as   *)
(* 4 * (d - 1) + j, its date and its place among the four of the date.     *)
(***************************************************************************)
LEMMA BackfillIndex ==
  ASSUME NEW i \in 1..(4 * Days)
  PROVE  \E d \in Wide, j \in 1..4 : i = 4 * (d - 1) + j
<1> DEFINE d == ((i - 1) \div 4) + 1
           j == ((i - 1) % 4) + 1
<1>1. Days \in Nat BY PersistenceAssumption
<1>2. d \in Wide BY <1>1 DEF Wide
<1>3. j \in 1..4 /\ i = 4 * (d - 1) + j BY <1>1
<1> QED BY <1>2, <1>3

LEMMA BackfillAt ==
  ASSUME NEW h, NEW d \in Wide
  PROVE  /\ BackfillPlan(h)[4 * (d - 1) + 1] = <<"lsi", d>>
         /\ BackfillPlan(h)[4 * (d - 1) + 2] = <<"signals", d>>
         /\ BackfillPlan(h)[4 * (d - 1) + 3] = <<"flags", d>>
         /\ BackfillPlan(h)[4 * (d - 1) + 4] = <<"contributions", d>>
<1>1. Days \in Nat BY PersistenceAssumption
<1> DEFINE order == <<"lsi", "signals", "flags", "contributions">>
<1>2. ASSUME NEW j \in 1..4
      PROVE  BackfillPlan(h)[4 * (d - 1) + j] = <<order[j], d>>
  <2> DEFINE i == 4 * (d - 1) + j
  <2>1. i \in 1..(4 * Days) BY <1>1 DEF Wide
  <2>2. BackfillPlan(h)[i] = <<order[((i - 1) % 4) + 1], ((i - 1) \div 4) + 1>>
    BY <2>1 DEF BackfillPlan
  <2>3. ((i - 1) % 4) + 1 = j BY <1>1 DEF Wide
  <2>4. ((i - 1) \div 4) + 1 = d BY <1>1 DEF Wide
  <2> HIDE DEF i, order
  <2>5. BackfillPlan(h)[i] = <<order[j], d>> BY <2>2, <2>3, <2>4
  <2> QED BY <2>5 DEF i
<1>3. \A j \in 1..4 : BackfillPlan(h)[4 * (d - 1) + j] = <<order[j], d>>
  BY <1>2
<1>4. 1 \in 1..4 /\ 2 \in 1..4 /\ 3 \in 1..4 /\ 4 \in 1..4
  OBVIOUS
<1>5. order[1] = "lsi" /\ order[2] = "signals" /\ order[3] = "flags" /\ order[4] = "contributions"
  OBVIOUS
<1> HIDE DEF order
<1> QED BY <1>3, <1>4, <1>5

LEMMA PersistAt ==
  ASSUME NEW h
  PROVE  /\ PersistPlan(h)[1] = <<"signals", DateOf[h]>>
         /\ PersistPlan(h)[2] = <<"lsi", DateOf[h]>>
         /\ PersistPlan(h)[3] = <<"contributions", DateOf[h]>>
         /\ PersistPlan(h)[4] = <<"flags", DateOf[h]>>
BY DEF PersistPlan

LEMMA PersistIndex ==
  ASSUME NEW i \in 1..4
  PROVE  i = 1 \/ i = 2 \/ i = 3 \/ i = 4
OBVIOUS

LEMMA LengthType == ASSUME NEW place PROVE LengthAt(place) \in Nat
BY PersistenceAssumption DEF LengthAt

LEMMA StatementType ==
  ASSUME NEW t \in {"lsi", "signals", "contributions", "flags"}, NEW d \in Date
  PROVE  <<t, d>> \in Statement
BY DEF Statement, Table

LEMMA PlanIsSeq ==
  ASSUME NEW h \in Handler, NEW place
  PROVE  /\ PlanAt(h, place) \in Seq(Statement)
         /\ Len(PlanAt(h, place)) = LengthAt(place)
         /\ \A i \in 1..LengthAt(place) : PlanAt(h, place)[i] \in Statement
<1>1. \A i \in 1..LengthAt(place) : PlanAt(h, place)[i] \in Statement
  <2>1. ASSUME place = "backfill", NEW i \in 1..(4 * Days)
        PROVE  BackfillPlan(h)[i] \in Statement
    <3>1. PICK d \in Wide, j \in 1..4 : i = 4 * (d - 1) + j BY BackfillIndex
    <3>2. d \in Date BY PersistenceAssumption DEF Wide, Date
    <3>3. j = 1 \/ j = 2 \/ j = 3 \/ j = 4 BY PersistIndex
    <3>4. PICK t \in {"lsi", "signals", "contributions", "flags"} : BackfillPlan(h)[i] = <<t, d>>
      BY <3>1, <3>3, BackfillAt
    <3> QED BY <3>2, <3>4, StatementType
  <2>2. ASSUME NEW i \in 1..4 PROVE PersistPlan(h)[i] \in Statement
    <3>1. DateOf[h] \in Date BY PersistenceAssumption
    <3>2. i = 1 \/ i = 2 \/ i = 3 \/ i = 4 BY PersistIndex
    <3>3. PICK t \in {"lsi", "signals", "contributions", "flags"} :
            PersistPlan(h)[i] = <<t, DateOf[h]>>
      BY <3>2, PersistAt
    <3> QED BY <3>1, <3>3, StatementType
  <2> QED BY <2>1, <2>2 DEF PlanAt, LengthAt
<1>2. DOMAIN PlanAt(h, place) = 1..LengthAt(place)
      /\ PlanAt(h, place) = [i \in DOMAIN PlanAt(h, place) |-> PlanAt(h, place)[i]]
  BY DEF PlanAt, LengthAt, BackfillPlan, PersistPlan
<1>3. PlanAt(h, place) \in [1..LengthAt(place) -> Statement]
  BY <1>1, <1>2
<1> QED BY <1>1, <1>3, LengthType

\* No statement is made twice.
LEMMA PlanOnce ==
  ASSUME NEW h, NEW place, NEW i \in 1..LengthAt(place), NEW j \in 1..LengthAt(place),
         PlanAt(h, place)[i] = PlanAt(h, place)[j]
  PROVE  i = j
<1>1. CASE place = "backfill"
  <2>1. PICK d \in Wide, k \in 1..4 : i = 4 * (d - 1) + k
    BY <1>1, BackfillIndex DEF LengthAt
  <2>2. PICK e \in Wide, l \in 1..4 : j = 4 * (e - 1) + l
    BY <1>1, BackfillIndex DEF LengthAt
  <2>3. BackfillPlan(h)[i] = BackfillPlan(h)[j] BY <1>1 DEF PlanAt
  <2>4. (k = 1 \/ k = 2 \/ k = 3 \/ k = 4) /\ (l = 1 \/ l = 2 \/ l = 3 \/ l = 4)
    BY PersistIndex
  <2>5. d = e /\ k = l BY <2>1, <2>2, <2>3, <2>4, BackfillAt
  <2> QED BY <2>1, <2>2, <2>5
<1>2. CASE place # "backfill"
  <2>1. i \in 1..4 /\ j \in 1..4 /\ PersistPlan(h)[i] = PersistPlan(h)[j]
    BY <1>2 DEF PlanAt, LengthAt
  <2>2. (i = 1 \/ i = 2 \/ i = 3 \/ i = 4) /\ (j = 1 \/ j = 2 \/ j = 3 \/ j = 4)
    BY <2>1, PersistIndex
  <2> QED BY <2>1, <2>2, PersistAt
<1> QED BY <1>1, <1>2

\* The flags of a date are replaced after its signals have been written.
LEMMA SignalsBeforeFlags ==
  ASSUME NEW h, NEW place, NEW i \in 1..LengthAt(place), NEW d,
         PlanAt(h, place)[i] = <<"flags", d>>
  PROVE  \E j \in 1..(i - 1) : PlanAt(h, place)[j] = <<"signals", d>>
<1>1. CASE place = "backfill"
  <2>1. PICK e \in Wide, k \in 1..4 : i = 4 * (e - 1) + k
    BY <1>1, BackfillIndex DEF LengthAt
  <2>2. k = 1 \/ k = 2 \/ k = 3 \/ k = 4 BY PersistIndex
  <2>3. BackfillPlan(h)[i] = <<"flags", d>> BY <1>1 DEF PlanAt
  <2>4. k = 3 /\ e = d BY <2>1, <2>2, <2>3, BackfillAt
  <2>5. BackfillPlan(h)[i - 1] = <<"signals", d>> /\ i - 1 \in 1..(i - 1)
    BY <2>1, <2>4, BackfillAt DEF Wide
  <2> QED BY <1>1, <2>5 DEF PlanAt
<1>2. CASE place # "backfill"
  <2>1. i \in 1..4 /\ PersistPlan(h)[i] = <<"flags", d>>
    BY <1>2 DEF PlanAt, LengthAt
  <2>2. i = 1 \/ i = 2 \/ i = 3 \/ i = 4 BY <2>1, PersistIndex
  <2>3. i = 4 /\ d = DateOf[h] BY <2>1, <2>2, PersistAt
  <2>4. PersistPlan(h)[1] = <<"signals", d>> /\ 1 \in 1..(i - 1) BY <2>3, PersistAt
  <2> QED BY <1>2, <2>4 DEF PlanAt
<1> QED BY <1>1, <1>2

\* Whoever writes one of the three tables of a date writes all three.
Includes(h, place, s) == \E i \in 1..LengthAt(place) : PlanAt(h, place)[i] = s

LEMMA DetailsTogether ==
  ASSUME NEW h, NEW place, NEW d
  PROVE  /\ Includes(h, place, <<"signals", d>>) <=> Includes(h, place, <<"contributions", d>>)
         /\ Includes(h, place, <<"signals", d>>) <=> Includes(h, place, <<"flags", d>>)
<1>1. CASE place = "backfill"
  <2>1. ASSUME NEW t \in {"signals", "flags", "contributions"},
               Includes(h, place, <<t, d>>)
        PROVE  d \in Wide
    <3>1. PICK i \in 1..(4 * Days) : BackfillPlan(h)[i] = <<t, d>>
      BY <1>1, <2>1 DEF Includes, PlanAt, LengthAt
    <3>2. PICK e \in Wide, k \in 1..4 : i = 4 * (e - 1) + k BY BackfillIndex
    <3>3. k = 1 \/ k = 2 \/ k = 3 \/ k = 4 BY PersistIndex
    <3> QED BY <3>1, <3>2, <3>3, BackfillAt
  <2>2. ASSUME d \in Wide, NEW t \in {"signals", "flags", "contributions"}
        PROVE  Includes(h, place, <<t, d>>)
    <3>1. \A k \in 1..4 : 4 * (d - 1) + k \in 1..(4 * Days)
      BY <2>2, PersistenceAssumption DEF Wide
    <3>2. \E i \in 1..(4 * Days) : BackfillPlan(h)[i] = <<t, d>>
      BY <2>2, <3>1, BackfillAt
    <3> QED BY <1>1, <3>2 DEF Includes, PlanAt, LengthAt
  <2> QED BY <2>1, <2>2
<1>2. CASE place # "backfill"
  BY <1>2, PersistAt, PersistIndex DEF Includes, PlanAt, LengthAt
<1> QED BY <1>1, <1>2

\* Two transactions of one kind that share a statement have one plan.
LEMMA SamePlan ==
  ASSUME NEW h, NEW g, NEW place, NEW i \in 1..LengthAt(place), NEW j \in 1..LengthAt(place),
         PlanAt(h, place)[i] = PlanAt(g, place)[j]
  PROVE  PlanAt(h, place) = PlanAt(g, place)
<1>1. CASE place = "backfill" BY <1>1 DEF PlanAt, BackfillPlan
<1>2. CASE place # "backfill"
  <2>1. PersistPlan(h)[i] = PersistPlan(g)[j] /\ i \in 1..4 /\ j \in 1..4
    BY <1>2 DEF PlanAt, LengthAt
  <2>2. DateOf[h] = DateOf[g]
    BY <2>1, PersistAt, PersistIndex
  <2> QED BY <1>2, <2>2 DEF PlanAt, PersistPlan
<1> QED BY <1>1, <1>2

(***************************************************************************)
(* Type correctness.                                                       *)
(***************************************************************************)
LEMMA StepType ==
  ASSUME TypeOK, NEW h \in Handler, Start(h) \/ Step(h)
  PROVE  TypeOK'
<1> USE DEF Goto, database, txVars, files
<1>1. CASE Start(h) BY <1>1 DEF Start, TypeOK
<1>2. CASE WriteHistory(h)
  <2>1. BackfillPlan(h) \in Seq(Statement) BY PlanIsSeq DEF PlanAt
  <2>2. csv' \in [Date -> Row] /\ todo' \in [Handler -> Seq(Statement)]
    BY <1>2, <2>1 DEF WriteHistory, TypeOK, Row, Writer
  <2>3. pc' \in [Handler -> {"idle", "history", "backfill", "parse", "read",
                               "write", "persist", "answer"}]
    BY <1>2 DEF WriteHistory, TypeOK
  <2> QED BY <1>2, <2>2, <2>3 DEF WriteHistory, TypeOK
<1>3. CASE Execute(h)
  <2>1. Head(todo[h]) \in Statement /\ Tail(todo[h]) \in Seq(Statement)
    BY <1>3, HeadTailProperties DEF Execute, TypeOK
  <2>2. PICK t \in Table \cup {"flags"}, d \in Date : Head(todo[h]) = <<t, d>>
    BY <2>1 DEF Statement
  <2>3. wrote' \in [Handler -> SUBSET Statement] BY <1>3, <2>1 DEF Execute, TypeOK
  <2>4. todo' \in [Handler -> Seq(Statement)] BY <1>3, <2>1 DEF Execute, TypeOK
  <2>5. seen' = seen \/ seen' = [seen EXCEPT ![h] = [seen[h] EXCEPT ![d] = flags[d]]]
    <3>1. Head(todo[h])[1] = t /\ Head(todo[h])[2] = d BY <2>2
    <3>2. CASE t = "flags" BY <1>3, <3>1, <3>2 DEF Execute
    <3>3. CASE t # "flags" BY <1>3, <3>1, <3>3 DEF Execute
    <3> QED BY <3>2, <3>3
  <2>6. [seen[h] EXCEPT ![d] = flags[d]] \in [Date -> SUBSET Writer] BY DEF TypeOK
  <2>7. seen' \in [Handler -> [Date -> SUBSET Writer]] BY <2>5, <2>6 DEF TypeOK
  <2> QED BY <1>3, <2>3, <2>4, <2>7 DEF Execute, TypeOK
<1>4. ASSUME EndTransaction(h), Goto(h, After(h))
      PROVE  /\ todo' \in [Handler -> Seq(Statement)] /\ wrote' \in [Handler -> SUBSET Statement]
             /\ seen' \in [Handler -> [Date -> SUBSET Writer]]
             /\ pc' \in [Handler -> {"idle", "history", "backfill", "parse", "read",
                                       "write", "persist", "answer"}]
  <2>1. <<>> \in Seq(Statement) BY EmptySeq
  <2>2. After(h) \in {"parse", "answer"} BY DEF After
  <2> QED BY <1>4, <2>1, <2>2 DEF EndTransaction, TypeOK
<1>5. CASE Commit(h)
  <2>1. <<h, Kind(h)>> \in Writer BY DEF Writer, Kind
  <2>2. rows' \in [Table -> [Date -> Row]] BY <1>5, <2>1 DEF Commit, TypeOK, Row
  <2>3. flags' \in [Date -> SUBSET Writer] BY <1>5, <2>1 DEF Commit, TypeOK
  <2>4. excused' \in SUBSET Date BY <1>5 DEF Commit, TypeOK
  <2> QED BY <1>4, <1>5, <2>2, <2>3, <2>4 DEF Commit, TypeOK
<1>6. CASE Rollback(h)
  <2>1. Touched(h) \subseteq Date BY PersistenceAssumption DEF Touched, Wide, Date
  <2>2. excused' \in SUBSET Date BY <1>6, <2>1 DEF Rollback, TypeOK
  <2>3. faults' \in Nat BY <1>6 DEF Rollback, TypeOK
  <2> QED BY <1>4, <1>6, <2>2, <2>3 DEF Rollback, TypeOK
<1>7. CASE Parse(h) BY <1>7 DEF Parse, TypeOK
<1>8. CASE ReadFile(h) BY <1>8 DEF ReadFile, TypeOK
<1>9. CASE WriteFile(h)
  <2>1. PersistPlan(h) \in Seq(Statement)
    <3>1. PlanAt(h, "persist") = PersistPlan(h) BY DEF PlanAt
    <3> QED BY <3>1, PlanIsSeq
  <2>2. csv' \in [Date -> Row] BY <1>9 DEF WriteFile, TypeOK, Row, Writer
  <2>3. todo' \in [Handler -> Seq(Statement)] BY <1>9, <2>1 DEF WriteFile, TypeOK
  <2> QED BY <1>9, <2>2, <2>3 DEF WriteFile, TypeOK
<1>10. CASE Answer(h)
  <2>1. <<h, "own">> \in Row /\ None \in Row BY DEF Row, Writer
  <2> DEFINE column == [rows["lsi"] EXCEPT ![DateOf[h]] = <<h, "own">>]
  <2>2. rows' = rows \/ rows' = [rows EXCEPT !["lsi"] = column]
    BY <1>10 DEF Answer
  <2>0. column \in [Date -> Row] BY <2>1 DEF TypeOK, Table
  <2> HIDE DEF column
  <2>3. rows' \in [Table -> [Date -> Row]] BY <2>0, <2>2 DEF TypeOK
  <2>4. [d \in Date |-> None] \in [Date -> Row] BY <2>1
  <2>5. copy' \in [Handler -> [Date -> Row]] BY <1>10, <2>4 DEF Answer, TypeOK
  <2>6. pc' \in [Handler -> {"idle", "history", "backfill", "parse", "read",
                               "write", "persist", "answer"}]
    BY <1>10 DEF Answer, TypeOK
  <2> QED BY <1>10, <2>3, <2>5, <2>6 DEF Answer, TypeOK
<1> QED BY <1>1, <1>2, <1>3, <1>5, <1>6, <1>7, <1>8, <1>9, <1>10 DEF Step

\* Every variable keeps its type, whatever fails and whoever overlaps.
THEOREM PersistenceTypes == Spec => []TypeOK
<1>1. Init => TypeOK
  <2>1. <<>> \in Seq(Statement) BY EmptySeq
  <2> QED BY <2>1 DEF Init, TypeOK, Row
<1>2. TypeOK /\ [Next]_vars => TypeOK'
  <2>1. TypeOK /\ Next => TypeOK' BY StepType DEF Next
  <2>2. TypeOK /\ UNCHANGED vars => TypeOK'
    BY DEF TypeOK, vars, database, txVars, files
  <2> QED BY <2>1, <2>2
<1> QED BY <1>1, <1>2, PTL DEF Spec

(***************************************************************************)
(* The details. Inductive form: what a transaction has written is a prefix *)
(* of its plan, no row is locked twice, and flags found by a DELETE are    *)
(* still those committed, as nobody passes the row locks taken before it.  *)
(***************************************************************************)
Position(h) == LengthAt(pc[h]) - Len(todo[h])

OnPlan(h) ==
  /\ InTransaction(h) =>
       /\ Len(todo[h]) <= LengthAt(pc[h])
       /\ \A i \in 1..Len(todo[h]) : todo[h][i] = PlanAt(h, pc[h])[Position(h) + i]
       /\ wrote[h] = {PlanAt(h, pc[h])[i] : i \in 1..Position(h)}
  /\ ~InTransaction(h) => todo[h] = <<>> /\ wrote[h] = {}

LockedOnce ==
  \A h, g \in Handler, t \in Table, d \in Date :
    <<t, d>> \in wrote[h] /\ <<t, d>> \in wrote[g] => h = g

FlagsFound ==
  \A h \in Handler, d \in Date : <<"flags", d>> \in wrote[h] => seen[h][d] = flags[d]

PlanInv == (\A h \in Handler : OnPlan(h)) /\ LockedOnce
DetailsInv == TypeOK /\ PlanInv /\ FlagsFound /\ DetailsOfOneWriter

\* A handler that does not move stays on its plan.
LEMMA OnPlanKept ==
  ASSUME NEW h, OnPlan(h), pc'[h] = pc[h], todo'[h] = todo[h], wrote'[h] = wrote[h]
  PROVE  OnPlan(h)'
BY DEF OnPlan, InTransaction, Position

LEMMA Begins ==
  ASSUME TypeOK, NEW h \in Handler, OnPlan(h), ~InTransaction(h),
         NEW place \in {"backfill", "persist"},
         pc' = [pc EXCEPT ![h] = place], todo' = [todo EXCEPT ![h] = PlanAt(h, place)],
         wrote' = wrote
  PROVE  OnPlan(h)'
<1>1. pc'[h] = place /\ todo'[h] = PlanAt(h, place) /\ wrote'[h] = {} BY DEF TypeOK, OnPlan
<1>2. Len(todo'[h]) = LengthAt(place) /\ LengthAt(place) \in Nat BY <1>1, PlanIsSeq, LengthType
<1>3. LengthAt(pc'[h]) - Len(todo'[h]) = 0 BY <1>1, <1>2
<1>4. \A i \in 1..Len(todo'[h]) :
        todo'[h][i] = PlanAt(h, pc'[h])[(LengthAt(pc'[h]) - Len(todo'[h])) + i]
  BY <1>1, <1>2, <1>3
<1>5. wrote'[h] = {PlanAt(h, pc'[h])[i] : i \in 1..(LengthAt(pc'[h]) - Len(todo'[h]))}
  BY <1>1, <1>3
<1> QED BY <1>1, <1>2, <1>4, <1>5 DEF OnPlan, InTransaction, Position

LEMMA Proceeds ==
  ASSUME TypeOK, NEW h \in Handler, OnPlan(h), Execute(h)
  PROVE  OnPlan(h)'
<1> DEFINE s == Head(todo[h])
           n == LengthAt(pc[h])
           k == Position(h)
           P == PlanAt(h, pc[h])
<1>1. InTransaction(h) /\ todo[h] # <<>> /\ todo[h] \in Seq(Statement)
  BY DEF Execute, InTransaction, TypeOK
<1>2. pc'[h] = pc[h] /\ todo'[h] = Tail(todo[h]) /\ wrote'[h] = wrote[h] \cup {s}
  BY DEF Execute, TypeOK
<1>3. Len(todo[h]) \in Nat \ {0} /\ Len(todo[h]) <= n /\ n \in Nat
  BY <1>1, EmptySeq, LengthType DEF OnPlan
<1>4. /\ Len(Tail(todo[h])) = Len(todo[h]) - 1
      /\ \A i \in 1..Len(Tail(todo[h])) : Tail(todo[h])[i] = todo[h][i + 1]
  BY <1>1, HeadTailProperties
<1>5. k = n - Len(todo[h]) BY DEF Position
<1>6. Position(h)' = k + 1 BY <1>2, <1>3, <1>4, <1>5 DEF Position
<1>7. s = P[k + 1]
  <2>1. s = todo[h][1] BY <1>1
  <2>2. 1 \in 1..Len(todo[h]) BY <1>3
  <2> QED BY <1>1, <2>1, <2>2 DEF OnPlan
<1>8. ASSUME NEW i \in 1..Len(todo'[h]) PROVE todo'[h][i] = P[(k + 1) + i]
  <2>1. todo'[h][i] = todo[h][i + 1] BY <1>2, <1>4
  <2>2. i + 1 \in 1..Len(todo[h]) BY <1>2, <1>3, <1>4
  <2>3. todo[h][i + 1] = P[k + (i + 1)] BY <1>1, <2>2 DEF OnPlan
  <2>4. k + (i + 1) = (k + 1) + i BY <1>3, <1>5
  <2> QED BY <2>1, <2>3, <2>4
<1>9. wrote'[h] = {P[i] : i \in 1..(k + 1)}
  <2>1. wrote[h] = {P[i] : i \in 1..k} BY <1>1 DEF OnPlan
  <2>2. 1..(k + 1) = (1..k) \cup {k + 1} BY <1>3, <1>5
  <2> HIDE DEF k, P, s
  <2> QED BY <1>2, <1>7, <2>1, <2>2
<1>10. Len(todo'[h]) <= n BY <1>2, <1>3, <1>4
<1>11. InTransaction(h)' BY <1>1, <1>2 DEF InTransaction
<1>12. Len(todo'[h]) <= LengthAt(pc'[h]) BY <1>2, <1>10
<1>13. \A i \in 1..Len(todo'[h]) : todo'[h][i] = PlanAt(h, pc'[h])[Position(h)' + i]
  BY <1>2, <1>6, <1>8
<1>14. wrote'[h] = {PlanAt(h, pc'[h])[i] : i \in 1..(Position(h)')}
  BY <1>2, <1>6, <1>9
<1> QED BY <1>11, <1>12, <1>13, <1>14 DEF OnPlan

LEMMA Ends ==
  ASSUME TypeOK, NEW h \in Handler, EndTransaction(h), Goto(h, After(h))
  PROVE  OnPlan(h)'
<1>1. pc'[h] \in {"parse", "answer"} BY DEF Goto, After, TypeOK
<1>2. todo'[h] = <<>> /\ wrote'[h] = {} BY DEF EndTransaction, TypeOK
<1> QED BY <1>1, <1>2 DEF OnPlan, InTransaction

\* A step of h leaves the others' transactions alone.
LEMMA StepIsOwn ==
  ASSUME TypeOK, NEW h \in Handler, Start(h) \/ Step(h), NEW g \in Handler, g # h
  PROVE  pc'[g] = pc[g] /\ todo'[g] = todo[g] /\ wrote'[g] = wrote[g] /\ seen'[g] = seen[g]
         /\ copy'[g] = copy[g]
<1> USE DEF TypeOK, Goto, txVars, files
<1>1. CASE Start(h) BY <1>1 DEF Start
<1>2. CASE WriteHistory(h) BY <1>2 DEF WriteHistory
<1>3. CASE Execute(h) BY <1>3 DEF Execute
<1>4. CASE Commit(h) \/ Rollback(h) BY <1>4 DEF Commit, Rollback, EndTransaction
<1>5. CASE Parse(h) \/ ReadFile(h) BY <1>5 DEF Parse, ReadFile
<1>6. CASE WriteFile(h) \/ Answer(h) BY <1>6 DEF WriteFile, Answer
<1> QED BY <1>1, <1>2, <1>3, <1>4, <1>5, <1>6 DEF Step

LEMMA StepOnPlan ==
  ASSUME TypeOK, NEW h \in Handler, OnPlan(h), Start(h) \/ Step(h)
  PROVE  OnPlan(h)'
<1> USE DEF txVars
<1>1. ASSUME ~InTransaction(h), NEW p, p \notin {"backfill", "persist"}, Goto(h, p),
             UNCHANGED <<todo, wrote>>
      PROVE  OnPlan(h)'
  BY <1>1 DEF TypeOK, OnPlan, InTransaction, Goto
<1>2. CASE Start(h) BY <1>1, <1>2 DEF Start, InTransaction
<1>3. CASE WriteHistory(h)
  <2>1. ~InTransaction(h) BY <1>3 DEF WriteHistory, InTransaction
  <2>2. CASE Goto(h, "backfill") /\ todo' = [todo EXCEPT ![h] = BackfillPlan(h)]
    <3>1. PlanAt(h, "backfill") = BackfillPlan(h) BY DEF PlanAt
    <3>2. pc' = [pc EXCEPT ![h] = "backfill"] /\ wrote' = wrote
      BY <1>3, <2>2 DEF Goto, WriteHistory
    <3> QED BY <2>1, <2>2, <3>1, <3>2, Begins
  <2>3. CASE Goto(h, "parse") /\ UNCHANGED todo BY <1>1, <1>3, <2>1, <2>3 DEF WriteHistory
  <2> QED BY <1>3, <2>2, <2>3 DEF WriteHistory
<1>4. CASE Execute(h) BY <1>4, Proceeds
<1>5. CASE Commit(h) \/ Rollback(h) BY <1>5, Ends DEF Commit, Rollback
<1>6. CASE Parse(h) BY <1>1, <1>6 DEF Parse, InTransaction
<1>7. CASE ReadFile(h) BY <1>1, <1>7 DEF ReadFile, InTransaction
<1>8. CASE WriteFile(h)
  <2>1. ~InTransaction(h) BY <1>8 DEF WriteFile, InTransaction
  <2>2. PlanAt(h, "persist") = PersistPlan(h) BY DEF PlanAt
  <2>3. pc' = [pc EXCEPT ![h] = "persist"] /\ wrote' = wrote
        /\ todo' = [todo EXCEPT ![h] = PlanAt(h, "persist")]
    BY <1>8, <2>2 DEF WriteFile, Goto
  <2> QED BY <2>1, <2>3, Begins
<1>9. CASE Answer(h) BY <1>1, <1>9 DEF Answer, InTransaction
<1> QED BY <1>2, <1>3, <1>4, <1>5, <1>6, <1>7, <1>8, <1>9 DEF Step

\* A row is written only when it is free.
LEMMA StepLocks ==
  ASSUME TypeOK, NEW h \in Handler, Start(h) \/ Step(h), NEW s
  PROVE  s \in wrote'[h] => s \in wrote[h]
           \/ (Execute(h) /\ s = Head(todo[h]))
<1> USE DEF TypeOK, txVars
<1>1. CASE Execute(h) BY <1>1 DEF Execute
<1>2. CASE Start(h) \/ WriteHistory(h) BY <1>2 DEF Start, WriteHistory
<1>3. CASE Commit(h) \/ Rollback(h) BY <1>3 DEF Commit, Rollback, EndTransaction
<1>4. CASE Parse(h) \/ ReadFile(h) \/ WriteFile(h) \/ Answer(h)
  BY <1>4 DEF Parse, ReadFile, WriteFile, Answer
<1> QED BY <1>1, <1>2, <1>3, <1>4 DEF Step

LEMMA NewLock ==
  ASSUME NEW h \in Handler, Execute(h), NEW g \in Handler, g # h,
         NEW t \in Table, NEW d, Head(todo[h]) = <<t, d>>
  PROVE  <<t, d>> \notin wrote[g]
<1>1. ~Waits(h, g) /\ todo[h] # <<>> BY DEF Execute
<1>2. Head(todo[h])[1] # "flags" BY DEF Table
<1> QED BY <1>1, <1>2 DEF Waits

LEMMA NextPlan ==
  ASSUME TypeOK, PlanInv, NEW h \in Handler, Start(h) \/ Step(h)
  PROVE  PlanInv'
<1>1. ASSUME NEW g \in Handler PROVE OnPlan(g)'
  <2>1. CASE g = h BY <2>1, StepOnPlan DEF PlanInv
  <2>2. CASE g # h BY <2>2, StepIsOwn, OnPlanKept DEF PlanInv
  <2> QED BY <2>1, <2>2
<1>2. ASSUME NEW f \in Handler, NEW g \in Handler, NEW t \in Table, NEW d \in Date,
             <<t, d>> \in wrote'[f], <<t, d>> \in wrote'[g]
      PROVE  f = g
  <2> SUFFICES ASSUME f # g PROVE FALSE
    OBVIOUS
  <2>1. ASSUME NEW e \in Handler, e # h, <<t, d>> \in wrote'[h], <<t, d>> \in wrote'[e]
        PROVE  FALSE
    <3>1. <<t, d>> \in wrote[e] BY <2>1, StepIsOwn
    <3>2. <<t, d>> \notin wrote[h] BY <2>1, <3>1 DEF PlanInv, LockedOnce
    <3>3. Execute(h) /\ Head(todo[h]) = <<t, d>> BY <2>1, <3>2, StepLocks
    <3> QED BY <2>1, <3>1, <3>3, NewLock
  <2>2. CASE f # h /\ g # h
    <3>1. <<t, d>> \in wrote[f] /\ <<t, d>> \in wrote[g] BY <1>2, <2>2, StepIsOwn
    <3> QED BY <3>1 DEF PlanInv, LockedOnce
  <2> QED BY <1>2, <2>1, <2>2
<1> QED BY <1>1, <1>2 DEF PlanInv, LockedOnce

\* Whoever has replaced the flags of a date holds the row of its signals.
LEMMA FlagsUnderLock ==
  ASSUME PlanInv, NEW h \in Handler, NEW d \in Date, <<"flags", d>> \in wrote[h], TypeOK
  PROVE  <<"signals", d>> \in wrote[h]
<1>1. InTransaction(h) BY DEF PlanInv, OnPlan
<1>2. wrote[h] = {PlanAt(h, pc[h])[i] : i \in 1..Position(h)} BY <1>1 DEF PlanInv, OnPlan
<1>3. Len(todo[h]) \in Nat /\ LengthAt(pc[h]) \in Nat
  <2>1. todo[h] \in Seq(Statement) BY DEF TypeOK
  <2> QED BY <2>1, LenProperties, LengthType
<1>4. PICK i \in 1..Position(h) : PlanAt(h, pc[h])[i] = <<"flags", d>> BY <1>2
<1>5. i \in 1..LengthAt(pc[h]) /\ Position(h) \in Int BY <1>3, <1>4 DEF Position
<1>6. PICK j \in 1..(i - 1) : PlanAt(h, pc[h])[j] = <<"signals", d>>
  BY <1>4, <1>5, SignalsBeforeFlags
<1>7. j \in 1..Position(h) BY <1>4, <1>5, <1>6
<1> QED BY <1>2, <1>6, <1>7

\* A transaction that commits has made every statement of its plan.
LEMMA Complete ==
  ASSUME TypeOK, PlanInv, NEW h \in Handler, Commit(h)
  PROVE  wrote[h] = {PlanAt(h, pc[h])[i] : i \in 1..LengthAt(pc[h])}
<1>1. InTransaction(h) /\ todo[h] = <<>> BY DEF Commit, InTransaction
<1>2. Len(todo[h]) = 0 BY <1>1, EmptySeq
<1>3. Position(h) = LengthAt(pc[h]) BY <1>2, LengthType DEF Position
<1> QED BY <1>1, <1>3 DEF PlanInv, OnPlan

\* So it holds all details of a date or none.
LEMMA AllOrNone ==
  ASSUME TypeOK, PlanInv, NEW h \in Handler, Commit(h), NEW d \in Date
  PROVE  /\ <<"signals", d>> \in wrote[h] <=> <<"contributions", d>> \in wrote[h]
         /\ <<"signals", d>> \in wrote[h] <=> <<"flags", d>> \in wrote[h]
<1>1. \A s : s \in wrote[h] <=> Includes(h, pc[h], s) BY Complete DEF Includes
<1> QED BY <1>1, DetailsTogether

LEMMA KeepsDetails ==
  ASSUME DetailsOfOneWriter, flags' = flags,
         rows'["signals"] = rows["signals"], rows'["contributions"] = rows["contributions"]
  PROVE  DetailsOfOneWriter'
BY DEF DetailsOfOneWriter

LEMMA CommitDetails ==
  ASSUME TypeOK, PlanInv, FlagsFound, DetailsOfOneWriter, NEW h \in Handler, Commit(h)
  PROVE  DetailsOfOneWriter'
<1> SUFFICES ASSUME NEW d \in Date
             PROVE  /\ rows'["signals"][d] = rows'["contributions"][d]
                    /\ flags'[d] = {rows'["contributions"][d]} \ {None}
  BY DEF DetailsOfOneWriter
<1> DEFINE me == <<h, Kind(h)>>
<1>1. me # None BY PersistenceAssumption DEF Kind, Writer
<1>2. \A t \in {"signals", "contributions"} :
        rows'[t][d] = IF <<t, d>> \in wrote[h] THEN me ELSE rows[t][d]
  BY DEF Commit, Table
<1>3. flags'[d] = IF <<"flags", d>> \in wrote[h]
                    THEN (flags[d] \ seen[h][d]) \cup {me} ELSE flags[d]
  BY DEF Commit
<1> HIDE DEF me
<1>4. CASE <<"flags", d>> \in wrote[h]
  <2>1. seen[h][d] = flags[d] BY <1>4 DEF FlagsFound
  <2>2. flags'[d] = {me} BY <1>3, <1>4, <2>1
  <2>3. rows'["signals"][d] = me /\ rows'["contributions"][d] = me
    BY <1>2, <1>4, AllOrNone
  <2> QED BY <1>1, <2>2, <2>3
<1>5. CASE <<"flags", d>> \notin wrote[h]
  <2>1. rows'["signals"][d] = rows["signals"][d]
        /\ rows'["contributions"][d] = rows["contributions"][d]
    BY <1>2, <1>5, AllOrNone
  <2>2. flags'[d] = flags[d] BY <1>3, <1>5
  <2> QED BY <2>1, <2>2 DEF DetailsOfOneWriter
<1> QED BY <1>4, <1>5

\* The only other writer of rows is the backend, and of the LSI alone.
LEMMA StepDetails ==
  ASSUME DetailsInv, NEW h \in Handler, Start(h) \/ Step(h)
  PROVE  DetailsOfOneWriter'
<1> USE DEF DetailsInv, database
<1>1. CASE Commit(h) BY <1>1, CommitDetails
<1>2. CASE Start(h) \/ WriteHistory(h) \/ Execute(h)
  BY <1>2, KeepsDetails DEF Start, WriteHistory, Execute
<1>3. CASE Rollback(h) \/ Parse(h) \/ ReadFile(h) \/ WriteFile(h)
  BY <1>3, KeepsDetails DEF Rollback, Parse, ReadFile, WriteFile
<1>4. CASE Answer(h)
  <2>1. flags' = flags /\ (rows' = rows \/ rows' = [rows EXCEPT !["lsi"][DateOf[h]] = <<h, "own">>])
    BY <1>4 DEF Answer
  <2>2. rows'["signals"] = rows["signals"] /\ rows'["contributions"] = rows["contributions"]
    BY <2>1 DEF TypeOK, Table
  <2> QED BY <2>1, <2>2, KeepsDetails
<1> QED BY <1>1, <1>2, <1>3, <1>4 DEF Step

\* Flags that were found stay as they are: changing them takes the row of the signals.
LEMMA StepFlags ==
  ASSUME TypeOK, PlanInv, FlagsFound, NEW h \in Handler, Start(h) \/ Step(h)
  PROVE  FlagsFound'
<1> SUFFICES ASSUME NEW g \in Handler, NEW d \in Date, <<"flags", d>> \in wrote'[g]
             PROVE  seen'[g][d] = flags'[d]
  BY DEF FlagsFound
<1>1. CASE Execute(h)
  <2>1. flags' = flags BY <1>1 DEF Execute, database
  <2>2. CASE g # h BY <2>1, <2>2, StepIsOwn DEF FlagsFound
  <2>3. CASE g = h /\ Head(todo[h]) = <<"flags", d>>
    <3>1. Head(todo[h])[1] = "flags" /\ Head(todo[h])[2] = d BY <2>3
    <3>2. seen' = [seen EXCEPT ![h] = [seen[h] EXCEPT ![d] = flags[d]]]
      BY <1>1, <3>1 DEF Execute
    <3>3. seen'[h] = [seen[h] EXCEPT ![d] = flags[d]] /\ seen[h] \in [Date -> SUBSET Writer]
      BY <3>2 DEF TypeOK
    <3> QED BY <2>1, <2>3, <3>3
  <2>4. CASE g = h /\ Head(todo[h]) # <<"flags", d>>
    <3>1. <<"flags", d>> \in wrote[h] BY <2>4, StepLocks
    <3>2. Head(todo[h]) \in Statement
      <4>1. todo[h] \in Seq(Statement) /\ todo[h] # <<>> BY <1>1 DEF Execute, TypeOK
      <4> QED BY <4>1, HeadTailProperties
    <3>3. PICK t \in Table \cup {"flags"}, e \in Date : Head(todo[h]) = <<t, e>>
      BY <3>2 DEF Statement
    <3>4. Head(todo[h])[1] = t /\ Head(todo[h])[2] = e BY <3>3
    <3>5. t # "flags" \/ e # d BY <2>4, <3>3
    <3>6. seen' = seen \/ seen' = [seen EXCEPT ![h] = [seen[h] EXCEPT ![e] = flags[e]]]
      BY <1>1, <3>4 DEF Execute
    <3>7. CASE t # "flags"
      <4>1. seen' = seen BY <1>1, <3>4, <3>7 DEF Execute
      <4> QED BY <2>1, <2>4, <3>1, <4>1 DEF FlagsFound
    <3>8. CASE e # d
      <4>1. seen'[h][d] = seen[h][d] BY <3>6, <3>8 DEF TypeOK
      <4> QED BY <2>1, <2>4, <3>1, <4>1 DEF FlagsFound
    <3> QED BY <3>5, <3>7, <3>8
  <2> QED BY <2>2, <2>3, <2>4
<1>2. CASE Commit(h)
  <2>1. g # h BY <1>2 DEF Commit, EndTransaction, TypeOK
  <2>2. <<"flags", d>> \in wrote[g] /\ seen'[g] = seen[g] BY <2>1, StepIsOwn
  <2>3. <<"flags", d>> \notin wrote[h]
    <3> SUFFICES ASSUME <<"flags", d>> \in wrote[h] PROVE FALSE
      OBVIOUS
    <3>1. <<"signals", d>> \in wrote[h] /\ <<"signals", d>> \in wrote[g]
      BY <2>2, FlagsUnderLock
    <3> QED BY <2>1, <3>1 DEF PlanInv, LockedOnce, Table
  <2>4. flags'[d] = flags[d] BY <1>2, <2>3 DEF Commit
  <2> QED BY <2>2, <2>4 DEF FlagsFound
<1>3. CASE Rollback(h)
  <2>1. g # h BY <1>3 DEF Rollback, EndTransaction, TypeOK
  <2>2. flags' = flags BY <1>3 DEF Rollback, database
  <2> QED BY <2>1, <2>2, StepIsOwn DEF FlagsFound
<1>4. CASE Start(h) \/ WriteHistory(h) \/ Parse(h) \/ ReadFile(h) \/ WriteFile(h) \/ Answer(h)
  <2>1. flags' = flags /\ wrote' = wrote /\ seen' = seen
    BY <1>4 DEF Start, WriteHistory, Parse, ReadFile, WriteFile, Answer, database, txVars
  <2> QED BY <2>1 DEF FlagsFound
<1> QED BY <1>1, <1>2, <1>3, <1>4 DEF Step

LEMMA DetailsCorrect == Spec => []DetailsInv
<1>1. Init => DetailsInv
  <2> SUFFICES ASSUME Init PROVE DetailsInv
    OBVIOUS
  <2>1. TypeOK
    <3>1. <<>> \in Seq(Statement) BY EmptySeq
    <3> QED BY <3>1 DEF Init, TypeOK, Row
  <2>2. PlanInv BY DEF Init, PlanInv, OnPlan, LockedOnce, InTransaction
  <2>3. FlagsFound BY DEF Init, FlagsFound
  <2>4. DetailsOfOneWriter BY DEF Init, DetailsOfOneWriter, Table
  <2> QED BY <2>1, <2>2, <2>3, <2>4 DEF DetailsInv
<1>2. DetailsInv /\ Next => DetailsInv'
  BY StepType, NextPlan, StepFlags, StepDetails DEF Next, DetailsInv
<1>3. DetailsInv /\ UNCHANGED vars => DetailsInv'
  <2> SUFFICES ASSUME DetailsInv, UNCHANGED vars PROVE DetailsInv'
    OBVIOUS
  <2> USE DEF vars, database, txVars, files, DetailsInv
  <2>1. TypeOK' BY DEF TypeOK
  <2>2. PlanInv' BY DEF PlanInv, OnPlan, LockedOnce, InTransaction, Position
  <2>3. FlagsFound' /\ DetailsOfOneWriter' BY DEF FlagsFound, DetailsOfOneWriter
  <2> QED BY <2>1, <2>2, <2>3
<1> QED BY <1>1, <1>2, <1>3, PTL DEF Spec

\* Signals, contributions and flags of a date come from one calculation.
THEOREM OneWriterAlways == Spec => []DetailsOfOneWriter
<1>1. DetailsInv => DetailsOfOneWriter BY DEF DetailsInv
<1> QED BY <1>1, DetailsCorrect, PTL

(***************************************************************************)
(* Deadlock. A waiting transaction waits for a statement further on in its *)
(* plan than all it has made; two on one plan cannot both be behind.       *)
(***************************************************************************)
LEMMA WaitsFor ==
  ASSUME TypeOK, PlanInv, NEW h \in Handler, NEW g \in Handler, Waits(h, g), pc[h] = pc[g]
  PROVE  /\ Position(h) \in Nat /\ Position(g) \in Nat
         /\ PlanAt(h, pc[h]) = PlanAt(g, pc[h])
         /\ Position(h) + 1 <= Position(g)
<1> DEFINE place == pc[h]
<1>1. InTransaction(h) /\ InTransaction(g)
  BY DEF Waits, PlanInv, OnPlan, InTransaction
<1>2. todo[h] \in Seq(Statement) /\ todo[g] \in Seq(Statement) /\ todo[h] # <<>>
  BY DEF TypeOK, Waits
<1>3. /\ Len(todo[h]) \in Nat \ {0} /\ Len(todo[h]) <= LengthAt(place)
      /\ Len(todo[g]) \in Nat /\ Len(todo[g]) <= LengthAt(place) /\ LengthAt(place) \in Nat
  BY <1>1, <1>2, EmptySeq, LenProperties, LengthType DEF PlanInv, OnPlan
<1>4. /\ Position(h) = LengthAt(place) - Len(todo[h])
      /\ Position(g) = LengthAt(place) - Len(todo[g])
  BY DEF Position
<1>5. Position(h) + 1 \in 1..LengthAt(place) BY <1>3, <1>4
<1>6. Head(todo[h]) = PlanAt(h, place)[Position(h) + 1]
  <2>1. Head(todo[h]) = todo[h][1] /\ 1 \in 1..Len(todo[h]) BY <1>2, <1>3
  <2> QED BY <1>1, <2>1 DEF PlanInv, OnPlan
<1>7. wrote[g] = {PlanAt(g, place)[i] : i \in 1..Position(g)}
  BY <1>1 DEF PlanInv, OnPlan
<1>8. PICK i \in 1..Position(g) : PlanAt(g, place)[i] = PlanAt(h, place)[Position(h) + 1]
  BY <1>6, <1>7 DEF Waits
<1>9. i \in 1..LengthAt(place) BY <1>3, <1>4, <1>8
<1>10. PlanAt(h, place) = PlanAt(g, place) BY <1>5, <1>8, <1>9, SamePlan
<1>11. i = Position(h) + 1 BY <1>5, <1>8, <1>9, <1>10, PlanOnce
<1> QED BY <1>3, <1>4, <1>8, <1>10, <1>11

\* Two transactions of one kind never deadlock.
THEOREM NoCircleOfOneKind == Spec => []SameKindNeverCircles
<1>1. TypeOK /\ PlanInv => SameKindNeverCircles
  <2> SUFFICES ASSUME TypeOK, PlanInv, NEW h \in Handler, NEW g \in Handler,
                      Waits(h, g), Waits(g, h), pc[h] = pc[g]
               PROVE  FALSE
    BY DEF SameKindNeverCircles
  <2>1. Position(h) \in Nat /\ Position(g) \in Nat /\ Position(h) + 1 <= Position(g)
    BY WaitsFor
  <2>2. Position(g) + 1 <= Position(h) BY WaitsFor
  <2> QED BY <2>1, <2>2
<1>2. DetailsInv => TypeOK /\ PlanInv BY DEF DetailsInv
<1> QED BY <1>1, <1>2, DetailsCorrect, PTL

(***************************************************************************)
(* The file. Inductive form: handlers that overlap are crowded, and then   *)
(* every date is excused; while one handler is at work alone, its place    *)
(* says what it has put in the file and which rows it still owes.          *)
(***************************************************************************)
Overlaps ==
  /\ \A h \in crowded : AtWork(h)
  /\ \A h, g \in Handler : AtWork(h) /\ AtWork(g) /\ h # g => h \in crowded
  /\ crowded # {} => excused = Date

\* What the file holds of a handler at work.
Wrote(h) ==
  /\ pc[h] = "write" => copy[h] = csv
  /\ pc[h] = "backfill" => \A d \in Wide : csv[d] = <<h, "history">>
  /\ pc[h] \in {"persist", "answer"} => csv[DateOf[h]] = <<h, "own">>
Owes(h, d) == pc[h] = "backfill" \/ (pc[h] = "persist" /\ d = DateOf[h])
Agrees(d) == (\A h \in Handler : ~Owes(h, d)) => csv[d] = rows["lsi"][d]

FileInv ==
  /\ Overlaps
  /\ crowded = {} => \A h \in Handler : Wrote(h)
  /\ \A d \in Wide \ excused : Agrees(d)

\* What a step of h has to show when h works alone.
LEMMA Alone ==
  ASSUME TypeOK, Overlaps, NEW h \in Handler, AtWork(h), h \notin crowded
  PROVE  crowded = {} /\ \A g \in Handler : g # h => ~AtWork(g)
<1>1. \A g \in Handler : g # h => ~AtWork(g) BY DEF Overlaps
<1> QED BY <1>1 DEF Overlaps, TypeOK

LEMMA StepOverlaps ==
  ASSUME TypeOK, Overlaps, NEW h \in Handler, Start(h) \/ Step(h)
  PROVE  Overlaps'
<1> USE DEF TypeOK, Goto, AtWork
<1>1. CASE Start(h) BY <1>1 DEF Start, Overlaps
<1>2. ASSUME AtWork(h), AtWork(h)', crowded' = crowded,
             excused \subseteq excused' \/ h \notin crowded, excused' \in SUBSET Date,
             \A g \in Handler : g # h => pc'[g] = pc[g]
      PROVE  Overlaps'
  <2>1. \A g \in Handler : AtWork(g)' <=> AtWork(g) BY <1>2
  <2>2. crowded # {} => excused' = Date
    <3>1. CASE h \in crowded BY <1>2, <3>1 DEF Overlaps
    <3>2. CASE h \notin crowded BY <1>2, <3>2, Alone
    <3> QED BY <3>1, <3>2
  <2> QED BY <1>2, <2>1, <2>2 DEF Overlaps
<1>3. \A g \in Handler : g # h => pc'[g] = pc[g] BY StepIsOwn
<1>4. excused' \in SUBSET Date BY StepType
<1>5. CASE WriteHistory(h) BY <1>2, <1>3, <1>4, <1>5 DEF WriteHistory
<1>6. CASE Execute(h) BY <1>2, <1>3, <1>4, <1>6 DEF Execute
<1>7. CASE Commit(h)
  <2>1. AtWork(h) /\ AtWork(h)' BY <1>7 DEF Commit, After
  <2>2. excused \subseteq excused' \/ h \notin crowded BY <1>7 DEF Commit
  <2> QED BY <1>2, <1>3, <1>4, <1>7, <2>1, <2>2 DEF Commit
<1>8. CASE Rollback(h)
  <2>1. AtWork(h) /\ AtWork(h)' BY <1>8 DEF Rollback, After
  <2>2. excused \subseteq excused' BY <1>8 DEF Rollback
  <2> QED BY <1>2, <1>3, <1>4, <1>8, <2>1, <2>2 DEF Rollback
<1>9. CASE ReadFile(h) BY <1>2, <1>3, <1>4, <1>9 DEF ReadFile
<1>10. CASE WriteFile(h) BY <1>2, <1>3, <1>4, <1>10 DEF WriteFile
<1>11. ASSUME AtWork(h), crowded' = crowded \ {h}, ~AtWork(h)', excused' = excused
       PROVE  Overlaps'
  BY <1>3, <1>11 DEF Overlaps
<1>12. CASE Parse(h)
  <2>1. CASE Goto(h, "read") /\ UNCHANGED crowded BY <1>2, <1>3, <1>4, <1>12, <2>1 DEF Parse
  <2>2. CASE Goto(h, "idle") /\ crowded' = crowded \ {h}
    BY <1>11, <1>12, <2>2 DEF Parse
  <2> QED BY <1>12, <2>1, <2>2 DEF Parse
<1>13. CASE Answer(h) BY <1>11, <1>13 DEF Answer
<1> QED BY <1>1, <1>5, <1>6, <1>7, <1>8, <1>9, <1>10, <1>12, <1>13 DEF Step

\* A committed transaction has written the LSI of the dates it touches and no other.
LEMMA LsiIncluded ==
  ASSUME NEW h \in Handler, NEW place, NEW d
  PROVE  Includes(h, place, <<"lsi", d>>)
           <=> d \in IF place = "backfill" THEN Wide ELSE {DateOf[h]}
<1>1. CASE place = "backfill"
  <2>1. ASSUME Includes(h, place, <<"lsi", d>>) PROVE d \in Wide
    <3>1. PICK i \in 1..(4 * Days) : BackfillPlan(h)[i] = <<"lsi", d>>
      BY <1>1, <2>1 DEF Includes, PlanAt, LengthAt
    <3>2. PICK e \in Wide, k \in 1..4 : i = 4 * (e - 1) + k BY BackfillIndex
    <3>3. k = 1 \/ k = 2 \/ k = 3 \/ k = 4 BY PersistIndex
    <3> QED BY <3>1, <3>2, <3>3, BackfillAt
  <2>2. ASSUME d \in Wide PROVE Includes(h, place, <<"lsi", d>>)
    <3>1. 4 * (d - 1) + 1 \in 1..(4 * Days) BY <2>2, PersistenceAssumption DEF Wide
    <3> QED BY <1>1, <2>2, <3>1, BackfillAt DEF Includes, PlanAt, LengthAt
  <2> QED BY <1>1, <2>1, <2>2
<1>2. CASE place # "backfill"
  <2>1. Includes(h, place, <<"lsi", d>>) <=> \E i \in 1..4 : PersistPlan(h)[i] = <<"lsi", d>>
    BY <1>2 DEF Includes, PlanAt, LengthAt
  <2> QED BY <1>2, <2>1, PersistAt, PersistIndex
<1> QED BY <1>1, <1>2

LEMMA LsiWritten ==
  ASSUME TypeOK, PlanInv, NEW h \in Handler, Commit(h), NEW d \in Date
  PROVE  <<"lsi", d>> \in wrote[h] <=> d \in Touched(h)
<1>1. wrote[h] = {PlanAt(h, pc[h])[i] : i \in 1..LengthAt(pc[h])} BY Complete
<1>2. <<"lsi", d>> \in wrote[h] <=> Includes(h, pc[h], <<"lsi", d>>) BY <1>1 DEF Includes
<1> QED BY <1>2, LsiIncluded DEF Touched

\* Nothing is claimed while handlers overlap.
LEMMA CrowdedFile ==
  ASSUME Overlaps', crowded' # {}
  PROVE  FileInv'
<1>1. Wide \subseteq Date BY PersistenceAssumption DEF Wide, Date
<1> QED BY <1>1 DEF FileInv, Overlaps

\* A step of h, alone at work, that shows what the file and the rows hold.
LEMMA AloneFile ==
  ASSUME TypeOK, Overlaps', NEW h \in Handler, Start(h) \/ Step(h),
         \A g \in Handler : g # h => ~AtWork(g),
         Wrote(h)', \A d \in Wide \ excused' : Owes(h, d)' \/ csv'[d] = rows'["lsi"][d]
  PROVE  FileInv'
<1>1. ASSUME NEW g \in Handler, g # h PROVE pc'[g] = "idle"
  BY <1>1, StepIsOwn DEF AtWork
<1>2. \A g \in Handler : Wrote(g)' BY <1>1 DEF Wrote
<1>3. \A d \in Wide \ excused' : Agrees(d)' BY DEF Agrees
<1> QED BY <1>2, <1>3 DEF FileInv

LEMMA StepFile ==
  ASSUME TypeOK, PlanInv, FileInv, NEW h \in Handler, Start(h) \/ Step(h)
  PROVE  FileInv'
<1>1. Overlaps' BY StepOverlaps DEF FileInv
<1> SUFFICES ASSUME crowded' = {} PROVE FileInv'
  BY <1>1, CrowdedFile
<1> USE DEF TypeOK, Goto, database, files, txVars
<1>2. Wide \subseteq Date /\ DateOf[h] \in Date BY PersistenceAssumption DEF Wide, Date
<1>3. CASE Start(h)
  <2>1. crowded = {} /\ \A g \in Handler : ~AtWork(g) BY <1>3 DEF Start
  <2>2. excused' = excused /\ csv' = csv /\ rows' = rows /\ pc'[h] = "history"
    BY <1>3, <2>1 DEF Start
  <2>3. \A d \in Wide \ excused : csv[d] = rows["lsi"][d]
    BY <2>1 DEF FileInv, Agrees, Owes, AtWork
  <2> QED BY <1>1, <2>1, <2>2, <2>3, AloneFile DEF Wrote
<1>4. CASE Step(h)
  <2>1. AtWork(h)
    BY <1>4 DEF Step, AtWork, WriteHistory, Execute, Commit, Rollback,
                Parse, ReadFile, WriteFile, Answer
  <2>2. CASE h \in crowded
    <3>1. crowded = {h} /\ crowded' = crowded \ {h}
      BY <1>4, <2>2 DEF Step, WriteHistory, Execute, Commit, Rollback,
                        Parse, ReadFile, WriteFile, Answer
    <3>2. excused = Date /\ \A g \in Handler : g # h => ~AtWork(g)
      BY <2>1, <3>1 DEF FileInv, Overlaps
    <3>3. (Parse(h) \/ Answer(h)) /\ pc'[h] = "idle" /\ excused' = excused
      BY <1>4, <2>2, <3>1 DEF Step, WriteHistory, Execute, Commit, Rollback,
                              Parse, ReadFile, WriteFile, Answer
    <3> QED BY <1>1, <1>2, <1>4, <3>2, <3>3, AloneFile DEF Wrote
  <2>3. CASE h \notin crowded
    <3>1. crowded = {} /\ \A g \in Handler : g # h => ~AtWork(g)
      BY <2>1, <2>3, Alone DEF FileInv
    <3>2. Wrote(h) BY <3>1 DEF FileInv
    <3>3. \A d \in Wide \ excused : Owes(h, d) \/ csv[d] = rows["lsi"][d]
      BY <3>1 DEF FileInv, Agrees, Owes, AtWork
    <3> SUFFICES Wrote(h)' /\ \A d \in Wide \ excused' : Owes(h, d)' \/ csv'[d] = rows'["lsi"][d]
      BY <1>1, <1>4, <3>1, AloneFile
    <3>4. CASE WriteHistory(h)
      <4>1. CASE Goto(h, "parse") /\ UNCHANGED <<csv, todo>>
        BY <3>3, <3>4, <4>1 DEF WriteHistory, Wrote, Owes
      <4>2. CASE pc' = [pc EXCEPT ![h] = "backfill"]
                 /\ csv' = [d \in Date |-> IF d \in Wide THEN <<h, "history">> ELSE None]
        BY <1>2, <4>2 DEF Wrote, Owes
      <4> QED BY <3>4, <4>1, <4>2 DEF WriteHistory
    <3>5. CASE Execute(h) BY <3>2, <3>3, <3>5 DEF Execute, Wrote, Owes
    <3>6. CASE Commit(h)
      <4>1. pc[h] = "backfill" \/ pc[h] = "persist" BY <3>6 DEF Commit
      <4>2. csv' = csv /\ excused' = excused \ Touched(h) BY <2>3, <3>6 DEF Commit
      <4>3. \A d \in Date : rows'["lsi"][d] =
              IF <<"lsi", d>> \in wrote[h] THEN <<h, Kind(h)>> ELSE rows["lsi"][d]
        BY <3>6 DEF Commit, Table
      <4>4. \A d \in Date : <<"lsi", d>> \in wrote[h] <=> d \in Touched(h)
        BY <3>6, LsiWritten
      <4>5. CASE pc[h] = "backfill"
        <5>1. pc'[h] = "parse" /\ Kind(h) = "history" /\ Touched(h) = Wide
          BY <3>6, <4>5 DEF Commit, After, Kind, Touched
        <5>2. \A d \in Wide : csv[d] = <<h, "history">> BY <3>2, <4>5 DEF Wrote
        <5> QED BY <1>2, <4>2, <4>3, <4>4, <5>1, <5>2 DEF Wrote
      <4>6. CASE pc[h] = "persist"
        <5>1. pc'[h] = "answer" /\ Kind(h) = "own" /\ Touched(h) = {DateOf[h]}
          BY <3>6, <4>6 DEF Commit, After, Kind, Touched
        <5>2. csv[DateOf[h]] = <<h, "own">> BY <3>2, <4>6 DEF Wrote
        <5>3. \A d \in Wide \ excused : d # DateOf[h] => csv[d] = rows["lsi"][d]
          BY <3>3, <4>6 DEF Owes
        <5> QED BY <1>2, <4>2, <4>3, <4>4, <5>1, <5>2, <5>3 DEF Wrote
      <4> QED BY <4>1, <4>5, <4>6
    <3>7. CASE Rollback(h)
      <4>1. pc[h] = "backfill" \/ pc[h] = "persist" BY <3>7 DEF Rollback
      <4>2. csv' = csv /\ rows' = rows /\ excused' = excused \cup Touched(h)
        BY <3>7 DEF Rollback
      <4>3. pc'[h] = After(h) BY <3>7 DEF Rollback
      <4> QED BY <3>2, <3>3, <4>1, <4>2, <4>3 DEF Wrote, Owes, Touched, After
    <3>8. CASE Parse(h) BY <3>3, <3>8 DEF Parse, Wrote, Owes
    <3>9. CASE ReadFile(h) BY <3>3, <3>9 DEF ReadFile, Wrote, Owes
    <3>10. CASE WriteFile(h)
      <4>1. csv' = [csv EXCEPT ![DateOf[h]] = <<h, "own">>] /\ pc'[h] = "persist"
            /\ rows' = rows /\ excused' = excused /\ pc[h] = "write"
        BY <3>2, <3>10 DEF WriteFile, Wrote
      <4> QED BY <1>2, <3>3, <4>1 DEF Wrote, Owes
    <3>11. CASE Answer(h)
      <4>1. csv' = csv /\ excused' = excused /\ pc'[h] = "idle" /\ pc[h] = "answer"
        BY <3>11 DEF Answer
      <4>2. \A d \in Date : rows'["lsi"][d] = rows["lsi"][d]
                            \/ (d = DateOf[h] /\ rows'["lsi"][d] = <<h, "own">>)
        <5>1. rows' = rows \/ rows' = [rows EXCEPT !["lsi"][DateOf[h]] = <<h, "own">>]
          BY <3>11 DEF Answer
        <5> QED BY <5>1 DEF Table
      <4> QED BY <1>2, <3>2, <3>3, <4>1, <4>2 DEF Wrote, Owes
    <3> QED BY <1>4, <3>4, <3>5, <3>6, <3>7, <3>8, <3>9, <3>10, <3>11 DEF Step
  <2> QED BY <2>2, <2>3
<1> QED BY <1>3, <1>4

\* At rest the file agrees with the rows on every date of the dataset without an excuse.
THEOREM FileAgreesAlways == Spec => []FileAgreesWithRows
<1>1. Init => FileInv
  BY DEF Init, FileInv, Overlaps, Wrote, Owes, Agrees, AtWork, Table, Wide, Date
<1>2. DetailsInv /\ FileInv /\ [Next]_vars => FileInv'
  <2>1. DetailsInv /\ FileInv /\ Next => FileInv' BY StepFile DEF Next, DetailsInv
  <2>2. FileInv /\ UNCHANGED vars => FileInv'
    BY DEF FileInv, Overlaps, Wrote, Owes, Agrees, AtWork, vars, database, txVars, files
  <2> QED BY <2>1, <2>2
<1>3. FileInv => FileAgreesWithRows
  BY DEF FileInv, FileAgreesWithRows, Agrees, Owes, AtWork
<1> QED BY <1>1, <1>2, <1>3, DetailsCorrect, PTL DEF Spec
=============================================================================
