----------------------------- MODULE CacheProofs -----------------------------
(***************************************************************************)
(* The Redis read cache: its types, that it is fresh after an              *)
(* invalidation, and that a dashboard's details are no older than its LSI. *)
(***************************************************************************)
EXTENDS CacheCoherence, TLAPS

(***************************************************************************)
(* The inductive invariant. A view is compared with the database from the  *)
(* moment it is read to the moment it is cached; what a request holds is   *)
(* current unless the history variable behind names it.                    *)
(***************************************************************************)
\* No row, view or entry is of a calculation that has not happened; the details are
\* those of the last version the ML service committed.
Bounded ==
  /\ lsi <= computed /\ details <= computed
  /\ \A p \in persisted : p <= details
  /\ \A a \in Run : got[a] <= computed /\ snap[a] <= computed
  /\ \A r \in Reader : view[r].lsi <= computed
  /\ cache["latest"] # None => cache["latest"] <= computed
  /\ cache["dashboard"] # None => cache["dashboard"].lsi <= computed

\* What a request read is what the database holds, unless it is behind.
ReaderCurrent(r) ==
  r \notin behind =>
    /\ pc[r] \in {"setLatest", "contributions", "flags", "setDashboard", "setSeries"}
         => view[r].lsi = lsi
    /\ pc[r] \in {"flags", "setDashboard"} => view[r].contributions = details
    /\ pc[r] = "setDashboard" => view[r].flags = details

\* So is the latest LSI a run will write back.
RunCurrent(a) ==
  a \notin behind =>
    (pc[a] \in {"delLatest", "delDashboard", "delSeries", "runSetLatest"} => snap[a] = lsi)

\* The contributions of a view are of its LSI or later, and not of the future.
HalfRead(v) == (v.lsi \in persisted => v.lsi <= v.contributions) /\ v.contributions <= details
InOrder(v) == v.lsi \in persisted => v.lsi <= v.contributions /\ v.contributions <= v.flags

ReadInOrder ==
  /\ \A r \in Reader : pc[r] = "flags" => HalfRead(view[r])
  /\ \A r \in Reader : pc[r] = "setDashboard" => InOrder(view[r])
  /\ cache["dashboard"] # None => InOrder(cache["dashboard"])

-----------------------------------------------------------------------------
(***************************************************************************)
(* The typing.                                                             *)
(***************************************************************************)
\* A calculation takes the next version and leaves the rows within the versions.
LEMMA CalculateTyped ==
  ASSUME TypeOK, Calculate
  PROVE  /\ computed' \in Version /\ lsi' \in Version /\ details' \in Version
         /\ persisted' \in SUBSET Version
<1>1. computed' \in Version
  BY CacheAssumption DEF TypeOK, Calculate, Version
<1>2. lsi' \in Version /\ details' \in Version
  BY <1>1 DEF TypeOK, Calculate
<1>3. persisted' = persisted \/ persisted' = persisted \cup {computed'}
  BY DEF Calculate
<1>4. persisted' \in SUBSET Version
  BY <1>1, <1>3 DEF TypeOK
<1> QED
  BY <1>1, <1>2, <1>4

\* Setting a key to an entry of its type, or to none, keeps the entries typed.
LEMMA EntryTyped ==
  ASSUME TypeOK, NEW k \in Key, NEW e,
         e # None => e \in IF k = "dashboard" THEN View ELSE Version,
         cache' = [cache EXCEPT ![k] = e]
  PROVE  /\ DOMAIN cache' = Key
         /\ \A j \in Key : cache'[j] # None =>
              cache'[j] \in IF j = "dashboard" THEN View ELSE Version
  BY DEF TypeOK

\* A request that is done leaves a blank view behind.
LEMMA DoneTyped ==
  ASSUME TypeOK, NEW r \in Reader, Done(r)
  PROVE  /\ pc' \in [Reader \cup Run -> Place]
         /\ view' \in [Reader -> View]
         /\ behind' \in SUBSET (Reader \cup Run)
<1>1. Blank \in View
  BY CacheAssumption DEF Blank, View, Version
<1> QED
  BY <1>1 DEF TypeOK, Done, Goto, Place

\* Every action of a request keeps the types.
LEMMA ReaderTyped ==
  ASSUME TypeOK, NEW r \in Reader, StartDashboard(r) \/ StartSeries(r) \/ Advance(r)
  PROVE  TypeOK'
<1> USE CacheAssumption DEF Goto, database
<1>1. CASE StartDashboard(r) \/ StartSeries(r)
  BY <1>1 DEF StartDashboard, StartSeries, TypeOK, Place
<1>2. CASE CachedLatest(r)
  <2>1. view' \in [Reader -> View]
    BY <1>2 DEF CachedLatest, TypeOK, View, Key
  <2> QED
    BY <1>2, <2>1 DEF CachedLatest, TypeOK, Place
<1>3. CASE StoredLatest(r) \/ ReadSeries(r)
  <2>1. view' = [view EXCEPT ![r] = [view[r] EXCEPT !.lsi = lsi]]
    BY <1>3 DEF StoredLatest, ReadSeries
  <2>2. [view[r] EXCEPT !.lsi = lsi] \in View
    BY DEF TypeOK, View
  <2>3. view' \in [Reader -> View]
    BY <2>1, <2>2 DEF TypeOK
  <2> QED
    BY <1>3, <2>3 DEF StoredLatest, ReadSeries, TypeOK, Place
<1>4. CASE CurrentFromML(r)
  <2>1. view' \in [Reader -> View]
    BY <1>4, CalculateTyped DEF CurrentFromML, TypeOK, View
  <2>2. /\ computed' \in Version /\ lsi' \in Version /\ details' \in Version
        /\ persisted' \in SUBSET Version
    BY <1>4, CalculateTyped DEF CurrentFromML, TypeOK
  <2> QED
    BY <1>4, <2>1, <2>2 DEF CurrentFromML, Changed, Busy, TypeOK, Place
<1>5. CASE SetLatest(r)
  <2>1. view[r].lsi \in Version /\ "latest" \in Key
    BY DEF TypeOK, View, Key
  <2>2. /\ DOMAIN cache' = Key
        /\ \A j \in Key : cache'[j] # None =>
             cache'[j] \in IF j = "dashboard" THEN View ELSE Version
    BY <1>5, <2>1, EntryTyped DEF SetLatest, Fill, TypeOK
  <2> QED
    BY <1>5, <2>1, <2>2 DEF SetLatest, Fill, TypeOK, Place
<1>6. CASE ReadContributions(r) \/ ReadFlags(r)
  <2>1. \/ view' = [view EXCEPT ![r] = [view[r] EXCEPT !.contributions = details]]
        \/ view' = [view EXCEPT ![r] = [view[r] EXCEPT !.flags = details]]
    BY <1>6 DEF ReadContributions, ReadFlags
  <2>2. /\ [view[r] EXCEPT !.contributions = details] \in View
        /\ [view[r] EXCEPT !.flags = details] \in View
    BY DEF TypeOK, View
  <2>3. view' \in [Reader -> View]
    BY <2>1, <2>2 DEF TypeOK
  <2> QED
    BY <1>6, <2>3 DEF ReadContributions, ReadFlags, TypeOK, Place
<1>7. CASE SetDashboard(r)
  <2>1. view[r] \in View /\ "dashboard" \in Key
    BY DEF TypeOK, Key
  <2>2. /\ DOMAIN cache' = Key
        /\ \A j \in Key : cache'[j] # None =>
             cache'[j] \in IF j = "dashboard" THEN View ELSE Version
    BY <1>7, <2>1, EntryTyped DEF SetDashboard, Fill, TypeOK
  <2> QED
    BY <1>7, <2>1, <2>2, DoneTyped DEF SetDashboard, Fill, TypeOK
<1>8. CASE SetSeries(r)
  <2>1. view[r].lsi \in Version /\ "series" \in Key
    BY DEF TypeOK, View, Key
  <2>2. /\ DOMAIN cache' = Key
        /\ \A j \in Key : cache'[j] # None =>
             cache'[j] \in IF j = "dashboard" THEN View ELSE Version
    BY <1>8, <2>1, EntryTyped DEF SetSeries, Fill, TypeOK
  <2> QED
    BY <1>8, <2>1, <2>2, DoneTyped DEF SetSeries, Fill, TypeOK
<1>9. CASE Abort(r)
  BY <1>9, DoneTyped DEF Abort, TypeOK
<1> QED
  BY <1>1, <1>2, <1>3, <1>4, <1>5, <1>6, <1>7, <1>8, <1>9 DEF Advance

\* So does every action of a run.
LEMMA RunTyped ==
  ASSUME TypeOK, NEW a \in Run, StartRun(a) \/ Orchestrate(a)
  PROVE  TypeOK'
<1> USE CacheAssumption DEF Goto, Fill, database
<1>1. CASE StartRun(a) \/ RunFails(a)
  BY <1>1 DEF StartRun, RunFails, TypeOK, Place
<1>2. CASE MLAnswers(a)
  BY <1>2, CalculateTyped DEF MLAnswers, Changed, Busy, TypeOK, Place
<1>3. CASE Save(a)
  BY <1>3 DEF Save, Changed, Busy, TypeOK, Place
<1>4. CASE GetLatest(a)
  BY <1>4 DEF GetLatest, TypeOK, Place
<1>5. CASE DelLatest(a) \/ DelDashboard(a) \/ DelSeries(a)
  BY <1>5 DEF DelLatest, DelDashboard, DelSeries, Delete, Busy, TypeOK, Place, Key
<1>6. CASE RunSetLatest(a)
  BY <1>6 DEF RunSetLatest, TypeOK, Place, Key
<1> QED
  BY <1>1, <1>2, <1>3, <1>4, <1>5, <1>6 DEF Orchestrate

\* Every step keeps the types.
LEMMA TypeStep ==
  ASSUME TypeOK, [Next]_vars
  PROVE  TypeOK'
<1>1. ASSUME NEW r \in Reader, StartDashboard(r) \/ StartSeries(r) \/ Advance(r)
      PROVE  TypeOK'
  BY <1>1, ReaderTyped
<1>2. ASSUME NEW a \in Run, StartRun(a) \/ Orchestrate(a)
      PROVE  TypeOK'
  BY <1>2, RunTyped
<1>3. CASE MLAlone
  BY <1>3, CalculateTyped DEF MLAlone, TypeOK, Busy
<1>4. CASE \E k \in Key : Expire(k)
  BY <1>4 DEF Expire, TypeOK, Key, database
<1>5. CASE UNCHANGED vars
  BY <1>5 DEF vars, database, TypeOK
<1> QED
  BY <1>1, <1>2, <1>3, <1>4, <1>5 DEF Next

\* The cache and the database behind it keep their types.
THEOREM CacheTypeCorrect == Spec => []TypeOK
<1>1. Init => TypeOK
  BY CacheAssumption DEF Init, TypeOK, Version, View, Blank, Place, Key
<1>2. TypeOK /\ [Next]_vars => TypeOK'
  BY TypeStep
<1> QED
  BY <1>1, <1>2, PTL DEF Spec

-----------------------------------------------------------------------------
(***************************************************************************)
(* What the inductive invariant needs of a step.                           *)
(***************************************************************************)
\* A calculation that changed the latest row committed everything; one that did not,
\* committed nothing, because a new version is above every version so far.
LEMMA CalculateEffect ==
  ASSUME TypeOK, Bounded, Calculate
  PROVE  /\ computed' = computed + 1 /\ computed \in Nat /\ computed' \in Version
         /\ \/ /\ lsi' = computed' /\ details' = computed' /\ lsi' # lsi
               /\ persisted' = persisted \cup {computed'}
            \/ UNCHANGED <<lsi, details, persisted>>
<1>1. computed \in Nat /\ lsi \in Nat /\ lsi <= computed
  BY CacheAssumption DEF TypeOK, Bounded, Version
<1>2. computed' = computed + 1 /\ computed + 1 # lsi
  BY <1>1 DEF Calculate
<1> QED
  BY <1>1, <1>2, CalculateTyped DEF Calculate

\* Nobody is ahead of the calculations after one of them.
LEMMA CalculateBounded ==
  ASSUME TypeOK, Bounded, Calculate
  PROVE  /\ lsi' <= computed' /\ details' <= computed' /\ computed <= computed'
         /\ \A p \in persisted' : p <= details'
<1>1. computed \in Nat /\ lsi \in Nat /\ details \in Nat /\ \A p \in persisted : p \in Nat
  BY CacheAssumption DEF TypeOK, Version
<1> QED
  BY <1>1, CalculateEffect DEF Bounded

\* Nothing refers to a calculation that has not happened: a request's step.
LEMMA ReaderBounded ==
  ASSUME TypeOK, TypeOK', Bounded,
         NEW r \in Reader, StartDashboard(r) \/ StartSeries(r) \/ Advance(r)
  PROVE  Bounded'
<1>0. /\ computed \in Nat /\ lsi \in Nat /\ details \in Nat
      /\ \A a \in Run : got[a] \in Nat /\ snap[a] \in Nat
      /\ \A q \in Reader : view[q] \in View /\ view[q].lsi \in Nat
      /\ cache["latest"] # None => cache["latest"] \in Nat
      /\ cache["dashboard"] # None => cache["dashboard"].lsi \in Nat
  BY CacheAssumption DEF TypeOK, Version, View, Key
<1> USE DEF Goto, database
<1>1. CASE StartDashboard(r) \/ StartSeries(r)
  BY <1>1 DEF StartDashboard, StartSeries, Bounded
<1>2. CASE CachedLatest(r)
  <2>1. \A q \in Reader : view'[q].lsi <= computed
    BY <1>0, <1>2 DEF CachedLatest, Bounded, TypeOK, View
  <2> QED
    BY <1>2, <2>1 DEF CachedLatest, Bounded
<1>3. CASE StoredLatest(r) \/ ReadSeries(r)
  <2>1. \A q \in Reader : view'[q].lsi <= computed
    BY <1>0, <1>3 DEF StoredLatest, ReadSeries, Bounded, TypeOK, View
  <2> QED
    BY <1>3, <2>1 DEF StoredLatest, ReadSeries, Bounded
<1>4. CASE CurrentFromML(r)
  <2>1. CASE Calculate /\ view' = [view EXCEPT ![r] =
               [lsi |-> computed', contributions |-> computed', flags |-> computed']]
    <3>1. computed' = computed + 1
      BY <2>1, CalculateEffect
    <3>2. \A q \in Reader : view'[q].lsi <= computed'
      BY <1>0, <2>1, <3>1 DEF Bounded, TypeOK
    <3>3. \A v \in Nat : v <= computed => v <= computed'
      BY <1>0, <3>1
    <3>4. \A a \in Run : got[a] <= computed' /\ snap[a] <= computed'
      BY <1>0, <3>3 DEF Bounded
    <3>5. /\ cache["latest"] # None => cache["latest"] <= computed'
          /\ cache["dashboard"] # None => cache["dashboard"].lsi <= computed'
      BY <1>0, <3>3 DEF Bounded
    <3> QED
      BY <1>4, <2>1, <3>2, <3>4, <3>5, CalculateBounded DEF CurrentFromML, Bounded
  <2>2. CASE view' = [view EXCEPT ![r].lsi = lsi] /\ UNCHANGED database
    <3>1. \A q \in Reader : view'[q].lsi <= computed
      BY <1>0, <2>2 DEF Bounded, TypeOK, View
    <3> QED
      BY <1>4, <2>2, <3>1 DEF CurrentFromML, Bounded
  <2> QED
    BY <1>4, <2>1, <2>2 DEF CurrentFromML
<1>5. CASE SetLatest(r)
  <2>1. cache'["latest"] # None => cache'["latest"] <= computed
    BY <1>0, <1>5 DEF SetLatest, Fill, Bounded, TypeOK, Key
  <2>2. cache'["dashboard"] = cache["dashboard"]
    BY <1>5 DEF SetLatest, Fill, TypeOK, Key
  <2> QED
    BY <1>5, <2>1, <2>2 DEF SetLatest, Bounded
<1>6. CASE ReadContributions(r) \/ ReadFlags(r)
  <2>1. \A q \in Reader : view'[q].lsi = view[q].lsi
    BY <1>0, <1>6 DEF ReadContributions, ReadFlags, TypeOK, View
  <2> QED
    BY <1>6, <2>1 DEF ReadContributions, ReadFlags, Bounded
<1>7. CASE SetDashboard(r) \/ SetSeries(r) \/ Abort(r)
  <2>1. \A q \in Reader : view'[q].lsi <= computed
    BY <1>0, <1>7 DEF SetDashboard, SetSeries, Abort, Done, Blank, Bounded, TypeOK
  <2>2. cache'["latest"] = cache["latest"]
    BY <1>7 DEF SetDashboard, SetSeries, Abort, Fill, TypeOK, Key
  <2>3. cache'["dashboard"] # None => cache'["dashboard"].lsi <= computed
    BY <1>0, <1>7 DEF SetDashboard, SetSeries, Abort, Fill, TypeOK, Key, Bounded
  <2> QED
    BY <1>7, <2>1, <2>2, <2>3 DEF SetDashboard, SetSeries, Abort, Bounded
<1> QED
  BY <1>1, <1>2, <1>3, <1>4, <1>5, <1>6, <1>7 DEF Advance

\* Nothing refers to a calculation that has not happened: a run's step.
LEMMA RunBounded ==
  ASSUME TypeOK, TypeOK', Bounded, NEW a \in Run, StartRun(a) \/ Orchestrate(a)
  PROVE  Bounded'
<1>0. /\ computed \in Nat /\ lsi \in Nat /\ details \in Nat
      /\ \A b \in Run : got[b] \in Nat /\ snap[b] \in Nat
      /\ \A q \in Reader : view[q].lsi \in Nat
      /\ cache["latest"] # None => cache["latest"] \in Nat
      /\ cache["dashboard"] # None => cache["dashboard"].lsi \in Nat
  BY CacheAssumption DEF TypeOK, Version, View, Key
<1> USE DEF Goto, database
<1>1. CASE StartRun(a) \/ RunFails(a)
  BY <1>1 DEF StartRun, RunFails, Bounded
<1>2. CASE MLAnswers(a)
  <2>1. Calculate /\ got' = [got EXCEPT ![a] = computed'] /\ UNCHANGED <<cache, view, snap>>
    BY <1>2 DEF MLAnswers
  <2>2. computed' = computed + 1
    BY <2>1, CalculateEffect
  <2>3. \A v \in Nat : v <= computed => v <= computed'
    BY <1>0, <2>2
  <2>4. \A b \in Run : got'[b] <= computed' /\ snap[b] <= computed'
    BY <1>0, <2>1, <2>2, <2>3 DEF Bounded, TypeOK
  <2>5. \A q \in Reader : view[q].lsi <= computed'
    BY <1>0, <2>3 DEF Bounded
  <2>6. /\ cache["latest"] # None => cache["latest"] <= computed'
        /\ cache["dashboard"] # None => cache["dashboard"].lsi <= computed'
    BY <1>0, <2>3 DEF Bounded
  <2> QED
    BY <2>1, <2>4, <2>5, <2>6, CalculateBounded DEF Bounded
<1>3. CASE Save(a) \/ GetLatest(a)
  BY <1>0, <1>3 DEF Save, GetLatest, Bounded, TypeOK
<1>4. CASE DelLatest(a) \/ DelDashboard(a) \/ DelSeries(a)
  BY <1>4 DEF DelLatest, DelDashboard, DelSeries, Delete, Bounded, TypeOK, Key
<1>5. CASE RunSetLatest(a)
  BY <1>0, <1>5 DEF RunSetLatest, Fill, Bounded, TypeOK, Key
<1> QED
  BY <1>1, <1>2, <1>3, <1>4, <1>5 DEF Orchestrate

\* Nothing refers to a calculation that has not happened, after any step.
LEMMA BoundedStep ==
  ASSUME TypeOK, Bounded, [Next]_vars
  PROVE  Bounded'
<1>1. ASSUME NEW r \in Reader, StartDashboard(r) \/ StartSeries(r) \/ Advance(r)
      PROVE  Bounded'
  BY <1>1, ReaderBounded, TypeStep
<1>2. ASSUME NEW a \in Run, StartRun(a) \/ Orchestrate(a)
      PROVE  Bounded'
  BY <1>2, RunBounded, TypeStep
<1>3. CASE MLAlone
  <2>0. /\ computed \in Nat
        /\ \A b \in Run : got[b] \in Nat /\ snap[b] \in Nat
        /\ \A q \in Reader : view[q].lsi \in Nat
        /\ cache["latest"] # None => cache["latest"] \in Nat
        /\ cache["dashboard"] # None => cache["dashboard"].lsi \in Nat
    BY CacheAssumption DEF TypeOK, Version, View, Key
  <2>1. Calculate /\ UNCHANGED <<cache, view, got, snap>>
    BY <1>3 DEF MLAlone
  <2>2. \A v \in Nat : v <= computed => v <= computed'
    BY <2>0, <2>1, CalculateEffect
  <2>3. /\ \A b \in Run : got[b] <= computed' /\ snap[b] <= computed'
        /\ \A q \in Reader : view[q].lsi <= computed'
        /\ cache["latest"] # None => cache["latest"] <= computed'
        /\ cache["dashboard"] # None => cache["dashboard"].lsi <= computed'
    BY <2>0, <2>2 DEF Bounded
  <2> QED
    BY <2>1, <2>3, CalculateBounded DEF Bounded
<1>4. CASE \E k \in Key : Expire(k)
  BY <1>4 DEF Expire, TypeOK, Key, database, Bounded
<1>5. CASE UNCHANGED vars
  BY <1>5 DEF vars, database, Bounded
<1> QED
  BY <1>1, <1>2, <1>3, <1>4, <1>5 DEF Next

-----------------------------------------------------------------------------
(***************************************************************************)
(* What is current stays current, or is named by behind or excused.        *)
(***************************************************************************)
\* The three parts of "current", for every reader, run and key.
AllCurrent ==
  /\ FreshAfterInvalidation
  /\ \A r \in Reader : ReaderCurrent(r)
  /\ \A a \in Run : RunCurrent(a)

\* When the database changes every key is excused and everyone else at work is behind, so
\* only the one who changed it has to be looked at.
LEMMA ChangeKeepsCurrent ==
  ASSUME TypeOK, NEW x \in Reader \cup Run, AllCurrent,
         NEW place \in Place, Goto(x, place),
         behind' = behind \cup (Busy \ {x}), excused' = Key,
         \A q \in Reader \ {x} : view'[q] = view[q],
         UNCHANGED snap,
         x \in Reader => ReaderCurrent(x)', x \in Run => RunCurrent(x)'
  PROVE  AllCurrent'
<1>1. \A y \in (Reader \cup Run) \ {x} : y \notin behind' => pc'[y] = "idle"
  BY DEF TypeOK, Busy, Goto
<1>2. FreshAfterInvalidation'
  BY DEF FreshAfterInvalidation
<1>3. \A r \in Reader : ReaderCurrent(r)'
  BY <1>1 DEF ReaderCurrent
<1>4. \A a \in Run : RunCurrent(a)'
  BY <1>1 DEF RunCurrent
<1> QED
  BY <1>2, <1>3, <1>4 DEF AllCurrent

\* When nothing in the database and no entry changes, only the actor has to be looked at.
LEMMA QuietKeepsCurrent ==
  ASSUME TypeOK, NEW x \in Reader \cup Run, AllCurrent,
         NEW place \in Place, Goto(x, place),
         \A y \in (Reader \cup Run) \ {x} : y \in behind => y \in behind',
         UNCHANGED <<lsi, details, cache, excused>>,
         \A q \in Reader \ {x} : view'[q] = view[q],
         \A b \in Run \ {x} : snap'[b] = snap[b],
         x \in Reader => ReaderCurrent(x)', x \in Run => RunCurrent(x)'
  PROVE  AllCurrent'
<1>1. \A y \in (Reader \cup Run) \ {x} : pc'[y] = pc[y]
  BY DEF TypeOK, Goto
<1>2. FreshAfterInvalidation'
  BY DEF FreshAfterInvalidation, AllCurrent, Current
<1>3. \A r \in Reader : ReaderCurrent(r)'
  BY <1>1 DEF ReaderCurrent, AllCurrent
<1>4. \A a \in Run : RunCurrent(a)'
  BY <1>1 DEF RunCurrent, AllCurrent
<1> QED
  BY <1>2, <1>3, <1>4 DEF AllCurrent

\* Filling a key with what is current keeps the entries fresh; what is filled by someone
\* behind excuses the key.
LEMMA FillKeepsFresh ==
  ASSUME TypeOK, NEW x \in Reader \cup Run, NEW k \in Key, NEW e,
         FreshAfterInvalidation, Fill(x, k, e), UNCHANGED <<lsi, details>>,
         x \notin behind => e = Current(k)
  PROVE  FreshAfterInvalidation'
<1>1. \A j \in Key : Current(j)' = Current(j)
  BY DEF Current
<1> QED
  BY <1>1 DEF Fill, FreshAfterInvalidation, TypeOK

\* A request's step keeps what is current current.
LEMMA ReaderKeepsCurrent ==
  ASSUME TypeOK, Bounded, AllCurrent,
         NEW r \in Reader, StartDashboard(r) \/ StartSeries(r) \/ Advance(r)
  PROVE  AllCurrent'
<1>0. r \in Reader \cup Run /\ r \notin Run
  BY CacheAssumption
<1>v. view[r] \in View /\ DOMAIN view = Reader
  BY DEF TypeOK
<1>p. DOMAIN pc = Reader \cup Run
  BY DEF TypeOK
<1> USE DEF database
<1>1. CASE StartDashboard(r) \/ StartSeries(r)
  <2>1. PICK place \in {"cacheLatest", "dbSeries"} : Goto(r, place)
    BY <1>1 DEF StartDashboard, StartSeries
  <2>2. ReaderCurrent(r)'
    BY <1>0, <1>p, <2>1 DEF ReaderCurrent, Goto
  <2> QED
    BY <1>0, <1>1, <2>1, <2>2, QuietKeepsCurrent DEF StartDashboard, StartSeries, Place
<1>2. CASE CachedLatest(r)
  <2>1. CASE /\ cache["latest"] # None
             /\ view' = [view EXCEPT ![r].lsi = cache["latest"]]
             /\ behind' = IF "latest" \in excused THEN behind \cup {r} ELSE behind
             /\ Goto(r, "contributions")
    <3>1. r \notin behind' => cache["latest"] = lsi
      BY <2>1 DEF AllCurrent, FreshAfterInvalidation, Current, Key
    <3>2. view'[r].lsi = cache["latest"] /\ pc'[r] = "contributions"
      BY <1>0, <1>v, <1>p, <2>1 DEF View, Goto
    <3>3. ReaderCurrent(r)'
      BY <1>2, <3>1, <3>2 DEF ReaderCurrent, CachedLatest
    <3> QED
      BY <1>0, <1>2, <2>1, <3>3, QuietKeepsCurrent DEF CachedLatest, Place
  <2>2. CASE Goto(r, "dbLatest") /\ UNCHANGED <<view, behind>>
    <3>1. ReaderCurrent(r)'
      BY <1>0, <1>p, <2>2 DEF ReaderCurrent, Goto
    <3> QED
      BY <1>0, <1>2, <2>2, <3>1, QuietKeepsCurrent DEF CachedLatest, Place
  <2> QED
    BY <1>2, <2>1, <2>2 DEF CachedLatest
<1>3. CASE StoredLatest(r) \/ ReadSeries(r)
  <2>1. PICK place \in {"mlCurrent", "setLatest", "setSeries"} : Goto(r, place)
    BY <1>3 DEF StoredLatest, ReadSeries
  <2>2. view'[r].lsi = lsi
    BY <1>v, <1>3 DEF StoredLatest, ReadSeries, View
  <2>3. ReaderCurrent(r)'
    BY <1>0, <1>p, <1>3, <2>1, <2>2 DEF ReaderCurrent, Goto, StoredLatest, ReadSeries
  <2> QED
    <3>1. place \in Place /\ \A q \in Reader \ {r} : view'[q] = view[q]
      BY <1>v, <1>3, <2>1 DEF StoredLatest, ReadSeries, Place
    <3>2. UNCHANGED <<lsi, details, cache, excused, snap, behind>>
      BY <1>3 DEF StoredLatest, ReadSeries
    <3> QED
      BY <1>0, <2>1, <2>3, <3>1, <3>2, QuietKeepsCurrent
<1>4. CASE CurrentFromML(r)
  <2>1. CASE /\ Calculate
             /\ view' = [view EXCEPT ![r] =
                  [lsi |-> computed', contributions |-> computed', flags |-> computed']]
             /\ IF lsi' = lsi THEN behind' = behind \cup {r} /\ UNCHANGED excused
                ELSE Changed(r)
             /\ Goto(r, "setDashboard")
    <3>1. /\ view'[r].lsi = computed' /\ view'[r].contributions = computed'
          /\ view'[r].flags = computed'
      BY <1>v, <2>1
    <3>2. CASE UNCHANGED <<lsi, details, persisted>>
      <4>1. ReaderCurrent(r)'
        BY <2>1, <3>2 DEF ReaderCurrent
      <4> QED
        BY <1>0, <1>4, <2>1, <3>2, <4>1, QuietKeepsCurrent DEF CurrentFromML, Place
    <3>3. CASE lsi' = computed' /\ details' = computed' /\ lsi' # lsi
      <4>1. ReaderCurrent(r)'
        BY <3>1, <3>3 DEF ReaderCurrent
      <4> QED
        BY <1>0, <1>4, <2>1, <3>3, <4>1, ChangeKeepsCurrent DEF CurrentFromML, Changed, Place
    <3> QED
      BY <2>1, <3>2, <3>3, CalculateEffect
  <2>2. CASE /\ view' = [view EXCEPT ![r].lsi = lsi] /\ Goto(r, "contributions")
             /\ UNCHANGED <<database, behind, excused>>
    <3>1. view'[r].lsi = lsi /\ pc'[r] = "contributions"
      BY <1>0, <1>v, <1>p, <2>2 DEF View, Goto
    <3>2. ReaderCurrent(r)'
      BY <2>2, <3>1 DEF ReaderCurrent
    <3> QED
      BY <1>0, <1>4, <2>2, <3>2, QuietKeepsCurrent DEF CurrentFromML, Place
  <2> QED
    BY <1>4, <2>1, <2>2 DEF CurrentFromML
<1>5. CASE SetLatest(r)
  <2>1. r \notin behind => view[r].lsi = Current("latest")
    BY <1>5 DEF SetLatest, AllCurrent, ReaderCurrent, Current
  <2>2. FreshAfterInvalidation'
    BY <1>0, <1>5, <2>1, FillKeepsFresh DEF SetLatest, AllCurrent, Key
  <2>3. pc'[r] = "contributions" /\ \A y \in (Reader \cup Run) \ {r} : pc'[y] = pc[y]
    BY <1>0, <1>p, <1>5 DEF SetLatest, Goto
  <2>4. \A q \in Reader : ReaderCurrent(q)'
    BY <1>5, <2>1, <2>3 DEF SetLatest, AllCurrent, ReaderCurrent, Current
  <2>5. \A a \in Run : RunCurrent(a)'
    BY <1>0, <1>5, <2>3 DEF SetLatest, AllCurrent, RunCurrent
  <2> QED
    BY <2>2, <2>4, <2>5 DEF AllCurrent
<1>6. CASE ReadContributions(r)
  <2>1. /\ view'[r].contributions = details /\ view'[r].lsi = view[r].lsi
        /\ pc'[r] = "flags"
    BY <1>0, <1>v, <1>p, <1>6 DEF ReadContributions, View, Goto
  <2>2. ReaderCurrent(r)'
    BY <1>6, <2>1 DEF ReadContributions, ReaderCurrent, AllCurrent
  <2> QED
    BY <1>0, <1>6, <2>2, QuietKeepsCurrent DEF ReadContributions, Place
<1>7. CASE ReadFlags(r)
  <2>1. /\ view'[r].contributions = view[r].contributions /\ view'[r].lsi = view[r].lsi
        /\ view'[r].flags = details /\ pc'[r] = "setDashboard"
    BY <1>0, <1>v, <1>p, <1>7 DEF ReadFlags, View, Goto
  <2>2. ReaderCurrent(r)'
    BY <1>7, <2>1 DEF ReadFlags, ReaderCurrent, AllCurrent
  <2> QED
    BY <1>0, <1>7, <2>2, QuietKeepsCurrent DEF ReadFlags, Place
<1>8. CASE SetDashboard(r) \/ SetSeries(r)
  <2>1. SetDashboard(r) /\ r \notin behind => view[r] = Current("dashboard")
    <3> SUFFICES ASSUME SetDashboard(r), r \notin behind
                 PROVE  view[r] = Current("dashboard")
      OBVIOUS
    <3>1. view[r].lsi = lsi /\ view[r].contributions = details /\ view[r].flags = details
      BY DEF SetDashboard, AllCurrent, ReaderCurrent
    <3>2. view[r] = [lsi |-> view[r].lsi, contributions |-> view[r].contributions,
                     flags |-> view[r].flags]
      BY <1>v DEF View
    <3> QED
      BY <3>1, <3>2 DEF Current
  <2>2. SetSeries(r) /\ r \notin behind => view[r].lsi = Current("series")
    BY DEF SetSeries, AllCurrent, ReaderCurrent, Current
  <2>3. FreshAfterInvalidation'
    BY <1>0, <1>8, <2>1, <2>2, FillKeepsFresh DEF SetDashboard, SetSeries, AllCurrent, Key
  <2>4. /\ pc'[r] = "idle" /\ \A y \in (Reader \cup Run) \ {r} : pc'[y] = pc[y]
        /\ \A q \in Reader \ {r} : view'[q] = view[q]
        /\ behind' = behind \ {r}
    BY <1>0, <1>v, <1>p, <1>8 DEF SetDashboard, SetSeries, Done, Goto
  <2>5. \A q \in Reader : ReaderCurrent(q)'
    BY <1>8, <2>4 DEF SetDashboard, SetSeries, AllCurrent, ReaderCurrent
  <2>6. \A a \in Run : RunCurrent(a)'
    BY <1>0, <1>8, <2>4 DEF SetDashboard, SetSeries, AllCurrent, RunCurrent
  <2> QED
    BY <2>3, <2>5, <2>6 DEF AllCurrent
<1>9. CASE Abort(r)
  <2>1. ReaderCurrent(r)'
    BY <1>0, <1>p, <1>9 DEF Abort, Done, Goto, ReaderCurrent
  <2> QED
    BY <1>0, <1>9, <2>1, QuietKeepsCurrent DEF Abort, Done, Place
<1> QED
  BY <1>1, <1>2, <1>3, <1>4, <1>5, <1>6, <1>7, <1>8, <1>9 DEF Advance

\* A run's step keeps what is current current.
LEMMA RunKeepsCurrent ==
  ASSUME TypeOK, Bounded, AllCurrent, NEW a \in Run, StartRun(a) \/ Orchestrate(a)
  PROVE  AllCurrent'
<1>0. a \in Reader \cup Run /\ a \notin Reader
  BY CacheAssumption
<1>p. DOMAIN pc = Reader \cup Run /\ DOMAIN snap = Run
  BY DEF TypeOK
<1> USE DEF database
<1>1. CASE StartRun(a) \/ RunFails(a)
  <2>1. PICK place \in {"call", "idle"} : Goto(a, place)
    BY <1>1 DEF StartRun, RunFails
  <2>2. RunCurrent(a)'
    BY <1>0, <1>p, <2>1 DEF RunCurrent, Goto
  <2> QED
    BY <1>0, <1>1, <2>1, <2>2, QuietKeepsCurrent DEF StartRun, RunFails, Place
<1>2. CASE MLAnswers(a)
  <2>1. pc'[a] = "save" /\ Calculate
    BY <1>0, <1>p, <1>2 DEF MLAnswers, Goto
  <2>2. RunCurrent(a)'
    BY <2>1 DEF RunCurrent
  <2>3. CASE UNCHANGED <<lsi, details, persisted>>
    BY <1>0, <1>2, <2>2, <2>3, QuietKeepsCurrent DEF MLAnswers, Place
  <2>4. CASE lsi' # lsi
    BY <1>0, <1>2, <2>2, <2>4, ChangeKeepsCurrent DEF MLAnswers, Changed, Place
  <2> QED
    BY <2>1, <2>3, <2>4, CalculateEffect
<1>3. CASE Save(a)
  <2>1. RunCurrent(a)'
    BY <1>0, <1>p, <1>3 DEF RunCurrent, Save, Goto
  <2> QED
    BY <1>0, <1>3, <2>1, ChangeKeepsCurrent DEF Save, Changed, Place
<1>4. CASE GetLatest(a)
  <2>1. RunCurrent(a)'
    BY <1>0, <1>p, <1>4 DEF RunCurrent, GetLatest, Goto
  <2> QED
    BY <1>0, <1>4, <2>1, <1>p, QuietKeepsCurrent DEF GetLatest, Place
<1>5. ASSUME NEW k \in Key, NEW next \in Place, Delete(a, k, next),
             pc[a] \in {"delLatest", "delDashboard", "delSeries"}
      PROVE  AllCurrent'
  <2>1. \A j \in Key : Current(j)' = Current(j)
    BY <1>5 DEF Current, Delete
  <2>2. FreshAfterInvalidation'
    BY <1>5, <2>1 DEF Delete, AllCurrent, FreshAfterInvalidation, TypeOK
  <2>3. \A y \in (Reader \cup Run) \ {a} : pc'[y] = pc[y]
    BY <1>0, <1>p, <1>5 DEF Delete, Goto
  <2>4. behind \subseteq behind'
    BY <1>5 DEF Delete
  <2>5. \A r \in Reader : ReaderCurrent(r)'
    BY <1>0, <1>5, <2>3, <2>4 DEF Delete, AllCurrent, ReaderCurrent
  <2>6. \A b \in Run : RunCurrent(b)'
    BY <1>0, <1>5, <2>3, <2>4 DEF Delete, AllCurrent, RunCurrent
  <2> QED
    BY <2>2, <2>5, <2>6 DEF AllCurrent
<1>6. CASE DelLatest(a) \/ DelDashboard(a) \/ DelSeries(a)
  BY <1>5, <1>6 DEF DelLatest, DelDashboard, DelSeries, Key, Place
<1>7. CASE RunSetLatest(a)
  <2>1. a \notin behind => snap[a] = Current("latest")
    BY <1>7 DEF RunSetLatest, AllCurrent, RunCurrent, Current
  <2>2. FreshAfterInvalidation'
    BY <1>0, <1>7, <2>1, FillKeepsFresh DEF RunSetLatest, AllCurrent, Key
  <2>3. pc'[a] = "idle" /\ \A y \in (Reader \cup Run) \ {a} : pc'[y] = pc[y]
    BY <1>0, <1>p, <1>7 DEF RunSetLatest, Goto
  <2>4. \A r \in Reader : ReaderCurrent(r)'
    BY <1>0, <1>7, <2>3 DEF RunSetLatest, AllCurrent, ReaderCurrent
  <2>5. \A b \in Run : RunCurrent(b)'
    BY <1>7, <2>3 DEF RunSetLatest, AllCurrent, RunCurrent
  <2> QED
    BY <2>2, <2>4, <2>5 DEF AllCurrent
<1> QED
  BY <1>1, <1>2, <1>3, <1>4, <1>6, <1>7 DEF Orchestrate

\* Every step keeps what is current current.
LEMMA CurrentStep ==
  ASSUME TypeOK, Bounded, AllCurrent, [Next]_vars
  PROVE  AllCurrent'
<1>1. ASSUME NEW r \in Reader, StartDashboard(r) \/ StartSeries(r) \/ Advance(r)
      PROVE  AllCurrent'
  BY <1>1, ReaderKeepsCurrent
<1>2. ASSUME NEW a \in Run, StartRun(a) \/ Orchestrate(a)
      PROVE  AllCurrent'
  BY <1>2, RunKeepsCurrent
<1>3. CASE MLAlone
  <2>1. \A y \in Reader \cup Run : y \notin behind' => pc'[y] = "idle"
    BY <1>3 DEF MLAlone, Busy
  <2>2. \A r \in Reader : ReaderCurrent(r)'
    BY <2>1 DEF ReaderCurrent
  <2>3. \A a \in Run : RunCurrent(a)'
    BY <2>1 DEF RunCurrent
  <2> QED
    BY <1>3, <2>2, <2>3 DEF MLAlone, AllCurrent, FreshAfterInvalidation
<1>4. CASE \E k \in Key : Expire(k)
  <2>1. /\ \A j \in Key : Current(j)' = Current(j)
        /\ \A j \in Key : cache'[j] \in {cache[j], None}
        /\ UNCHANGED <<database, pc, view, snap, behind, excused>>
    BY <1>4 DEF Expire, Current, database, TypeOK
  <2>2. FreshAfterInvalidation'
    BY <2>1 DEF AllCurrent, FreshAfterInvalidation
  <2> QED
    BY <2>1, <2>2 DEF AllCurrent, ReaderCurrent, RunCurrent, database
<1>5. CASE UNCHANGED vars
  BY <1>5 DEF vars, database, AllCurrent, FreshAfterInvalidation, Current, ReaderCurrent,
              RunCurrent
<1> QED
  BY <1>1, <1>2, <1>3, <1>4, <1>5 DEF Next

-----------------------------------------------------------------------------
(***************************************************************************)
(* What a request has read is in the order of the calculations.            *)
(***************************************************************************)
\* A new calculation leaves what was in order in order: its version is above the LSI of
\* every view and entry, and the details only grow.
LEMMA OrderKept ==
  ASSUME TypeOK, Bounded,
         \/ Calculate
         \/ UNCHANGED <<details, persisted>>
  PROVE  \A v \in View : /\ v.lsi <= computed /\ InOrder(v) => InOrder(v)'
                         /\ v.lsi <= computed /\ HalfRead(v) => HalfRead(v)'
<1> SUFFICES ASSUME NEW v \in View, v.lsi <= computed
             PROVE  (InOrder(v) => InOrder(v)') /\ (HalfRead(v) => HalfRead(v)')
  OBVIOUS
<1>1. /\ computed \in Nat /\ details \in Nat /\ details <= computed
      /\ v.lsi \in Nat /\ v.contributions \in Nat
  BY CacheAssumption DEF TypeOK, Bounded, Version, View
<1>2. CASE UNCHANGED <<details, persisted>>
  BY <1>2 DEF InOrder, HalfRead
<1>3. CASE Calculate
  <2>1. v.lsi \in persisted' => v.lsi \in persisted
    BY <1>1, <1>3, CalculateEffect
  <2>2. details' \in Nat /\ details <= details'
    BY <1>1, <1>3, CalculateEffect
  <2> QED
    BY <1>1, <2>1, <2>2 DEF InOrder, HalfRead
<1> QED
  BY <1>2, <1>3

\* A request's step keeps what it has read in order.
LEMMA ReaderKeepsOrder ==
  ASSUME TypeOK, Bounded, ReadInOrder,
         NEW r \in Reader, StartDashboard(r) \/ StartSeries(r) \/ Advance(r)
  PROVE  ReadInOrder'
<1>0. /\ \A q \in Reader : view[q] \in View /\ view[q].lsi <= computed
      /\ cache["dashboard"] # None =>
           cache["dashboard"] \in View /\ cache["dashboard"].lsi <= computed
  BY DEF TypeOK, Bounded, Key
<1>1. DOMAIN pc = Reader \cup Run /\ DOMAIN view = Reader /\ r \in Reader \cup Run
  BY DEF TypeOK
<1>2. Calculate \/ UNCHANGED <<details, persisted>>
  BY DEF Advance, StartDashboard, StartSeries, CachedLatest, StoredLatest, CurrentFromML,
         SetLatest, ReadContributions, ReadFlags, SetDashboard, ReadSeries, SetSeries, Abort,
         database
<1>3. ASSUME NEW q \in Reader, q # r
      PROVE  /\ pc'[q] = pc[q] /\ view'[q] = view[q]
  BY <1>1, <1>3 DEF Advance, StartDashboard, StartSeries, CachedLatest, StoredLatest,
         CurrentFromML, SetLatest, ReadContributions, ReadFlags, SetDashboard, ReadSeries,
         SetSeries, Abort, Done, Goto
<1>4. ASSUME NEW q \in Reader, q # r
      PROVE  /\ pc'[q] = "flags" => HalfRead(view[q])'
             /\ pc'[q] = "setDashboard" => InOrder(view[q])'
  <2>1. view'[q] = view[q] /\ pc'[q] = pc[q]
    BY <1>3, <1>4
  <2> QED
    BY <1>0, <1>2, <2>1, OrderKept DEF ReadInOrder, InOrder, HalfRead
<1>5. CASE ReadContributions(r)
  <2>1. view'[r].contributions = details /\ view'[r].lsi = view[r].lsi /\ pc'[r] = "flags"
    BY <1>0, <1>1, <1>5 DEF ReadContributions, Goto, View
  <2>2. HalfRead(view[r])' /\ UNCHANGED <<details, persisted, cache>>
    BY <1>5, <2>1, CacheAssumption
       DEF HalfRead, Bounded, ReadContributions, database, TypeOK, Version
  <2> QED
    BY <1>4, <2>1, <2>2 DEF ReadInOrder, InOrder
<1>6. CASE ReadFlags(r)
  <2>1. /\ view'[r].contributions = view[r].contributions /\ view'[r].lsi = view[r].lsi
        /\ view'[r].flags = details /\ pc'[r] = "setDashboard"
    BY <1>0, <1>1, <1>6 DEF ReadFlags, Goto, View
  <2>2. UNCHANGED <<details, persisted, cache>> /\ pc[r] = "flags"
    BY <1>6 DEF ReadFlags, database
  <2>3. InOrder(view[r])'
    BY <2>1, <2>2 DEF InOrder, HalfRead, ReadInOrder
  <2> QED
    BY <1>4, <2>1, <2>2, <2>3 DEF ReadInOrder, InOrder
<1>7. CASE CurrentFromML(r)
  <2>1. cache' = cache
    BY <1>7 DEF CurrentFromML
  <2>2. cache["dashboard"] # None => InOrder(cache["dashboard"])'
    BY <1>0, <1>2, <2>1, OrderKept DEF ReadInOrder, InOrder
  <2>3. pc'[r] = "contributions" \/ (pc'[r] = "setDashboard" /\ Calculate
          /\ view' = [view EXCEPT ![r] =
               [lsi |-> computed', contributions |-> computed', flags |-> computed']])
    BY <1>1, <1>7 DEF CurrentFromML, Goto
  <2>4. pc'[r] = "setDashboard" => InOrder(view[r])'
    BY <1>1, <2>3, CalculateEffect DEF InOrder
  <2> QED
    BY <1>4, <2>1, <2>2, <2>3, <2>4 DEF ReadInOrder
<1>8. CASE SetDashboard(r)
  <2>1. pc'[r] = "idle" /\ UNCHANGED <<details, persisted>> /\ pc[r] = "setDashboard"
    BY <1>1, <1>8 DEF SetDashboard, Done, Goto, database
  <2>2. cache' = cache \/ cache'["dashboard"] = view[r]
    BY <1>8 DEF SetDashboard, Fill, TypeOK, Key
  <2>3. cache'["dashboard"] # None => InOrder(cache["dashboard"])'
    BY <2>1, <2>2 DEF ReadInOrder, InOrder
  <2> QED
    BY <1>4, <2>1, <2>3 DEF ReadInOrder
<1>9. CASE \/ StartDashboard(r) \/ StartSeries(r) \/ CachedLatest(r) \/ StoredLatest(r)
           \/ SetLatest(r) \/ ReadSeries(r) \/ SetSeries(r) \/ Abort(r)
  <2>1. pc'[r] \notin {"flags", "setDashboard"}
    BY <1>1, <1>9 DEF StartDashboard, StartSeries, CachedLatest, StoredLatest, SetLatest,
                      ReadSeries, SetSeries, Abort, Done, Goto
  <2>2. cache'["dashboard"] = cache["dashboard"] /\ UNCHANGED <<details, persisted>>
    BY <1>9 DEF StartDashboard, StartSeries, CachedLatest, StoredLatest, SetLatest,
                ReadSeries, SetSeries, Abort, Fill, TypeOK, Key, database
  <2> QED
    BY <1>4, <2>1, <2>2 DEF ReadInOrder, InOrder
<1> QED
  BY <1>5, <1>6, <1>7, <1>8, <1>9 DEF Advance

\* Every step keeps what was read, and what is cached of it, in order.
LEMMA OrderStep ==
  ASSUME TypeOK, Bounded, ReadInOrder, [Next]_vars
  PROVE  ReadInOrder'
<1>1. ASSUME NEW r \in Reader, StartDashboard(r) \/ StartSeries(r) \/ Advance(r)
      PROVE  ReadInOrder'
  BY <1>1, ReaderKeepsOrder
<1>2. ASSUME \A q \in Reader : pc'[q] = pc[q], view' = view,
             cache'["dashboard"] \in {cache["dashboard"], None},
             Calculate \/ UNCHANGED <<details, persisted>>
      PROVE  ReadInOrder'
  <2>1. /\ \A q \in Reader : view[q] \in View /\ view[q].lsi <= computed
        /\ cache["dashboard"] # None =>
             cache["dashboard"] \in View /\ cache["dashboard"].lsi <= computed
    BY DEF TypeOK, Bounded, Key
  <2>2. \A q \in Reader : /\ pc'[q] = "flags" => HalfRead(view[q])'
                          /\ pc'[q] = "setDashboard" => InOrder(view[q])'
    BY <1>2, <2>1, OrderKept DEF ReadInOrder, HalfRead, InOrder
  <2>3. cache'["dashboard"] # None => InOrder(cache["dashboard"])'
    BY <1>2, <2>1, OrderKept DEF ReadInOrder, InOrder
  <2> QED
    BY <2>2, <2>3 DEF ReadInOrder
<1>3. ASSUME NEW a \in Run, StartRun(a) \/ Orchestrate(a)
      PROVE  ReadInOrder'
  <2>1. \A q \in Reader : pc'[q] = pc[q]
    BY <1>3, CacheAssumption
       DEF Orchestrate, StartRun, MLAnswers, Save, GetLatest, DelLatest, DelDashboard, DelSeries,
           Delete, RunSetLatest, RunFails, Goto, TypeOK
  <2>2. cache'["dashboard"] \in {cache["dashboard"], None}
    BY <1>3 DEF Orchestrate, StartRun, MLAnswers, Save, GetLatest, DelLatest, DelDashboard,
           DelSeries, Delete, RunSetLatest, RunFails, Fill, TypeOK, Key
  <2>3. view' = view /\ (Calculate \/ UNCHANGED <<details, persisted>>)
    BY <1>3 DEF Orchestrate, StartRun, MLAnswers, Save, GetLatest, DelLatest, DelDashboard,
           DelSeries, Delete, RunSetLatest, RunFails, database
  <2> QED
    BY <1>2, <2>1, <2>2, <2>3
<1>4. CASE MLAlone
  BY <1>2, <1>4 DEF MLAlone
<1>5. CASE \E k \in Key : Expire(k)
  BY <1>2, <1>5 DEF Expire, TypeOK, Key, database
<1>6. CASE UNCHANGED vars
  BY <1>2, <1>6 DEF vars, database
<1> QED
  BY <1>1, <1>3, <1>4, <1>5, <1>6 DEF Next

-----------------------------------------------------------------------------
(***************************************************************************)
(* The invariants.                                                         *)
(***************************************************************************)
\* The parts hold together.
LEMMA CacheInvariant == Spec => [](TypeOK /\ Bounded /\ AllCurrent /\ ReadInOrder)
<1> DEFINE Inv == TypeOK /\ Bounded /\ AllCurrent /\ ReadInOrder
<1>1. Init => Inv
  <2> SUFFICES ASSUME Init PROVE Inv
    OBVIOUS
  <2>1. TypeOK
    BY CacheAssumption DEF Init, TypeOK, Version, View, Blank, Place, Key
  <2>2. Bounded
    BY DEF Init, Bounded, Blank, Key
  <2>3. AllCurrent
    BY DEF Init, AllCurrent, FreshAfterInvalidation, ReaderCurrent, RunCurrent, Key
  <2>4. ReadInOrder
    BY DEF Init, ReadInOrder, Key
  <2> QED
    BY <2>1, <2>2, <2>3, <2>4
<1>2. Inv /\ [Next]_vars => Inv'
  BY TypeStep, BoundedStep, CurrentStep, OrderStep
<1> QED
  BY <1>1, <1>2, PTL DEF Spec

\* After an invalidation, and until the database changes, a key holds what PostgreSQL
\* holds, whatever requests and runs are at work: the entries a late request filled with
\* older data are exactly the excused ones (lsi_service.go:278, dashboard_service.go:106).
THEOREM CacheFreshAfterInvalidation == Spec => []FreshAfterInvalidation
<1>1. AllCurrent => FreshAfterInvalidation
  BY DEF AllCurrent
<1> QED
  BY <1>1, CacheInvariant, PTL

\* A dashboard, cached or about to be, shows contributions and flags of its own LSI or of
\* a later calculation, unless that LSI was never persisted.
THEOREM CacheDetailsNotOlder == Spec => []DetailsNotOlder
<1>1. ReadInOrder => DetailsNotOlder
  BY DEF ReadInOrder, DetailsNotOlder, InOrder
<1> QED
  BY <1>1, CacheInvariant, PTL
=============================================================================
