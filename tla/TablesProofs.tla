---------------------------- MODULE TablesProofs -----------------------------
(***************************************************************************)
(* Theorems about the daily tables of M1, M2, M3 and M5, for raw files of  *)
(* any length and any rows, any windows and limits: what a table says of a *)
(* day depends on the days up to it alone.                                 *)
(***************************************************************************)
EXTENDS MCDataPlane, PartsProofs

TableSpec == TableInit /\ [][TableNext]_tableVars

-----------------------------------------------------------------------------
(***************************************************************************)
(* What the operators of the notebooks look at: two columns that agree up  *)
(* to a day have the same history before it, the same carried value and    *)
(* the same score on it.                                                   *)
(***************************************************************************)
Agree(s, t, d) == \A e \in 1..d : s[e] = t[e]

\* The known values of some days depend on these days alone.
LEMMA KnownAgrees ==
  ASSUME NEW s, NEW t, NEW days, \A e \in days : s[e] = t[e]
  PROVE  Known(s, days) = Known(t, days)
<1>1. {e \in days : s[e] # NaN} = {e \in days : t[e] # NaN}
  OBVIOUS
<1> QED
  BY <1>1 DEF Known

\* The history before a day depends on the days before it alone.
LEMMA HistoryAgrees ==
  ASSUME NEW s, NEW t, NEW d \in Nat, Agree(s, t, d - 1), NEW window \in Nat
  PROVE  Recent(s, d, window) = Recent(t, d, window) /\ Before(s, d) = Before(t, d)
<1>1. \A e \in 1..(d - 1) : s[e] = t[e]
  BY DEF Agree
<1>2. \A e \in Larger(1, d - window)..(d - 1) : e \in 1..(d - 1)
  BY DEF Larger
<1> QED
  BY <1>1, <1>2, KnownAgrees DEF Recent, Before

\* What is carried to a day depends on the days up to it alone, for two limits that are
\* the same or reach back to the first day.
LEMMA CarriedAgrees ==
  ASSUME NEW s, NEW t, NEW d \in Nat, Agree(s, t, d), NEW l \in Nat, NEW m \in Nat,
         l = m \/ (d <= l /\ d <= m)
  PROVE  Carried(s, d, l) = Carried(t, d, m)
<1> DEFINE K == {e \in Larger(1, d - l)..d : s[e] # NaN}
           M == {e \in Larger(1, d - m)..d : t[e] # NaN}
<1>1. Larger(1, d - l) = Larger(1, d - m) /\ Larger(1, d - l) \in Nat /\ Larger(1, d - l) >= 1
  BY DEF Larger
<1>2. K = M /\ K \in SUBSET Int /\ \A e \in K : e <= d /\ s[e] = t[e]
  BY <1>1 DEF Agree
<1>3. K # {} => Max(K) \in K
  <2>1. K \in SUBSET Int /\ d \in Int /\ \A e \in K : e <= d
    BY <1>2
  <2> HIDE DEF K, M
  <2> QED
    BY <2>1, BoundedMax
<1>4. Carried(s, d, l) = IF K = {} THEN NaN ELSE s[Max(K)]
  BY DEF Carried
<1>5. Carried(t, d, m) = IF M = {} THEN NaN ELSE t[Max(M)]
  BY DEF Carried
<1> HIDE DEF K, M
<1>6. CASE K = {}
  BY <1>2, <1>4, <1>5, <1>6
<1>7. CASE K # {}
  <2>1. s[Max(K)] = t[Max(K)]
    BY <1>2, <1>3, <1>7
  <2> QED
    BY <1>2, <1>4, <1>5, <1>7, <2>1
<1> QED
  BY <1>6, <1>7

\* The scores of M2, M3 and M5 look at the day and at the days before it, that of M1 at
\* the window that ends on the day.
LEMMA ScoresAgree ==
  ASSUME NEW s, NEW t, NEW d \in Nat \ {0}, Agree(s, t, d)
  PROVE  /\ \A floor : HistoricalMadScore(s, d, floor) = HistoricalMadScore(t, d, floor)
         /\ OfzMadScore(s, d) = OfzMadScore(t, d)
         /\ \A window \in Nat : \A min, floor :
              ScoreNoLookahead(s, d, window, min, floor)
                = ScoreNoLookahead(t, d, window, min, floor)
         /\ RollingMadScore(s, d) = RollingMadScore(t, d)
         /\ PlacementGap(s, d) = PlacementGap(t, d)
<1>0. (d + 1) - 1 = d /\ d + 1 \in Nat /\ d - 1 \in Int
  OBVIOUS
<1>1. s[d] = t[d] /\ Agree(s, t, d - 1) /\ Agree(s, t, (d + 1) - 1)
  <2>1. s[d] = t[d] /\ Agree(s, t, d - 1)
    BY DEF Agree
  <2> QED
    BY <1>0, <2>1
<1>2. \A window \in Nat : Recent(s, d, window) = Recent(t, d, window) /\ Before(s, d) = Before(t, d)
  BY <1>0, <1>1, HistoryAgrees
<1>3. \A window \in Nat : /\ Recent(s, d + 1, window) = Recent(t, d + 1, window)
                         /\ Before(s, d + 1) = Before(t, d + 1)
  BY <1>0, <1>1, HistoryAgrees
<1>4. \A floor : HistoricalMadScore(s, d, floor) = HistoricalMadScore(t, d, floor)
  BY <1>1, <1>2, RepoAssumption DEF HistoricalMadScore
<1>5. OfzMadScore(s, d) = OfzMadScore(t, d)
  BY <1>1, <1>2, OfzAssumption DEF OfzMadScore
<1>6. \A window \in Nat : \A min, floor :
        ScoreNoLookahead(s, d, window, min, floor) = ScoreNoLookahead(t, d, window, min, floor)
  BY <1>1, <1>2 DEF ScoreNoLookahead
<1>7. RollingMadScore(s, d) = RollingMadScore(t, d)
  BY <1>1, <1>3, ReservesAssumption DEF RollingMadScore
<1>8. PlacementGap(s, d) = PlacementGap(t, d)
  BY <1>1, <1>2, TreasuryAssumption DEF PlacementGap
<1> QED
  BY <1>4, <1>5, <1>6, <1>7, <1>8

\* Days since an event depend on the events up to the day alone.
LEMMA DaysSinceAgrees ==
  ASSUME NEW A, NEW B, NEW d, A \intersect 1..d = B \intersect 1..d, NEW never
  PROVE  DaysSince(A, d, never) = DaysSince(B, d, never)
  BY DEF DaysSince

\* So do the sums and the differences of M5.
LEMMA WindowsAgree ==
  ASSUME NEW s, NEW t, NEW d \in Nat, Agree(s, t, d), NEW width \in Nat
  PROVE  WindowSum(s, d, width) = WindowSum(t, d, width) /\ Delta(s, d, width) = Delta(t, d, width)
<1>1. \A e \in Larger(1, d - width + 1)..d : e \in 1..d
  BY DEF Larger
<1>2. [e \in Larger(1, d - width + 1)..d |-> s[e]] = [e \in Larger(1, d - width + 1)..d |-> t[e]]
  BY <1>1 DEF Agree
<1>3. WindowSum(s, d, width) = WindowSum(t, d, width)
  BY <1>2 DEF WindowSum
<1>4. d - width >= 1 => s[d] = t[d] /\ s[d - width] = t[d - width]
  BY DEF Agree
<1> QED
  BY <1>3, <1>4 DEF Delta

-----------------------------------------------------------------------------
(***************************************************************************)
(* No lookahead, table by table: what the tables of the first k days say   *)
(* of a day, those of all n days say of it too.                            *)
(***************************************************************************)
\* q goes on where r ends.
GoesOn(r, q, k, n) ==
  /\ k <= n /\ DOMAIN r = 1..k /\ DOMAIN q = 1..n
  /\ \A e \in 1..k : r[e] = q[e]

HeldDays(x) == {e \in DOMAIN x : x[e] # <<>>}

\* The days with rows: those of r are those of q up to k, and the first one is the same.
LEMMA HeldGoesOn ==
  ASSUME NEW k \in Nat, NEW n \in Nat, NEW r, NEW q, GoesOn(r, q, k, n), HeldDays(r) # {}
  PROVE  /\ HeldDays(r) = HeldDays(q) \intersect 1..k
         /\ Max(HeldDays(r)) \in HeldDays(r) /\ \A e \in HeldDays(r) : e <= Max(HeldDays(r))
         /\ Max(HeldDays(q)) \in HeldDays(q) /\ \A e \in HeldDays(q) : e <= Max(HeldDays(q))
         /\ Max(HeldDays(r)) \in 1..k /\ Max(HeldDays(q)) \in 1..n
         /\ Max(HeldDays(r)) <= Max(HeldDays(q))
         /\ Min(HeldDays(r)) = Min(HeldDays(q)) /\ Min(HeldDays(r)) \in 1..k
<1>1. /\ HeldDays(r) \in SUBSET Int /\ HeldDays(q) \in SUBSET Int
      /\ \A e \in HeldDays(r) : e \in 1..k
      /\ \A e \in HeldDays(q) : e \in 1..n
      /\ HeldDays(r) = HeldDays(q) \intersect 1..k
      /\ HeldDays(q) # {}
  BY DEF HeldDays, GoesOn
<1>2. Max(HeldDays(r)) \in HeldDays(r) /\ \A e \in HeldDays(r) : e <= Max(HeldDays(r))
  <2>1. k \in Int /\ \A e \in HeldDays(r) : e <= k
    BY <1>1
  <2> QED
    BY <1>1, <2>1, BoundedMax
<1>3. Max(HeldDays(q)) \in HeldDays(q) /\ \A e \in HeldDays(q) : e <= Max(HeldDays(q))
  <2>1. n \in Int /\ \A e \in HeldDays(q) : e <= n
    BY <1>1
  <2> QED
    BY <1>1, <2>1, BoundedMax
<1>4. HeldDays(r) \in SUBSET Nat
  BY <1>1
<1>5. PICK m \in HeldDays(r) : \A e \in HeldDays(r) : m <= e
  BY <1>4, LeastOf
<1>6. m \in HeldDays(q) /\ \A e \in HeldDays(q) : m <= e
  <2> SUFFICES ASSUME NEW e \in HeldDays(q)
               PROVE  m <= e
    BY <1>1, <1>5
  <2>1. CASE e \in 1..k
    BY <1>1, <1>5, <2>1
  <2>2. CASE e \notin 1..k
    BY <1>1, <1>5, <2>2
  <2> QED
    BY <2>1, <2>2
<1>7. ASSUME NEW S \in SUBSET Int, m \in S, \A e \in S : m <= e
      PROVE  Min(S) = m
  <2>1. Min(S) \in S /\ \A y \in S : Min(S) <= y
    BY <1>7 DEF Min
  <2>2. Min(S) <= m /\ m <= Min(S) /\ m \in Int /\ Min(S) \in Int
    BY <1>7, <2>1
  <2> QED
    BY <2>2
<1>8. Min(HeldDays(r)) = m /\ Min(HeldDays(q)) = m
  BY <1>1, <1>5, <1>6, <1>7
<1> QED
  BY <1>1, <1>2, <1>3, <1>5, <1>8

\* M1.
LEMMA ReservesGoesOn ==
  ASSUME NEW k \in Nat, NEW n \in Nat, NEW r, NEW q, GoesOn(r, q, k, n)
  PROVE  /\ DOMAIN ReservesTable(r) = 1..k /\ DOMAIN ReservesTable(q) = 1..n
         /\ \A d \in 1..k : ReservesTable(r)[d] = ReservesTable(q)[d]
<1> DEFINE Col(x, column) == [e \in DOMAIN x |-> DayMean(x[e], column)]
           Spr(x) == [e \in DOMAIN x |-> Minus(Carried(Col(x, "actual"), e, e),
                                               Carried(Col(x, "required"), e, e))]
           Ruo(x) == [e \in DOMAIN x |-> Carried(Col(x, "ruonia"), e, RuoniaLimit)]
<1>1. \A e \in 1..k : r[e] = q[e] /\ e \in DOMAIN r /\ e \in DOMAIN q /\ e \in Nat \ {0}
  BY DEF GoesOn
<1>2. \A d \in 1..k : \A c : Agree(Col(r, c), Col(q, c), d)
  BY <1>1 DEF Agree
<1>3. \A d \in 1..k : Spr(r)[d] = Spr(q)[d]
  <2> SUFFICES ASSUME NEW d \in 1..k
               PROVE  Spr(r)[d] = Spr(q)[d]
    OBVIOUS
  <2>1. \A c : Agree(Col(r, c), Col(q, c), d)
    BY <1>2
  <2> HIDE DEF Col
  <2>2. \A c : Carried(Col(r, c), d, d) = Carried(Col(q, c), d, d)
    BY <1>1, <2>1, CarriedAgrees
  <2> QED
    BY <1>1, <2>2
<1>4. \A d \in 1..k : Ruo(r)[d] = Ruo(q)[d]
  <2> SUFFICES ASSUME NEW d \in 1..k
               PROVE  Ruo(r)[d] = Ruo(q)[d]
    OBVIOUS
  <2>1. Agree(Col(r, "ruonia"), Col(q, "ruonia"), d)
    BY <1>2
  <2> HIDE DEF Col
  <2>2. Carried(Col(r, "ruonia"), d, RuoniaLimit) = Carried(Col(q, "ruonia"), d, RuoniaLimit)
    BY <1>1, <2>1, CarriedAgrees, ReservesAssumption
  <2> QED
    BY <1>1, <2>2
<1>5. \A x : /\ DOMAIN ReservesTable(x) = DOMAIN x
             /\ \A d \in DOMAIN x : ReservesTable(x)[d] =
                  [spread |-> Spr(x)[d], ruonia |-> Ruo(x)[d],
                   madSpread |-> RollingMadScore(Spr(x), d),
                   madRuonia |-> RollingMadScore(Ruo(x), d)]
  BY DEF ReservesTable
<1> HIDE DEF Spr, Ruo
<1>6. \A d \in 1..k : Agree(Spr(r), Spr(q), d) /\ Agree(Ruo(r), Ruo(q), d)
  BY <1>3, <1>4 DEF Agree
<1>7. \A d \in 1..k : /\ RollingMadScore(Spr(r), d) = RollingMadScore(Spr(q), d)
                      /\ RollingMadScore(Ruo(r), d) = RollingMadScore(Ruo(q), d)
  BY <1>1, <1>6, ScoresAgree
<1>8. DOMAIN r = 1..k /\ DOMAIN q = 1..n
  BY DEF GoesOn
<1>9. \A d \in 1..k : ReservesTable(r)[d] = ReservesTable(q)[d]
  <2> SUFFICES ASSUME NEW d \in 1..k
               PROVE  ReservesTable(r)[d] = ReservesTable(q)[d]
    OBVIOUS
  <2>1. d \in DOMAIN r /\ d \in DOMAIN q
    BY <1>1
  <2>2. /\ Spr(r)[d] = Spr(q)[d] /\ Ruo(r)[d] = Ruo(q)[d]
        /\ RollingMadScore(Spr(r), d) = RollingMadScore(Spr(q), d)
        /\ RollingMadScore(Ruo(r), d) = RollingMadScore(Ruo(q), d)
    BY <1>3, <1>4, <1>7
  <2>3. ReservesTable(r)[d] =
          [spread |-> Spr(r)[d], ruonia |-> Ruo(r)[d],
           madSpread |-> RollingMadScore(Spr(r), d), madRuonia |-> RollingMadScore(Ruo(r), d)]
    BY <1>5, <2>1
  <2>4. ReservesTable(q)[d] =
          [spread |-> Spr(q)[d], ruonia |-> Ruo(q)[d],
           madSpread |-> RollingMadScore(Spr(q), d), madRuonia |-> RollingMadScore(Ruo(q), d)]
    BY <1>5, <2>1
  <2> QED
    BY <2>2, <2>3, <2>4
<1> QED
  BY <1>5, <1>8, <1>9

\* M2: the panel, as long as the spreads follow the same rule.
RepoSpan(x) ==
  {d \in DOMAIN x : (\E e \in HeldDays(x) : e <= d) /\ (\E e \in HeldDays(x) : d <= e)}

LEMMA RepoPanelGoesOn ==
  ASSUME NEW k \in Nat, NEW n \in Nat, NEW r, NEW q, GoesOn(r, q, k, n),
         NoSpreads(r) = NoSpreads(q)
  PROVE  /\ DOMAIN RepoPanel(r) = RepoSpan(r) /\ DOMAIN RepoPanel(q) = RepoSpan(q)
         /\ \A d \in RepoSpan(r) : d \in 1..k /\ d \in RepoSpan(q)
         /\ \A d \in RepoSpan(r) : \A e \in 1..d : e \in RepoSpan(q) => e \in RepoSpan(r)
         /\ \A d \in RepoSpan(r) : RepoPanel(r)[d] = RepoPanel(q)[d]
<1> DEFINE DayRow(x, d) == [i \in DOMAIN x[d] |-> CleanEvent(x[d][i], NoSpreads(x))]
<1>1. /\ \A e \in 1..k : r[e] = q[e] /\ e \in DOMAIN r /\ e \in DOMAIN q /\ e \in Int
      /\ \A e \in DOMAIN r : e \in 1..k
      /\ \A e \in DOMAIN q : e \in 1..n /\ e \in Int
      /\ \A e \in 1..k : e \in HeldDays(r) <=> e \in HeldDays(q)
      /\ HeldDays(r) \subseteq 1..k /\ HeldDays(q) \subseteq 1..n /\ k <= n
  BY DEF GoesOn, HeldDays
<1>2. \A x : /\ DOMAIN RepoPanel(x) = RepoSpan(x)
             /\ \A d \in RepoSpan(x) : RepoPanel(x)[d] =
                  IF d \notin HeldDays(x) THEN Neutral ELSE AggregateDailyGroup(DayRow(x, d))
  BY DEF RepoPanel, RepoSpan, HeldDays
<1>3. \A d \in RepoSpan(r) : d \in 1..k /\ d \in RepoSpan(q)
  BY <1>1 DEF RepoSpan
<1>4. ASSUME NEW d \in RepoSpan(r), NEW e \in 1..d, e \in RepoSpan(q)
      PROVE  e \in RepoSpan(r)
  <2>1. d \in 1..k /\ e \in 1..k
    BY <1>3
  <2>2. PICK a \in HeldDays(q) : a <= e
    BY <1>4 DEF RepoSpan
  <2>3. a \in 1..k /\ a \in HeldDays(r)
    BY <1>1, <2>1, <2>2
  <2>4. PICK b \in HeldDays(r) : d <= b
    BY DEF RepoSpan
  <2>5. e <= b
    BY <1>1, <2>1, <2>4
  <2> QED
    BY <1>1, <2>1, <2>2, <2>3, <2>4, <2>5 DEF RepoSpan
<1>5. ASSUME NEW d \in RepoSpan(r)
      PROVE  RepoPanel(r)[d] = RepoPanel(q)[d]
  <2>1. d \in 1..k /\ d \in RepoSpan(q)
    BY <1>3
  <2>2. DayRow(r, d) = DayRow(q, d)
    BY <1>1, <2>1
  <2>3. d \in HeldDays(r) <=> d \in HeldDays(q)
    BY <1>1, <2>1
  <2> HIDE DEF DayRow
  <2> QED
    BY <1>2, <2>1, <2>2, <2>3
<1> QED
  BY <1>2, <1>3, <1>4, <1>5

\* M2: the signals.
LEMMA RepoGoesOn ==
  ASSUME NEW k \in Nat, NEW n \in Nat, NEW r, NEW q, GoesOn(r, q, k, n),
         NoSpreads(r) = NoSpreads(q), HeldDays(r) # {}
  PROVE  \A d \in DOMAIN RepoSignalTable(RepoPanel(r)) :
           /\ d \in DOMAIN RepoSignalTable(RepoPanel(q))
           /\ RepoSignalTable(RepoPanel(r))[d] = RepoSignalTable(RepoPanel(q))[d]
<1> DEFINE Col(p) == AuctionColumns(p, Max(DOMAIN p))
           Cover(p) == [d \in 1..Max(DOMAIN p) |-> Col(p)[d].cover]
           Spread(p) == [d \in 1..Max(DOMAIN p) |-> Col(p)[d].spread]
           Volumes(p) == [d \in 1..Max(DOMAIN p) |-> Col(p)[d].volume]
<1> DEFINE a == RepoPanel(r)
           b == RepoPanel(q)
<1>1. /\ DOMAIN a = RepoSpan(r) /\ DOMAIN b = RepoSpan(q)
      /\ \A d \in RepoSpan(r) : d \in 1..k /\ d \in RepoSpan(q)
      /\ \A d \in RepoSpan(r) : \A e \in 1..d : e \in RepoSpan(q) => e \in RepoSpan(r)
      /\ \A d \in RepoSpan(r) : a[d] = b[d]
  BY RepoPanelGoesOn
<1> HIDE DEF a, b
<1>2. RepoSpan(r) # {} /\ RepoSpan(q) \subseteq 1..n /\ RepoSpan(r) \subseteq 1..k
  BY HeldGoesOn DEF RepoSpan, GoesOn, HeldDays
<1>3. /\ Max(DOMAIN a) \in 1..k /\ \A d \in DOMAIN a : d <= Max(DOMAIN a)
      /\ Max(DOMAIN b) \in 1..n /\ \A d \in DOMAIN b : d <= Max(DOMAIN b)
  <2>1. /\ DOMAIN a \in SUBSET Int /\ DOMAIN a # {} /\ \A d \in DOMAIN a : d <= k
        /\ DOMAIN b \in SUBSET Int /\ DOMAIN b # {} /\ \A d \in DOMAIN b : d <= n
        /\ k \in Int /\ n \in Int
    BY <1>1, <1>2
  <2>2. Max(DOMAIN a) \in DOMAIN a /\ Max(DOMAIN b) \in DOMAIN b
    BY <2>1, BoundedMax
  <2> QED
    BY <1>1, <1>2, <2>1, <2>2, BoundedMax
<1>4. \A p : DOMAIN p # {} =>
        /\ DOMAIN RepoSignalTable(p) = DOMAIN p
        /\ \A d \in DOMAIN p : RepoSignalTable(p)[d] =
             [cover |-> HistoricalMadScore(Cover(p), d, CoverFloor),
              spread |-> HistoricalMadScore(Spread(p), d, SpreadFloor),
              volume |-> HistoricalMadScore(Volumes(p), d, VolumeFloor),
              demand |-> Above(Cover(p)[d], Demanded)]
  BY DEF RepoSignalTable
<1>5. ASSUME NEW d \in RepoSpan(r)
      PROVE  /\ Agree(Cover(a), Cover(b), d) /\ Agree(Spread(a), Spread(b), d)
             /\ Agree(Volumes(a), Volumes(b), d)
  <2>1. d \in 1..k /\ d <= Max(DOMAIN a) /\ d <= Max(DOMAIN b)
    BY <1>1, <1>3
  <2>2. \A e \in 1..d : e \in 1..Max(DOMAIN a) /\ e \in 1..Max(DOMAIN b)
    BY <1>3, <2>1
  <2>3. \A e \in 1..d : e \in RepoSpan(r) <=> e \in RepoSpan(q)
    BY <1>1
  <2>4. \A e \in 1..d : Col(a)[e] = Col(b)[e]
    BY <1>1, <2>2, <2>3 DEF AuctionColumns
  <2> HIDE DEF Col
  <2> QED
    BY <2>2, <2>4 DEF Agree
<1>6. ASSUME NEW d \in RepoSpan(r)
      PROVE  RepoSignalTable(a)[d] = RepoSignalTable(b)[d]
  <2>1. d \in Nat \ {0} /\ d \in DOMAIN a /\ d \in DOMAIN b
    BY <1>1
  <2>2. /\ Agree(Cover(a), Cover(b), d) /\ Agree(Spread(a), Spread(b), d)
        /\ Agree(Volumes(a), Volumes(b), d)
    BY <1>5
  <2> HIDE DEF Cover, Spread, Volumes
  <2>3. Cover(a)[d] = Cover(b)[d]
    BY <2>1, <2>2 DEF Agree
  <2>4. /\ HistoricalMadScore(Cover(a), d, CoverFloor) = HistoricalMadScore(Cover(b), d, CoverFloor)
        /\ HistoricalMadScore(Spread(a), d, SpreadFloor)
             = HistoricalMadScore(Spread(b), d, SpreadFloor)
        /\ HistoricalMadScore(Volumes(a), d, VolumeFloor)
             = HistoricalMadScore(Volumes(b), d, VolumeFloor)
    BY <2>1, <2>2, ScoresAgree
  <2> QED
    BY <1>4, <2>1, <2>3, <2>4
<1>7. DOMAIN RepoSignalTable(a) = RepoSpan(r) /\ DOMAIN RepoSignalTable(b) = RepoSpan(q)
  <2> HIDE DEF Cover, Spread, Volumes
  <2> QED
    BY <1>1, <1>2, <1>4
<1> QED
  BY <1>1, <1>6, <1>7 DEF a, b

\* M3: what is settled of a day. The score of the yield spread and what it counts for are not.
LEMMA OfzGoesOn ==
  ASSUME NEW k \in Nat, NEW n \in Nat, NEW r, NEW q, GoesOn(r, q, k, n), HeldDays(r) # {}
  PROVE  /\ DOMAIN OfzPanel(r) \subseteq 1..k
         /\ \A d \in DOMAIN OfzPanel(r) :
              /\ d \in DOMAIN OfzPanel(q)
              /\ \A c \in {"has", "cover", "placed", "lastCover", "lastSpread", "days", "stale",
                           "madCover"} : OfzPanel(r)[d][c] = OfzPanel(q)[d][c]
<1> DEFINE N(x) == IF HeldDays(x) = {} THEN 0 ELSE Max(HeldDays(x))
           DayRow(x) == [d \in 1..N(x) |-> AggDay(x[d])]
           Cover(x) == [d \in 1..N(x) |-> Clipped(DayRow(x)[d].cover)]
           Spread(x) == [d \in 1..N(x) |-> DayRow(x)[d].spread]
           LastCover(x) == [d \in 1..N(x) |-> LastKnown(Cover(x), d)]
           LastSpread(x) == [d \in 1..N(x) |-> LastKnown(Spread(x), d)]
           Scored(x) == Count(Known(LastSpread(x), 1..N(x))) >= OfzMin
           Days(x, d) == DaysSince(HeldDays(x), d, Never)
           Stale(x, d) == Days(x, d) > StaleAfter
           Late(x, d) == IF Scored(x) THEN OfzMadScore(LastSpread(x), d) ELSE NaN
<1>1. /\ HeldDays(r) = HeldDays(q) \intersect 1..k
      /\ N(r) \in 1..k /\ N(q) \in 1..n /\ N(r) <= N(q)
  BY HeldGoesOn
<1>2. \A x : /\ DOMAIN OfzPanel(x) = 1..N(x)
             /\ \A d \in 1..N(x) : OfzPanel(x)[d] =
                  [has |-> DayRow(x)[d].has, cover |-> DayRow(x)[d].cover,
                   placed |-> DayRow(x)[d].placed,
                   lastCover |-> LastCover(x)[d], lastSpread |-> LastSpread(x)[d],
                   days |-> Days(x, d), stale |-> Stale(x, d),
                   madCover |-> OfzMadScore(LastCover(x), d),
                   madSpread |-> Late(x, d)]
  BY DEF OfzPanel, HeldDays
<1>3. \A d \in 1..N(r) : /\ d \in 1..k /\ d \in 1..N(q) /\ d \in Nat \ {0}
                         /\ \A e \in 1..d : e \in 1..N(r)
  BY <1>1
<1>4. \A d \in 1..N(r) : DayRow(r)[d] = DayRow(q)[d]
  <2>1. \A e \in 1..k : r[e] = q[e]
    BY DEF GoesOn
  <2> HIDE DEF N
  <2> QED
    BY <1>3, <2>1
<1> HIDE DEF N
<1>5. \A d \in 1..N(r) : Agree(Cover(r), Cover(q), d) /\ Agree(Spread(r), Spread(q), d)
  <2> HIDE DEF DayRow
  <2> QED
    BY <1>3, <1>4 DEF Agree
<1> HIDE DEF DayRow
<1>6. \A d \in 1..N(r) : /\ LastCover(r)[d] = LastCover(q)[d]
                         /\ LastSpread(r)[d] = LastSpread(q)[d]
  <2> SUFFICES ASSUME NEW d \in 1..N(r)
               PROVE  /\ LastCover(r)[d] = LastCover(q)[d]
                      /\ LastSpread(r)[d] = LastSpread(q)[d]
    OBVIOUS
  <2> HIDE DEF Cover, Spread
  <2>1. /\ Carried(Cover(r), d, StaleAfter) = Carried(Cover(q), d, StaleAfter)
        /\ Carried(Spread(r), d, StaleAfter) = Carried(Spread(q), d, StaleAfter)
    BY <1>3, <1>5, CarriedAgrees, OfzAssumption
  <2> QED
    BY <1>3, <2>1 DEF LastKnown
<1> HIDE DEF Cover, Spread, LastCover, LastSpread, Scored, Late
<1>7. \A d \in 1..N(r) : OfzMadScore(LastCover(r), d) = OfzMadScore(LastCover(q), d)
  BY <1>3, <1>6, ScoresAgree DEF Agree
<1>8. \A d \in 1..N(r) : Days(r, d) = Days(q, d)
  <2> SUFFICES ASSUME NEW d \in 1..N(r)
               PROVE  Days(r, d) = Days(q, d)
    OBVIOUS
  <2>1. HeldDays(r) \intersect 1..d = HeldDays(q) \intersect 1..d
    BY <1>1, <1>3
  <2> QED
    BY <2>1, DaysSinceAgrees
<1> HIDE DEF Days
<1>0. \A d \in 1..N(r) : Stale(r, d) = Stale(q, d)
  BY <1>8
<1> HIDE DEF Stale
<1>9. ASSUME NEW d \in 1..N(r)
      PROVE  \A c \in {"has", "cover", "placed", "lastCover", "lastSpread", "days", "stale",
                       "madCover"} : OfzPanel(r)[d][c] = OfzPanel(q)[d][c]
  <2>1. d \in 1..N(q)
    BY <1>3
  <2>2. /\ DayRow(r)[d] = DayRow(q)[d] /\ Days(r, d) = Days(q, d)
        /\ Stale(r, d) = Stale(q, d)
        /\ LastCover(r)[d] = LastCover(q)[d] /\ LastSpread(r)[d] = LastSpread(q)[d]
        /\ OfzMadScore(LastCover(r), d) = OfzMadScore(LastCover(q), d)
    BY <1>0, <1>4, <1>6, <1>7, <1>8
  <2>3. \A x : d \in 1..N(x) =>
          /\ OfzPanel(x)[d]["has"] = DayRow(x)[d].has
          /\ OfzPanel(x)[d]["cover"] = DayRow(x)[d].cover
          /\ OfzPanel(x)[d]["placed"] = DayRow(x)[d].placed
          /\ OfzPanel(x)[d]["lastCover"] = LastCover(x)[d]
          /\ OfzPanel(x)[d]["lastSpread"] = LastSpread(x)[d]
          /\ OfzPanel(x)[d]["days"] = Days(x, d)
          /\ OfzPanel(x)[d]["stale"] = Stale(x, d)
          /\ OfzPanel(x)[d]["madCover"] = OfzMadScore(LastCover(x), d)
    <3> SUFFICES ASSUME NEW x, d \in 1..N(x)
                 PROVE  /\ OfzPanel(x)[d]["has"] = DayRow(x)[d].has
                        /\ OfzPanel(x)[d]["cover"] = DayRow(x)[d].cover
                        /\ OfzPanel(x)[d]["placed"] = DayRow(x)[d].placed
                        /\ OfzPanel(x)[d]["lastCover"] = LastCover(x)[d]
                        /\ OfzPanel(x)[d]["lastSpread"] = LastSpread(x)[d]
                        /\ OfzPanel(x)[d]["days"] = Days(x, d)
                        /\ OfzPanel(x)[d]["stale"] = Stale(x, d)
                        /\ OfzPanel(x)[d]["madCover"] = OfzMadScore(LastCover(x), d)
      OBVIOUS
    <3>1. OfzPanel(x)[d] =
            [has |-> DayRow(x)[d].has, cover |-> DayRow(x)[d].cover, placed |-> DayRow(x)[d].placed,
             lastCover |-> LastCover(x)[d], lastSpread |-> LastSpread(x)[d],
             days |-> Days(x, d), stale |-> Stale(x, d),
             madCover |-> OfzMadScore(LastCover(x), d), madSpread |-> Late(x, d)]
      BY <1>2
    <3> QED
      BY <3>1
  <2> QED
    BY <2>1, <2>2, <2>3
<1> QED
  BY <1>1, <1>2, <1>3, <1>9

\* M5: the panel.
LEMMA TreasuryPanelGoesOn ==
  ASSUME NEW k \in Nat, NEW n \in Nat, NEW r, NEW q, GoesOn(r, q, k, n), HeldDays(r) # {}
  PROVE  /\ \A x \in {r, q} :
              DOMAIN TreasuryPanel(x) = Min(HeldDays(x))..Max(HeldDays(x))
         /\ \A d \in DOMAIN TreasuryPanel(r) : /\ d \in DOMAIN TreasuryPanel(q)
                                               /\ TreasuryPanel(r)[d] = TreasuryPanel(q)[d]
<1> DEFINE N(x) == IF HeldDays(x) = {} THEN 0 ELSE Max(HeldDays(x))
           Rows(x, c) == [e \in 1..N(x) |-> Level(x[e], c)]
           Lev(x, c) == [d \in 1..N(x) |-> Carried(Rows(x, c), d, N(x))]
           Plc(x) == [d \in 1..N(x) |-> Placed(x[d])]
           Upd(x) == {d \in 1..N(x) : \E i \in DOMAIN x[d] :
                        {x[d][i].balance, x[d][i].structural, x[d][i].banks} # {NaN}}
           Plg(x) == {d \in 1..N(x) : Plc(x)[d] > 0}
           Row(x, d) ==
             [balance |-> Lev(x, "balance")[d], placed |-> Plc(x)[d],
              placed7 |-> WindowSum(Plc(x), d, Week), placed30 |-> WindowSum(Plc(x), d, Month),
              weekly |-> Delta(Lev(x, "balance"), d, Week),
              monthly |-> Delta(Lev(x, "balance"), d, Month),
              liquidity7 |-> Delta(Lev(x, "structural"), d, Week),
              banks30 |-> Delta(Lev(x, "banks"), d, Month),
              drain |-> BudgetDrain(Delta(Lev(x, "balance"), d, Week)),
              sinceUpdate |-> DaysSince(Upd(x), d, NoUpdate),
              sincePlacement |-> DaysSince(Plg(x), d, NoUpdate)]
<1>1. /\ N(r) \in 1..k /\ N(q) \in 1..n /\ N(r) <= N(q)
      /\ Min(HeldDays(r)) = Min(HeldDays(q)) /\ Min(HeldDays(r)) \in 1..k
      /\ HeldDays(q) # {}
      /\ N(r) = Max(HeldDays(r)) /\ N(q) = Max(HeldDays(q))
  <2>1. HeldDays(q) # {}
    BY DEF HeldDays, GoesOn
  <2> QED
    BY <2>1, HeldGoesOn
<1>2. \A x \in {r, q} :
        /\ DOMAIN TreasuryPanel(x) = Min(HeldDays(x))..N(x)
        /\ \A d \in Min(HeldDays(x))..N(x) : TreasuryPanel(x)[d] = Row(x, d)
  <2>1. \A x \in {r, q} : HeldDays(x) # {}
    BY <1>1
  <2>2. \A x \in {r, q} : TreasuryPanel(x) = [d \in Min(HeldDays(x))..N(x) |-> Row(x, d)]
    BY <2>1 DEF TreasuryPanel, HeldDays
  <2> HIDE DEF Row, N
  <2> QED
    BY <2>2
<1>3. \A d \in 1..N(r) : /\ d \in 1..k /\ d \in 1..N(q) /\ d \in Nat \ {0}
                         /\ \A e \in 1..d : e \in 1..N(r)
  BY <1>1
<1>4. \A e \in 1..N(r) : r[e] = q[e]
  BY <1>3 DEF GoesOn
<1> HIDE DEF N
<1>5. ASSUME NEW d \in 1..N(r), NEW c
      PROVE  Agree(Lev(r, c), Lev(q, c), d)
  <2>1. \A e \in 1..d : Agree(Rows(r, c), Rows(q, c), e) /\ e \in Nat
    BY <1>3, <1>4 DEF Agree
  <2> HIDE DEF Rows
  <2>2. \A e \in 1..d : Carried(Rows(r, c), e, N(r)) = Carried(Rows(q, c), e, N(q))
    <3> SUFFICES ASSUME NEW e \in 1..d
                 PROVE  Carried(Rows(r, c), e, N(r)) = Carried(Rows(q, c), e, N(q))
      OBVIOUS
    <3>1. e \in Nat /\ N(r) \in Nat /\ N(q) \in Nat /\ e <= N(r) /\ e <= N(q)
      BY <1>1, <1>3
    <3> QED
      BY <2>1, <3>1, CarriedAgrees
  <2>3. \A e \in 1..d : e \in 1..N(r) /\ e \in 1..N(q)
    BY <1>3
  <2> QED
    BY <2>2, <2>3 DEF Agree
<1>6. \A d \in 1..N(r) : Agree(Plc(r), Plc(q), d)
  BY <1>3, <1>4 DEF Agree
<1>7. \A d \in 1..N(r) : Upd(r) \intersect 1..d = Upd(q) \intersect 1..d
  <2> SUFFICES ASSUME NEW d \in 1..N(r), NEW e \in 1..d
               PROVE  e \in Upd(r) <=> e \in Upd(q)
    OBVIOUS
  <2>1. e \in 1..N(r) /\ e \in 1..N(q) /\ r[e] = q[e]
    BY <1>3, <1>4
  <2> QED
    BY <2>1
<1> HIDE DEF Lev, Upd
<1>8. \A d \in 1..N(r) : Plg(r) \intersect 1..d = Plg(q) \intersect 1..d
  <2> SUFFICES ASSUME NEW d \in 1..N(r), NEW e \in 1..d
               PROVE  e \in Plg(r) <=> e \in Plg(q)
    OBVIOUS
  <2>1. e \in 1..N(r) /\ e \in 1..N(q) /\ Plc(r)[e] = Plc(q)[e]
    BY <1>3, <1>6 DEF Agree
  <2> HIDE DEF Plc
  <2> QED
    BY <2>1
<1> HIDE DEF Plc, Plg
<1>9. ASSUME NEW d \in 1..N(r)
      PROVE  Row(r, d) = Row(q, d)
  <2>1. d \in Nat /\ d \in 1..d
    BY <1>3
  <2>2. \A c : \A width \in Nat : Delta(Lev(r, c), d, width) = Delta(Lev(q, c), d, width)
    BY <1>5, <2>1, WindowsAgree
  <2>3. \A width \in Nat : WindowSum(Plc(r), d, width) = WindowSum(Plc(q), d, width)
    BY <1>6, <2>1, WindowsAgree
  <2>4. /\ DaysSince(Upd(r), d, NoUpdate) = DaysSince(Upd(q), d, NoUpdate)
        /\ DaysSince(Plg(r), d, NoUpdate) = DaysSince(Plg(q), d, NoUpdate)
    BY <1>7, <1>8, DaysSinceAgrees
  <2>5. \A c : Lev(r, c)[d] = Lev(q, c)[d] /\ Plc(r)[d] = Plc(q)[d]
    BY <1>5, <1>6, <2>1 DEF Agree
  <2> QED
    BY <2>2, <2>3, <2>4, <2>5, TreasuryAssumption
<1> HIDE DEF Row
<1>10. ASSUME NEW d \in DOMAIN TreasuryPanel(r)
       PROVE  d \in DOMAIN TreasuryPanel(q) /\ TreasuryPanel(r)[d] = TreasuryPanel(q)[d]
  <2>1. d \in Min(HeldDays(r))..N(r) /\ d \in 1..N(r)
    BY <1>1, <1>2
  <2>2. d \in Min(HeldDays(q))..N(q)
    BY <1>1, <2>1
  <2> QED
    BY <1>2, <1>9, <2>1, <2>2
<1> QED
  BY <1>1, <1>2, <1>10

\* M5: the signals.
LEMMA TreasuryGoesOn ==
  ASSUME NEW k \in Nat, NEW n \in Nat, NEW r, NEW q, GoesOn(r, q, k, n), HeldDays(r) # {}
  PROVE  \A d \in DOMAIN TreasurySignalTable(TreasuryPanel(r)) :
           /\ d \in DOMAIN TreasurySignalTable(TreasuryPanel(q))
           /\ TreasurySignalTable(TreasuryPanel(r))[d] = TreasurySignalTable(TreasuryPanel(q))[d]
<1> DEFINE AllOf(p, c) ==
             [d \in 1..Max(DOMAIN p) |-> IF d \in DOMAIN p THEN p[d][c] ELSE NaN]
           Falls(s) == [e \in DOMAIN s |-> Minus(0, s[e])]
           Cbr(p, d) == OrZero(ScoreNoLookahead(AllOf(p, "drain"), d, CbrWindow, CbrMin, CbrFloor))
           Row(p, d) ==
             [cbr |-> Cbr(p, d), roskazna |-> RoskaznaScore(AllOf(p, "placed30"), d),
              drain |-> Cbr(p, d) >= ScoreThreshold,
              drop |-> \/ RoskaznaScore(AllOf(p, "placed30"), d) >= ScoreThreshold
                       \/ PlacementGap(AllOf(p, "placed30"), d) >= DropThreshold,
              row |-> p[d]]
           a == TreasuryPanel(r)
           b == TreasuryPanel(q)
           f == Min(HeldDays(r))
           l == Max(HeldDays(r))
           m == Max(HeldDays(q))
<1>1. /\ l \in 1..k /\ m \in 1..n /\ l <= m /\ f \in 1..k /\ f <= l
      /\ DOMAIN a = f..l /\ DOMAIN b = f..m
      /\ \A d \in f..l : a[d] = b[d]
  <2>1. l \in 1..k /\ m \in 1..n /\ l <= m /\ f \in 1..k /\ f = Min(HeldDays(q))
    BY HeldGoesOn
  <2>2. f <= l
    <3>1. HeldDays(r) \in SUBSET Int
      BY DEF HeldDays, GoesOn
    <3>2. l \in HeldDays(r)
      BY HeldGoesOn
    <3>3. \A y \in HeldDays(r) : f <= y
      <4>1. HeldDays(r) \in SUBSET Nat
        BY DEF HeldDays, GoesOn
      <4>2. PICK y \in HeldDays(r) : \A z \in HeldDays(r) : y <= z
        BY <4>1, LeastOf
      <4> QED
        BY <4>2 DEF Min
    <3> QED
      BY <3>2, <3>3
  <2> QED
    BY <2>1, <2>2, TreasuryPanelGoesOn
<1> HIDE DEF a, b, f, l, m
<1>2. ASSUME NEW p, NEW u \in Nat \ {0}, NEW v \in Nat \ {0}, u <= v, DOMAIN p = u..v
      PROVE  /\ Max(DOMAIN p) = v /\ DOMAIN TreasurySignalTable(p) = DOMAIN p
             /\ \A d \in DOMAIN p : TreasurySignalTable(p)[d] = Row(p, d)
  <2>1. DOMAIN p \in SUBSET Int /\ v \in DOMAIN p /\ \A d \in DOMAIN p : d <= v
    BY <1>2
  <2>2. Max(DOMAIN p) \in DOMAIN p /\ v <= Max(DOMAIN p)
    BY <2>1, BoundedMax
  <2>3. Max(DOMAIN p) = v
    BY <2>1, <2>2
  <2>4. p # <<>>
    BY <2>1
  <2>5. TreasurySignalTable(p) = [d \in DOMAIN p |-> Row(p, d)]
    BY <2>4 DEF TreasurySignalTable
  <2> HIDE DEF Row
  <2> QED
    BY <2>3, <2>5
<1>3. /\ Max(DOMAIN a) = l /\ DOMAIN TreasurySignalTable(a) = f..l
      /\ \A d \in f..l : TreasurySignalTable(a)[d] = Row(a, d)
  <2> HIDE DEF Row
  <2>1. f \in Nat \ {0} /\ l \in Nat \ {0} /\ f <= l /\ DOMAIN a = f..l
    BY <1>1
  <2> QED
    BY <1>2, <2>1
<1>4. /\ Max(DOMAIN b) = m /\ DOMAIN TreasurySignalTable(b) = f..m
      /\ \A d \in f..m : TreasurySignalTable(b)[d] = Row(b, d)
  <2> HIDE DEF Row
  <2>1. f \in Nat \ {0} /\ m \in Nat \ {0} /\ f <= m /\ DOMAIN b = f..m
    BY <1>1
  <2> QED
    BY <1>2, <2>1
<1>5. \A d \in f..l : /\ d \in Nat \ {0} /\ d \in f..m
                      /\ \A e \in 1..d : /\ e \in 1..l /\ e \in 1..m
                                         /\ e \in f..l <=> e \in f..m
  BY <1>1
<1>6. \A d \in f..l : \A c : Agree(AllOf(a, c), AllOf(b, c), d)
  BY <1>1, <1>3, <1>4, <1>5 DEF Agree
<1>7. ASSUME NEW d \in f..l
      PROVE  Row(a, d) = Row(b, d)
  <2>1. \A c : \A e \in 1..d : e \in DOMAIN AllOf(a, c) /\ e \in DOMAIN AllOf(b, c)
    BY <1>3, <1>4, <1>5
  <2> HIDE DEF AllOf
  <2>2. \A c : Agree(Falls(AllOf(a, c)), Falls(AllOf(b, c)), d)
    BY <1>6, <2>1 DEF Agree
  <2>3. Cbr(a, d) = Cbr(b, d)
    BY <1>5, <1>6, ScoresAgree, TreasuryAssumption
  <2>4. PlacementGap(AllOf(a, "placed30"), d) = PlacementGap(AllOf(b, "placed30"), d)
    BY <1>5, <1>6, ScoresAgree
  <2>5. \A s : RoskaznaScore(s, d) =
          Larger(OrZero(ScoreNoLookahead(Falls(s), d, RoskaznaWindow, RoskaznaMin,
                                         RoskaznaFloor)), 0)
    BY DEF RoskaznaScore
  <2> HIDE DEF Falls, Cbr
  <2>6. RoskaznaScore(AllOf(a, "placed30"), d) = RoskaznaScore(AllOf(b, "placed30"), d)
    BY <1>5, <2>2, <2>5, ScoresAgree, TreasuryAssumption
  <2>7. a[d] = b[d]
    BY <1>1
  <2> QED
    BY <2>3, <2>4, <2>6, <2>7
<1> HIDE DEF Row
<1>8. \A d \in DOMAIN TreasurySignalTable(a) :
        /\ d \in DOMAIN TreasurySignalTable(b)
        /\ TreasurySignalTable(a)[d] = TreasurySignalTable(b)[d]
  BY <1>3, <1>4, <1>5, <1>7
<1> QED
  BY <1>8 DEF a, b

-----------------------------------------------------------------------------
(***************************************************************************)
(* The files that are there: every table was built from the first days of  *)
(* the raw file, the signals from no more of them than the features.       *)
(***************************************************************************)
Upto(k) == [d \in 1..k |-> raw[d]]
FeaturesOf(m, r) ==
  [rows |-> FeatureRows(m, r), derived |-> IF m = "repo" THEN NoSpreads(r) ELSE FALSE]
SignalsFrom(m, f) == [rows |-> SignalRows(m, f.rows), derived |-> f.derived]

SignalsBuilt(n) ==
  signals = NoTable \/ \E k \in 1..n : /\ HeldDays(Upto(k)) # {}
                                       /\ signals = SignalsFrom(module, FeaturesOf(module, Upto(k)))
TablesBuilt ==
  \/ features = NoTable /\ signals = NoTable
  \/ \E n \in 1..Len(raw) : /\ HeldDays(Upto(n)) # {} /\ features = FeaturesOf(module, Upto(n))
                            /\ SignalsBuilt(n)
TablesTyped ==
  module \in Module /\ raw \in Seq(UNION {RawDay(m) : m \in Module}) /\ Len(raw) <= MaxRows
TablesInv == TablesTyped /\ TablesBuilt

\* A table is no missing file.
LEMMA TableIsThere ==
  ASSUME NEW m, NEW r
  PROVE  /\ FeaturesOf(m, r) # NoTable
         /\ \A f : SignalsFrom(m, f) # NoTable
<1>1. "rows" \in DOMAIN FeaturesOf(m, r)
  BY DEF FeaturesOf
<1>2. \A f : "rows" \in DOMAIN SignalsFrom(m, f)
  BY DEF SignalsFrom
<1>3. "rows" \notin DOMAIN NoTable
  <2>1. DOMAIN NoTable = {}
    BY DEF NoTable
  <2> QED
    BY <2>1
<1> QED
  BY <1>1, <1>2, <1>3

LEMMA TablesInit == TableInit => TablesInv
BY TablesAssumption DEF TableInit, TablesInv, TablesTyped, TablesBuilt

\* The first days of a raw file are the same when a day has been added to it.
LEMMA UptoStays ==
  ASSUME TablesTyped, [TableNext]_tableVars
  PROVE  /\ module' = module /\ Len(raw) <= Len(raw)' /\ Len(raw) \in Nat /\ Len(raw)' \in Nat
         /\ \A k \in 1..Len(raw) : Upto(k)' = Upto(k)
         /\ TablesTyped'
<1> USE DEF TablesTyped
<1>1. CASE NewDay
  <2>1. PICK day \in RawDay(module) : raw' = Append(raw, day)
    BY <1>1 DEF NewDay
  <2> HIDE DEF Module
  <2>2. day \in UNION {RawDay(m) : m \in Module}
    OBVIOUS
  <2> DEFINE S == UNION {RawDay(m) : m \in Module}
  <2> HIDE DEF S
  <2>3. raw \in Seq(S) /\ day \in S
    BY <2>2 DEF S
  <2>4. /\ raw' \in Seq(S) /\ Len(raw) \in Nat /\ Len(raw)' = Len(raw) + 1
        /\ \A d \in 1..Len(raw) : raw'[d] = raw[d]
    BY <2>1, <2>3
  <2>5. Len(raw)' <= MaxRows
    BY <1>1, <2>4, TablesAssumption DEF NewDay
  <2>6. \A k \in 1..Len(raw) : Upto(k)' = Upto(k)
    BY <2>4 DEF Upto
  <2> QED
    BY <1>1, <2>4, <2>5, <2>6 DEF NewDay, S
<1>2. CASE UNCHANGED <<module, raw>>
  <2>1. Len(raw) \in Nat
    OBVIOUS
  <2>2. \A k \in 1..Len(raw) : Upto(k)' = Upto(k)
    BY <1>2 DEF Upto
  <2> QED
    BY <1>2, <2>1, <2>2
<1> QED
  BY <1>1, <1>2 DEF TableNext, RunFeatures, RunSignals, tableVars

\* The inductive step.
LEMMA TablesStep == TablesInv /\ [TableNext]_tableVars => TablesInv'
<1> SUFFICES ASSUME TablesInv, [TableNext]_tableVars
             PROVE  TablesInv'
  OBVIOUS
<1>0. /\ TablesTyped /\ TablesTyped'
      /\ module' = module /\ Len(raw) <= Len(raw)' /\ Len(raw) \in Nat /\ Len(raw)' \in Nat
      /\ \A k \in 1..Len(raw) : Upto(k)' = Upto(k)
  BY UptoStays DEF TablesInv
<1>1. CASE UNCHANGED <<features, signals>>
  <2>1. CASE features = NoTable /\ signals = NoTable
    BY <1>0, <1>1, <2>1 DEF TablesInv, TablesBuilt
  <2>2. CASE ~(features = NoTable /\ signals = NoTable)
    <3>1. PICK n \in 1..Len(raw) : /\ HeldDays(Upto(n)) # {}
                                   /\ features = FeaturesOf(module, Upto(n)) /\ SignalsBuilt(n)
      BY <2>2 DEF TablesInv, TablesBuilt
    <3>2. n \in 1..Len(raw)' /\ Upto(n)' = Upto(n) /\ \A k \in 1..n : Upto(k)' = Upto(k)
      BY <1>0
    <3>3. SignalsBuilt(n)'
      BY <1>0, <1>1, <3>1, <3>2 DEF SignalsBuilt
    <3>4. TablesBuilt'
      BY <1>0, <1>1, <3>1, <3>2, <3>3 DEF TablesBuilt
    <3> QED
      BY <1>0, <3>4 DEF TablesInv
  <2> QED
    BY <2>1, <2>2
<1>2. CASE RunFeatures
  <2>1. PICK d \in DOMAIN raw : raw[d] # <<>>
    BY <1>2 DEF RunFeatures
  <2> DEFINE n == Len(raw)
  <2>2. raw' = raw /\ raw = Upto(n) /\ n \in 1..Len(raw)' /\ d \in 1..n
    <3>1. raw' = raw
      BY <1>2 DEF RunFeatures
    <3>2. raw = Upto(n) /\ d \in 1..n
      BY <1>0, <2>1 DEF Upto, TablesTyped
    <3> QED
      BY <1>0, <3>1, <3>2
  <2>3. HeldDays(Upto(n)) # {}
    BY <2>1, <2>2 DEF HeldDays
  <2>4. features' = FeaturesOf(module, Upto(n))
    BY <1>2, <2>2 DEF RunFeatures, FeaturesOf
  <2>5. Upto(n)' = Upto(n) /\ \A k \in 1..n : Upto(k)' = Upto(k)
    BY <2>2 DEF Upto
  <2>6. SignalsBuilt(n)
    <3>1. CASE signals = NoTable
      BY <3>1 DEF SignalsBuilt
    <3>2. CASE signals # NoTable
      <4>1. PICK l \in 1..n : SignalsBuilt(l)
        BY <3>2 DEF TablesInv, TablesBuilt
      <4> QED
        BY <1>0, <3>2, <4>1 DEF SignalsBuilt
    <3> QED
      BY <3>1, <3>2
  <2>7. SignalsBuilt(n)'
    <3>1. signals' = signals /\ module' = module /\ n' = n
      BY <1>2, <2>2 DEF RunFeatures
    <3> HIDE DEF n
    <3> QED
      BY <2>5, <2>6, <3>1 DEF SignalsBuilt
  <2>8. TablesBuilt'
    BY <1>0, <2>2, <2>3, <2>4, <2>5, <2>7 DEF TablesBuilt
  <2> QED
    BY <1>0, <2>8 DEF TablesInv
<1>3. CASE RunSignals
  <2>1. PICK n \in 1..Len(raw) : /\ HeldDays(Upto(n)) # {}
                                 /\ features = FeaturesOf(module, Upto(n))
    BY <1>3 DEF RunSignals, TablesInv, TablesBuilt
  <2>2. n \in 1..Len(raw)' /\ Upto(n)' = Upto(n) /\ n \in 1..n
    BY <1>0
  <2>3. features' = features
    BY <1>3 DEF RunSignals
  <2>4. signals' = SignalsFrom(module, FeaturesOf(module, Upto(n)))
    BY <1>3, <2>1 DEF RunSignals, SignalsFrom
  <2>5. SignalsBuilt(n)'
    BY <1>0, <2>1, <2>2, <2>4 DEF SignalsBuilt
  <2>6. TablesBuilt'
    BY <1>0, <2>1, <2>2, <2>3, <2>5 DEF TablesBuilt
  <2> QED
    BY <1>0, <2>6 DEF TablesInv
<1>4. CASE NewDay \/ UNCHANGED tableVars
  <2>1. UNCHANGED <<features, signals>>
    BY <1>4 DEF NewDay, tableVars
  <2> QED
    BY <1>1, <2>1
<1> QED
  BY <1>2, <1>3, <1>4 DEF TableNext

LEMMA TablesAlways == TableSpec => []TablesInv
BY TablesInit, TablesStep, PTL DEF TableSpec

-----------------------------------------------------------------------------
\* A table has no rows of days the raw file does not have.
LEMMA RowsOfDays ==
  ASSUME NEW n \in Nat, NEW r, DOMAIN r = 1..n, HeldDays(r) # {}, NEW m \in Module
  PROVE  /\ DOMAIN FeatureRows(m, r) \subseteq 1..n
         /\ DOMAIN SignalRows(m, FeatureRows(m, r)) \subseteq 1..n
<1>1. GoesOn(r, r, n, n)
  BY DEF GoesOn
<1>2. CASE m = "reserves"
  <2>1. FeatureRows(m, r) = ReservesTable(r) /\ SignalRows(m, FeatureRows(m, r)) = ReservesTable(r)
    BY <1>2 DEF FeatureRows, SignalRows
  <2> QED
    BY <1>1, <2>1, ReservesGoesOn
<1>3. CASE m = "repo"
  <2>1. /\ FeatureRows(m, r) = RepoPanel(r)
        /\ SignalRows(m, FeatureRows(m, r)) = RepoSignalTable(RepoPanel(r))
    BY <1>3 DEF FeatureRows, SignalRows
  <2>2. DOMAIN RepoPanel(r) \subseteq 1..n
    BY DEF RepoPanel
  <2>3. \A p : DOMAIN RepoSignalTable(p) = DOMAIN p
    BY DEF RepoSignalTable
  <2> QED
    BY <2>1, <2>2, <2>3
<1>4. CASE m = "ofz"
  <2>1. /\ FeatureRows(m, r) = AddStressSignals(OfzPanel(r))
        /\ SignalRows(m, FeatureRows(m, r)) = OfzSignalTable(AddStressSignals(OfzPanel(r)))
    BY <1>4 DEF FeatureRows, SignalRows
  <2>2. \A p : DOMAIN AddStressSignals(p) = DOMAIN p /\ DOMAIN OfzSignalTable(p) = DOMAIN p
    BY DEF AddStressSignals, OfzSignalTable
  <2>3. DOMAIN OfzPanel(r) \subseteq 1..n
    BY <1>1, OfzGoesOn
  <2> QED
    BY <2>1, <2>2, <2>3
<1>5. CASE m = "treasury"
  <2>1. /\ FeatureRows(m, r) = TreasuryPanel(r)
        /\ SignalRows(m, FeatureRows(m, r)) = TreasurySignalTable(TreasuryPanel(r))
    BY <1>5 DEF FeatureRows, SignalRows
  <2>2. \A p : DOMAIN TreasurySignalTable(p) = DOMAIN p
    BY DEF TreasurySignalTable
  <2>3. DOMAIN TreasuryPanel(r) = Min(HeldDays(r))..Max(HeldDays(r))
    BY <1>1, TreasuryPanelGoesOn
  <2>4. Min(HeldDays(r)) \in 1..n /\ Max(HeldDays(r)) \in 1..n
    BY <1>1, HeldGoesOn
  <2> QED
    BY <2>1, <2>2, <2>3, <2>4
<1> QED
  BY <1>2, <1>3, <1>4, <1>5 DEF Module

\* What is built of some days and what is built of more of them.
LEMMA SettledGoesOn ==
  ASSUME NEW k \in Nat, NEW n \in Nat, NEW r, NEW q, GoesOn(r, q, k, n), HeldDays(r) # {},
         module \in Module, FeaturesOf(module, r).derived = FeaturesOf(module, q).derived,
         NEW d \in DOMAIN SignalRows(module, FeatureRows(module, r))
  PROVE  /\ d \in DOMAIN SignalRows(module, FeatureRows(module, q))
         /\ Settled(SignalRows(module, FeatureRows(module, r))[d])
              = Settled(SignalRows(module, FeatureRows(module, q))[d])
<1>1. CASE module = "reserves"
  <2>1. \A x : SignalRows(module, FeatureRows(module, x)) = ReservesTable(x)
    BY <1>1 DEF FeatureRows, SignalRows
  <2>2. d \in 1..k /\ d \in 1..n
    BY <2>1, ReservesGoesOn DEF GoesOn
  <2>3. ReservesTable(r)[d] = ReservesTable(q)[d] /\ d \in DOMAIN ReservesTable(q)
    BY <2>2, ReservesGoesOn
  <2> QED
    BY <2>1, <2>3
<1>2. CASE module = "repo"
  <2>1. \A x : SignalRows(module, FeatureRows(module, x)) = RepoSignalTable(RepoPanel(x))
    BY <1>2 DEF FeatureRows, SignalRows
  <2>2. NoSpreads(r) = NoSpreads(q)
    BY <1>2 DEF FeaturesOf
  <2>3. /\ RepoSignalTable(RepoPanel(r))[d] = RepoSignalTable(RepoPanel(q))[d]
        /\ d \in DOMAIN RepoSignalTable(RepoPanel(q))
    BY <2>1, <2>2, RepoGoesOn
  <2> QED
    BY <2>1, <2>3
<1>3. CASE module = "ofz"
  <2>1. \A x : SignalRows(module, FeatureRows(module, x))
                = OfzSignalTable(AddStressSignals(OfzPanel(x)))
    BY <1>3 DEF FeatureRows, SignalRows
  <2>2. \A p : /\ DOMAIN OfzSignalTable(AddStressSignals(p)) = DOMAIN p
               /\ \A e \in DOMAIN p : OfzSignalTable(AddStressSignals(p))[e].row = p[e]
    BY DEF AddStressSignals, OfzSignalTable
  <2>3. d \in DOMAIN OfzPanel(r)
    BY <2>1, <2>2
  <2>4. /\ d \in DOMAIN OfzPanel(q)
        /\ \A c \in {"has", "cover", "placed", "lastCover", "lastSpread", "days", "stale",
                     "madCover"} : OfzPanel(r)[d][c] = OfzPanel(q)[d][c]
    BY <2>3, OfzGoesOn
  <2> DEFINE Kept(p) == <<p.has, p.cover, p.placed, p.lastCover, p.lastSpread, p.days, p.stale,
                          p.madCover>>
  <2>5. Kept(OfzPanel(r)[d]) = Kept(OfzPanel(q)[d])
    BY <2>4
  <2>6. \A row : Settled(row) = Kept(row.row)
    BY <1>3 DEF Settled
  <2> HIDE DEF Kept
  <2> QED
    BY <2>1, <2>2, <2>3, <2>4, <2>5, <2>6
<1>4. CASE module = "treasury"
  <2>1. \A x : SignalRows(module, FeatureRows(module, x)) = TreasurySignalTable(TreasuryPanel(x))
    BY <1>4 DEF FeatureRows, SignalRows
  <2>2. /\ TreasurySignalTable(TreasuryPanel(r))[d] = TreasurySignalTable(TreasuryPanel(q))[d]
        /\ d \in DOMAIN TreasurySignalTable(TreasuryPanel(q))
    BY <2>1, TreasuryGoesOn
  <2> QED
    BY <2>1, <2>2
<1> QED
  BY <1>1, <1>2, <1>3, <1>4 DEF Module

\* The tables have the shape of a daily table and no rows of days the raw file does not have.
THEOREM TableTypes == TableSpec => []TableTypeOK
<1>1. TablesInv => TableTypeOK
  <2> SUFFICES ASSUME TablesInv
               PROVE  TableTypeOK
    OBVIOUS
  <2>1. CASE features = NoTable /\ signals = NoTable
    BY <2>1 DEF TablesInv, TablesTyped, TableTypeOK
  <2>2. CASE ~(features = NoTable /\ signals = NoTable)
    <3>1. PICK n \in 1..Len(raw) : /\ HeldDays(Upto(n)) # {}
                                   /\ features = FeaturesOf(module, Upto(n)) /\ SignalsBuilt(n)
      BY <2>2 DEF TablesInv, TablesBuilt
    <3>2. \A k \in 1..n : k \in Nat /\ DOMAIN Upto(k) = 1..k /\ 1..k \subseteq DOMAIN raw
      BY DEF Upto, TablesInv, TablesTyped
    <3>3. n \in Nat /\ n \in 1..n
      BY DEF TablesInv, TablesTyped
    <3>4. \A k \in 1..n : FeaturesOf(module, Upto(k)).derived \in BOOLEAN
      BY DEF FeaturesOf, NoSpreads
    <3>5. \A k \in 1..n : HeldDays(Upto(k)) # {} =>
            /\ DOMAIN FeaturesOf(module, Upto(k)).rows \subseteq DOMAIN raw
            /\ DOMAIN SignalsFrom(module, FeaturesOf(module, Upto(k))).rows \subseteq DOMAIN raw
            /\ SignalsFrom(module, FeaturesOf(module, Upto(k))).derived
                 = FeaturesOf(module, Upto(k)).derived
      <4> SUFFICES ASSUME NEW k \in 1..n, HeldDays(Upto(k)) # {}
                   PROVE  /\ DOMAIN FeaturesOf(module, Upto(k)).rows \subseteq DOMAIN raw
                          /\ DOMAIN SignalsFrom(module, FeaturesOf(module, Upto(k))).rows
                               \subseteq DOMAIN raw
                          /\ SignalsFrom(module, FeaturesOf(module, Upto(k))).derived
                               = FeaturesOf(module, Upto(k)).derived
        OBVIOUS
      <4>1. module \in Module
        BY DEF TablesInv, TablesTyped
      <4>2. /\ DOMAIN FeatureRows(module, Upto(k)) \subseteq 1..k
            /\ DOMAIN SignalRows(module, FeatureRows(module, Upto(k))) \subseteq 1..k
        BY <3>2, <4>1, RowsOfDays
      <4> QED
        BY <3>2, <4>2 DEF FeaturesOf, SignalsFrom
    <3>6. features.derived \in BOOLEAN /\ DOMAIN features.rows \subseteq DOMAIN raw
      BY <3>1, <3>3, <3>4, <3>5
    <3>7. \/ signals = NoTable
          \/ signals.derived \in BOOLEAN /\ DOMAIN signals.rows \subseteq DOMAIN raw
      BY <3>1, <3>4, <3>5 DEF SignalsBuilt
    <3>8. features # NoTable
      BY <3>1, TableIsThere
    <3> QED
      BY <3>6, <3>7, <3>8 DEF TablesInv, TablesTyped, TableTypeOK
  <2> QED
    BY <2>1, <2>2
<1> QED
  BY <1>1, TablesAlways, PTL

\* No day looks ahead (shift(1) and the rolling windows of the notebooks): whatever the days
\* that come later, a signal that is written again for a day is the one it had, with the one
\* exception of the spread rule of M2.
THEOREM NoLookaheadAlways == TableSpec => NoLookahead
<1> DEFINE Kept ==
      \A d \in DOMAIN Signals :
        signals.derived = signals'.derived => /\ d \in DOMAIN Signals'
                                              /\ Settled(Signals[d]) = Settled(Signals'[d])
<1>1. ASSUME TablesInv, [TableNext]_tableVars
      PROVE  signals' = signals \/ Kept
  <2>1. CASE signals = NoTable
    BY <2>1 DEF Signals
  <2>2. CASE signals' = signals
    BY <2>2
  <2>3. CASE signals # NoTable /\ RunSignals
    <3>1. PICK n \in 1..Len(raw) : /\ HeldDays(Upto(n)) # {}
                                   /\ features = FeaturesOf(module, Upto(n)) /\ SignalsBuilt(n)
      BY <1>1, <2>3 DEF TablesInv, TablesBuilt
    <3>2. PICK k \in 1..n : /\ HeldDays(Upto(k)) # {}
                            /\ signals = SignalsFrom(module, FeaturesOf(module, Upto(k)))
      BY <2>3, <3>1 DEF SignalsBuilt
    <3>3. signals' = SignalsFrom(module, FeaturesOf(module, Upto(n)))
      BY <2>3, <3>1 DEF RunSignals, SignalsFrom
    <3>4. k \in Nat /\ n \in Nat /\ GoesOn(Upto(k), Upto(n), k, n) /\ module \in Module
      BY <1>1 DEF GoesOn, Upto, TablesInv, TablesTyped
    <3>5. signals # NoTable /\ signals' # NoTable
      BY <3>3, <2>3, TableIsThere
    <3>6. /\ Signals = SignalRows(module, FeatureRows(module, Upto(k)))
          /\ signals.derived = FeaturesOf(module, Upto(k)).derived
      BY <3>2, <3>5 DEF Signals, SignalsFrom, FeaturesOf
    <3>7. /\ Signals' = SignalRows(module, FeatureRows(module, Upto(n)))
          /\ signals'.derived = FeaturesOf(module, Upto(n)).derived
      BY <3>3, <3>5 DEF Signals, SignalsFrom, FeaturesOf
    <3>8. \A d \in DOMAIN Signals :
            FeaturesOf(module, Upto(k)).derived = FeaturesOf(module, Upto(n)).derived =>
              /\ d \in DOMAIN Signals'
              /\ Settled(Signals[d]) = Settled(Signals'[d])
      BY <3>2, <3>4, <3>6, <3>7, SettledGoesOn
    <3> QED
      BY <3>6, <3>7, <3>8
  <2> QED
    BY <1>1, <2>1, <2>2, <2>3 DEF TableNext, NewDay, RunFeatures, tableVars
<1> QED
  BY <1>1, TablesAlways, PTL DEF TableSpec, NoLookahead

\* The panel of M3 marks a row stale by the days since the last auction, and carries the
\* values of the auctions: one that is still carried is no older than the limit.
LEMMA StaleCarriesNothing ==
  ASSUME NEW n \in Nat, NEW r, DOMAIN r = 1..n, HeldDays(r) # {},
         NEW d \in DOMAIN OfzPanel(r), OfzPanel(r)[d].stale
  PROVE  OfzPanel(r)[d].lastCover = NaN /\ OfzPanel(r)[d].lastSpread = NaN
<1> DEFINE N == Max(HeldDays(r))
           DayRow == [e \in 1..N |-> AggDay(r[e])]
           Cover == [e \in 1..N |-> Clipped(DayRow[e].cover)]
           Spread == [e \in 1..N |-> DayRow[e].spread]
           Days == DaysSince(HeldDays(r), d, Never)
<1>1. /\ N \in 1..n /\ HeldDays(r) \subseteq 1..n
  <2>1. GoesOn(r, r, n, n)
    BY DEF GoesOn
  <2> QED
    BY <2>1, HeldGoesOn DEF HeldDays
<1>2. /\ d \in 1..N /\ d \in Nat
      /\ OfzPanel(r)[d].lastCover = LastKnown(Cover, d)
      /\ OfzPanel(r)[d].lastSpread = LastKnown(Spread, d)
      /\ OfzPanel(r)[d].stale = (Days > StaleAfter)
  <2>1. DOMAIN OfzPanel(r) = 1..N
    BY DEF OfzPanel, HeldDays
  <2>2. /\ OfzPanel(r)[d].lastCover = LastKnown(Cover, d)
        /\ OfzPanel(r)[d].lastSpread = LastKnown(Spread, d)
    BY <2>1 DEF OfzPanel, HeldDays
  <2>3. OfzPanel(r)[d].stale = (Days > StaleAfter)
    BY <2>1 DEF OfzPanel, HeldDays
  <2>4. d \in 1..N /\ d \in Nat
    BY <1>1, <2>1
  <2> HIDE DEF Days, Cover, Spread, N
  <2> QED
    BY <2>2, <2>3, <2>4
<1>3. ASSUME NEW e \in Larger(1, d - StaleAfter)..d
      PROVE  e \in 1..N /\ e \notin HeldDays(r)
  <2>1. e \in 1..d /\ e >= d - StaleAfter /\ e \in 1..N
    BY <1>1, <1>2, OfzAssumption DEF Larger
  <2>2. Days > StaleAfter /\ d \in Nat
    BY <1>2
  <2> DEFINE P == HeldDays(r) \intersect 1..d
  <2>3. CASE P = {}
    BY <2>1, <2>3
  <2>4. CASE P # {}
    <3>1. P \in SUBSET Int /\ d \in Int /\ \A x \in P : x <= d
      BY <1>2
    <3>2. Days = d - Max(P)
      BY <2>4 DEF DaysSince
    <3> HIDE DEF P
    <3>3. Max(P) \in P /\ \A x \in P : x <= Max(P)
      BY <2>4, <3>1, BoundedMax
    <3>4. Max(P) \in Int /\ Max(P) < d - StaleAfter
      <4>1. Max(P) \in Int
        BY <3>1, <3>3
      <4>2. d - Max(P) > StaleAfter
        BY <2>2, <3>2
      <4> HIDE DEF Days
      <4> QED
        BY <2>2, <4>1, <4>2, OfzAssumption
    <3>5. e \notin P
      BY <2>1, <3>1, <3>3, <3>4, OfzAssumption
    <3> QED
      BY <2>1, <3>5 DEF P
  <2> HIDE DEF P
  <2> QED
    BY <2>3, <2>4
<1>4. \A e \in 1..N : e \notin HeldDays(r) => Cover[e] = NaN /\ Spread[e] = NaN
  <2> SUFFICES ASSUME NEW e \in 1..N, e \notin HeldDays(r)
               PROVE  Cover[e] = NaN /\ Spread[e] = NaN
    OBVIOUS
  <2>1. r[e] = <<>>
    BY <1>1 DEF HeldDays
  <2>2. AggDay(r[e]).cover = NaN /\ AggDay(r[e]).spread = NaN
    BY <2>1 DEF AggDay
  <2>3. Cover[e] = Clipped(AggDay(r[e]).cover) /\ Spread[e] = AggDay(r[e]).spread
    OBVIOUS
  <2> QED
    BY <2>2, <2>3 DEF Clipped
<1>5. \A s : (\A e \in Larger(1, d - StaleAfter)..d : s[e] = NaN) => LastKnown(s, d) = NaN
  BY DEF LastKnown, Carried
<1> HIDE DEF N, DayRow, Cover, Spread, Days
<1> QED
  BY <1>2, <1>3, <1>4, <1>5

\* Nothing older than the limit is carried (build_daily_panel): on a row of M3 marked stale
\* no value of an earlier auction is left, however many days there are.
THEOREM CarriedIsRecentAlways == TableSpec => []CarriedIsRecent
<1>1. TablesInv => CarriedIsRecent
  <2> SUFFICES ASSUME TablesInv, module = "ofz", signals # NoTable,
                      NEW d \in DOMAIN signals.rows, signals.rows[d].row.stale
               PROVE  /\ signals.rows[d].row.lastCover = NaN
                      /\ signals.rows[d].row.lastSpread = NaN
    BY DEF CarriedIsRecent, SignalsOf, Signals
  <2>1. PICK n \in 1..Len(raw) : SignalsBuilt(n)
    BY DEF TablesInv, TablesBuilt
  <2>2. PICK k \in 1..n : /\ HeldDays(Upto(k)) # {}
                          /\ signals = SignalsFrom(module, FeaturesOf(module, Upto(k)))
    BY <2>1 DEF SignalsBuilt
  <2>3. signals.rows = OfzSignalTable(AddStressSignals(OfzPanel(Upto(k))))
    BY <2>2 DEF SignalsFrom, FeaturesOf, SignalRows, FeatureRows
  <2>4. /\ d \in DOMAIN OfzPanel(Upto(k))
        /\ signals.rows[d].row = OfzPanel(Upto(k))[d]
    <3>1. \A p : /\ DOMAIN OfzSignalTable(AddStressSignals(p)) = DOMAIN p
                 /\ \A e \in DOMAIN p : OfzSignalTable(AddStressSignals(p))[e].row = p[e]
      BY DEF AddStressSignals, OfzSignalTable
    <3> QED
      BY <2>3, <3>1
  <2>5. k \in Nat /\ DOMAIN Upto(k) = 1..k
    BY DEF Upto, TablesInv, TablesTyped
  <2> QED
    BY <2>2, <2>4, <2>5, StaleCarriesNothing
<1> QED
  BY <1>1, TablesAlways, PTL

=============================================================================
