---------------------------- MODULE RobustScores ----------------------------
(***************************************************************************)
(* The robust statistics that every module of the index is normalised      *)
(* with: median, median absolute deviation, score. Numbers are fixed-point *)
(* integers, Unit to one; a column is a sequence with one value for each   *)
(* day, NaN where there is none.                                           *)
(***************************************************************************)
EXTENDS Integers, Sequences, FiniteSets, FiniteSetsExt

CONSTANT NaN  \* a value that is missing

ASSUME NaNAssumption == NaN \notin Int

Number == Int \union {NaN}  \* what a cell parses to

Unit == 100
Larger(a, b) == IF a >= b THEN a ELSE b
Smaller(a, b) == IF a <= b THEN a ELSE b
Distance(a, b) == IF a >= b THEN a - b ELSE b - a

\* NaN < x and NaN > x are both False.
Below(v, bound) == v # NaN /\ v < bound
Above(v, bound) == v # NaN /\ v > bound
Minus(a, b) == IF a = NaN \/ b = NaN THEN NaN ELSE a - b
\* A missing or a zero denominator leaves a ratio missing.
Ratio(a, b) == IF a = NaN \/ b = NaN \/ b = 0 THEN NaN
               ELSE IF b < 0 THEN (Unit * (-a)) \div (-b) ELSE (Unit * a) \div b
OrZero(v) == IF v = NaN THEN 0 ELSE v

\* The values of some days that are known, each at its day (dropna), and how many they are.
Known(s, days) == LET known == {e \in days : s[e] # NaN} IN [e \in known |-> s[e]]
Count(h) == Cardinality(DOMAIN h)
Total(w) == MapThenSumSet(LAMBDA i : w[i], DOMAIN w)

Kth(h, k) ==
  CHOOSE v \in {h[i] : i \in DOMAIN h} :
    /\ Cardinality({i \in DOMAIN h : h[i] < v}) < k
    /\ k <= Cardinality({i \in DOMAIN h : h[i] <= v})
Median(h) == (Kth(h, (Count(h) + 1) \div 2) + Kth(h, (Count(h) \div 2) + 1)) \div 2
Mad(h) == LET m == Median(h) IN Median([i \in DOMAIN h |-> Distance(h[i], m)])

\* The known values of the days before day d, of all or of the last few.
Before(s, d) == Known(s, 1..(d - 1))
Recent(s, d, window) == Known(s, Larger(1, d - window)..(d - 1))

\* Forward fill over at most limit days.
Carried(s, d, limit) ==
  LET known == {e \in Larger(1, d - limit)..d : s[e] # NaN}
  IN IF known = {} THEN NaN ELSE s[Max(known)]

\* Days since the last of some days, or never.
DaysSince(days, d, never) ==
  LET past == days \intersect 1..d
  IN IF past = {} THEN never ELSE d - Max(past)
=============================================================================
