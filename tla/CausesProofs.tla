---------------------------- MODULE CausesProofs -----------------------------
(***************************************************************************)
(* Theorems about what the tables say: the columns of the notebooks hold   *)
(* numbers, a flag or a season has its cause in the raw rows, and a score  *)
(* fades towards zero, for raw files of any length and any numbers. At the *)
(* end the run of all the parts of the data plane, to which the theorems   *)
(* of the parts carry over.                                                *)
(***************************************************************************)
EXTENDS TablesProofs

-----------------------------------------------------------------------------
(***************************************************************************)
(* Sums. Total folds over a set, by a function on its subsets.             *)
(***************************************************************************)
Pick(s) == CHOOSE x \in s : TRUE
SumStep(h, g, s) == IF s = {} THEN 0 ELSE h[Pick(s)] + g[s \ {Pick(s)}]
Sums(h) == CHOOSE g : g = [s \in SUBSET DOMAIN h |-> SumStep(h, g, s)]

LEMMA TotalIsSum == ASSUME NEW h PROVE Total(h) = Sums(h)[DOMAIN h]
BY DEF Total, MapThenSumSet, MapThenFoldSet, Sums, SumStep, Pick

\* One element less.
LEMMA OneLess ==
  ASSUME NEW s, IsFiniteSet(s), s # {}
  PROVE  /\ Pick(s) \in s /\ IsFiniteSet(s \ {Pick(s)})
         /\ Cardinality(s) \in Nat /\ Cardinality(s) > 0
         /\ Cardinality(s \ {Pick(s)}) = Cardinality(s) - 1
<1>1. Pick(s) \in s
  BY DEF Pick
<1>2. Cardinality(s) \in Nat /\ Cardinality(s) # 0
  BY FS_CardinalityType, FS_EmptySet
<1> QED
  BY <1>1, <1>2, FS_RemoveElement

\* The function on the subsets exists: it does for the subsets of each size.
LEMMA SumsExist ==
  ASSUME NEW h, IsFiniteSet(DOMAIN h)
  PROVE  \A s \in SUBSET DOMAIN h : Sums(h)[s] = SumStep(h, Sums(h), s)
<1> DEFINE S == DOMAIN h
           Upon(g, n) == \A s \in SUBSET S : Cardinality(s) <= n => g[s] = SumStep(h, g, s)
           Bad == {n \in Nat : ~\E g : Upon(g, n)}
<1>1. \A s \in SUBSET S : /\ IsFiniteSet(s) /\ Cardinality(s) \in Nat
                          /\ Cardinality(s) <= Cardinality(S)
                          /\ Cardinality(s) = 0 <=> s = {}
  BY FS_Subset, FS_CardinalityType, FS_EmptySet
<1>2. 0 \notin Bad
  <2> DEFINE zero == [s \in SUBSET S |-> 0]
  <2>1. Upon(zero, 0)
    BY <1>1 DEF SumStep
  <2> QED
    BY <2>1
<1>3. ASSUME NEW n \in Nat, n # 0, NEW g, Upon(g, n - 1)
      PROVE  \E f : Upon(f, n)
  <2> DEFINE f == [s \in SUBSET S |-> IF Cardinality(s) <= n - 1 THEN g[s] ELSE SumStep(h, g, s)]
  <2>1. ASSUME NEW s \in SUBSET S, Cardinality(s) <= n
        PROVE  f[s] = SumStep(h, f, s)
    <3>1. f[s] = SumStep(h, g, s)
      BY <1>3
    <3>2. CASE s = {}
      BY <3>1, <3>2 DEF SumStep
    <3>3. CASE s # {}
      <4>1. s \ {Pick(s)} \in SUBSET S /\ Cardinality(s \ {Pick(s)}) <= n - 1
        BY <1>1, <2>1, <3>3, OneLess
      <4>2. f[s \ {Pick(s)}] = g[s \ {Pick(s)}]
        BY <4>1
      <4> HIDE DEF f
      <4> QED
        BY <3>1, <3>3, <4>2 DEF SumStep
    <3> QED
      BY <3>2, <3>3
  <2> HIDE DEF f
  <2> QED
    BY <2>1
<1>4. Bad = {}
  <2> SUFFICES ASSUME Bad # {}
               PROVE  FALSE
    OBVIOUS
  <2>1. PICK n \in Bad : \A m \in Bad : n <= m
    <3>1. Bad \in SUBSET Nat
      OBVIOUS
    <3> HIDE DEF Bad
    <3> QED
      BY <3>1, LeastOf
  <2>2. n \in Nat /\ n # 0 /\ n - 1 \in Nat /\ n - 1 \notin Bad
    <3>1. n \in Nat
      OBVIOUS
    <3>2. n # 0
      BY <1>2
    <3> HIDE DEF Bad
    <3> QED
      BY <2>1, <3>1, <3>2
  <2> QED
    BY <1>3, <2>2
<1>5. PICK g : Upon(g, Cardinality(S))
  BY <1>1, <1>4
<1>6. \A s \in SUBSET S : g[s] = SumStep(h, g, s)
  BY <1>1, <1>5
<1> DEFINE f == [s \in SUBSET S |-> g[s]]
<1>7. \A s \in SUBSET S : SumStep(h, f, s) = SumStep(h, g, s)
  BY OneLess, <1>1 DEF SumStep
<1>8. f = [s \in SUBSET DOMAIN h |-> SumStep(h, f, s)]
  BY <1>6, <1>7
<1>9. Sums(h) = [s \in SUBSET DOMAIN h |-> SumStep(h, Sums(h), s)]
  <2> HIDE DEF f
  <2> QED
    BY <1>8 DEF Sums
<1> QED
  BY <1>9

\* What a sum of numbers is, bounded by what bounds them.
LEMMA SumOf ==
  ASSUME NEW h, IsFiniteSet(DOMAIN h), \A i \in DOMAIN h : h[i] \in Int
  PROVE  /\ Total(h) \in Int
         /\ (\A i \in DOMAIN h : h[i] >= 0) => Total(h) >= 0
         /\ (\A i \in DOMAIN h : h[i] <= 0) => Total(h) <= 0
         /\ (\A i \in DOMAIN h : h[i] > 0) /\ DOMAIN h # {} => Total(h) > 0
<1> DEFINE S == DOMAIN h
           Fine(s) == /\ Sums(h)[s] \in Int
                      /\ (\A i \in S : h[i] >= 0) => Sums(h)[s] >= 0
                      /\ (\A i \in S : h[i] <= 0) => Sums(h)[s] <= 0
                      /\ (\A i \in S : h[i] > 0) /\ s # {} => Sums(h)[s] > 0
           Bad == {n \in Nat : \E s \in SUBSET S : Cardinality(s) = n /\ ~Fine(s)}
<1>1. \A s \in SUBSET S : IsFiniteSet(s) /\ Cardinality(s) \in Nat
  BY FS_Subset, FS_CardinalityType
<1>2. ASSUME NEW s \in SUBSET S, \A t \in SUBSET S : Cardinality(t) = Cardinality(s) - 1 => Fine(t)
      PROVE  Fine(s)
  <2>1. Sums(h)[s] = SumStep(h, Sums(h), s)
    BY SumsExist
  <2>2. CASE s = {}
    BY <2>1, <2>2 DEF SumStep
  <2>3. CASE s # {}
    <3> DEFINE t == s \ {Pick(s)}
    <3>1. t \in SUBSET S /\ Pick(s) \in S /\ Cardinality(t) = Cardinality(s) - 1
      BY <1>1, <2>3, OneLess
    <3>2. Fine(t)
      BY <1>2, <3>1
    <3>3. Sums(h)[s] = h[Pick(s)] + Sums(h)[t] /\ h[Pick(s)] \in Int
      BY <2>1, <2>3, <3>1 DEF SumStep
    <3>4. (\A i \in S : h[i] > 0) => \A i \in S : h[i] >= 0
      OBVIOUS
    <3> HIDE DEF t
    <3> QED
      BY <3>1, <3>2, <3>3, <3>4
  <2> QED
    BY <2>2, <2>3
<1>3. Bad = {}
  <2> SUFFICES ASSUME Bad # {}
               PROVE  FALSE
    OBVIOUS
  <2>1. Bad \in SUBSET Nat
    OBVIOUS
  <2> HIDE DEF Fine
  <2>2. PICK n \in Bad : \A m \in Bad : n <= m
    <3> HIDE DEF Bad
    <3> QED
      BY <2>1, LeastOf
  <2>3. PICK s \in SUBSET S : Cardinality(s) = n /\ ~Fine(s)
    OBVIOUS
  <2>4. \A t \in SUBSET S : Cardinality(t) = Cardinality(s) - 1 => Fine(t)
    BY <1>1, <2>2, <2>3
  <2> QED
    BY <1>2, <2>3, <2>4
<1>4. Fine(S)
  <2> HIDE DEF Fine
  <2> QED
    BY <1>1, <1>3
<1> QED
  BY <1>4, TotalIsSum

\* Of two columns of which one is at most a multiple of the other, so are the sums.
LEMMA SumOfTwo ==
  ASSUME NEW h, NEW w, DOMAIN h = DOMAIN w, IsFiniteSet(DOMAIN h), NEW c \in Int,
         \A i \in DOMAIN h : h[i] \in Int /\ w[i] \in Int /\ h[i] <= c * w[i]
  PROVE  Total(h) <= c * Total(w)
<1> DEFINE S == DOMAIN h
           Fine(s) == /\ Sums(h)[s] \in Int /\ Sums(w)[s] \in Int
                      /\ Sums(h)[s] <= c * Sums(w)[s]
           Bad == {n \in Nat : \E s \in SUBSET S : Cardinality(s) = n /\ ~Fine(s)}
<1>1. \A s \in SUBSET S : IsFiniteSet(s) /\ Cardinality(s) \in Nat
  BY FS_Subset, FS_CardinalityType
<1>2. ASSUME NEW s \in SUBSET S, \A t \in SUBSET S : Cardinality(t) = Cardinality(s) - 1 => Fine(t)
      PROVE  Fine(s)
  <2>1. Sums(h)[s] = SumStep(h, Sums(h), s) /\ Sums(w)[s] = SumStep(w, Sums(w), s)
    BY SumsExist
  <2>2. CASE s = {}
    BY <2>1, <2>2 DEF SumStep
  <2>3. CASE s # {}
    <3> DEFINE t == s \ {Pick(s)}
    <3>1. t \in SUBSET S /\ Pick(s) \in S /\ Cardinality(t) = Cardinality(s) - 1
      BY <1>1, <2>3, OneLess
    <3>2. Fine(t)
      BY <1>2, <3>1
    <3>3. /\ Sums(h)[s] = h[Pick(s)] + Sums(h)[t] /\ h[Pick(s)] \in Int
          /\ Sums(w)[s] = w[Pick(s)] + Sums(w)[t] /\ w[Pick(s)] \in Int
          /\ h[Pick(s)] <= c * w[Pick(s)]
      BY <2>1, <2>3, <3>1 DEF SumStep
    <3>4. \A x, y \in Int : c * (x + y) = c * x + c * y /\ c * x \in Int
      OBVIOUS
    <3> HIDE DEF t
    <3>5. c * Sums(w)[s] = c * w[Pick(s)] + c * Sums(w)[t]
      BY <3>2, <3>3, <3>4
    <3> QED
      BY <3>2, <3>3, <3>4, <3>5
  <2> QED
    BY <2>2, <2>3
<1>3. Bad = {}
  <2> SUFFICES ASSUME Bad # {}
               PROVE  FALSE
    OBVIOUS
  <2>1. Bad \in SUBSET Nat
    OBVIOUS
  <2> HIDE DEF Fine
  <2>2. PICK n \in Bad : \A m \in Bad : n <= m
    <3> HIDE DEF Bad
    <3> QED
      BY <2>1, LeastOf
  <2>3. PICK s \in SUBSET S : Cardinality(s) = n /\ ~Fine(s)
    OBVIOUS
  <2>4. \A t \in SUBSET S : Cardinality(t) = Cardinality(s) - 1 => Fine(t)
    BY <1>1, <2>2, <2>3
  <2> QED
    BY <1>2, <2>3, <2>4
<1>4. Fine(S)
  <2> HIDE DEF Fine
  <2> QED
    BY <1>1, <1>3
<1> QED
  BY <1>4, TotalIsSum

-----------------------------------------------------------------------------
(***************************************************************************)
(* Medians.                                                                *)
(***************************************************************************)
\* A finite set of numbers has a bound.
LEMMA FiniteBounded ==
  ASSUME NEW S \in SUBSET Int, IsFiniteSet(S)
  PROVE  \E b \in Int : \A x \in S : x <= b
<1> DEFINE Fine(s) == \E b \in Int : \A x \in s : x <= b
           Bad == {n \in Nat : \E s \in SUBSET S : Cardinality(s) = n /\ ~Fine(s)}
<1>1. \A s \in SUBSET S : IsFiniteSet(s) /\ Cardinality(s) \in Nat
  BY FS_Subset, FS_CardinalityType
<1>2. ASSUME NEW s \in SUBSET S, \A t \in SUBSET S : Cardinality(t) = Cardinality(s) - 1 => Fine(t)
      PROVE  Fine(s)
  <2>1. CASE s = {}
    BY <2>1
  <2>2. CASE s # {}
    <3> DEFINE t == s \ {Pick(s)}
    <3>1. t \in SUBSET S /\ Pick(s) \in S /\ Cardinality(t) = Cardinality(s) - 1
      BY <1>1, <2>2, OneLess
    <3>2. PICK b \in Int : \A x \in t : x <= b
      BY <1>2, <3>1
    <3>3. \A x \in s : x <= Larger(b, Pick(s))
      <4> SUFFICES ASSUME NEW x \in s
                   PROVE  x <= Larger(b, Pick(s))
        OBVIOUS
      <4>1. x \in Int /\ Pick(s) \in Int /\ (x = Pick(s) \/ x <= b)
        BY <3>1, <3>2
      <4> QED
        BY <4>1 DEF Larger
    <3>4. Larger(b, Pick(s)) \in Int
      BY <3>1 DEF Larger
    <3> QED
      BY <3>3, <3>4
  <2> QED
    BY <2>1, <2>2
<1>3. Bad = {}
  <2> SUFFICES ASSUME Bad # {}
               PROVE  FALSE
    OBVIOUS
  <2>1. Bad \in SUBSET Nat
    OBVIOUS
  <2> HIDE DEF Fine
  <2>2. PICK n \in Bad : \A m \in Bad : n <= m
    <3> HIDE DEF Bad
    <3> QED
      BY <2>1, LeastOf
  <2>3. PICK s \in SUBSET S : Cardinality(s) = n /\ ~Fine(s)
    OBVIOUS
  <2>4. \A t \in SUBSET S : Cardinality(t) = Cardinality(s) - 1 => Fine(t)
    BY <1>1, <2>2, <2>3
  <2> QED
    BY <1>2, <2>3, <2>4
<1>4. Fine(S)
  <2> HIDE DEF Fine
  <2> QED
    BY <1>1, <1>3
<1> QED
  BY <1>4

\* The values of a function with finitely many arguments are finitely many.
LEMMA ValuesAreFinite ==
  ASSUME NEW h, IsFiniteSet(DOMAIN h)
  PROVE  IsFiniteSet({h[i] : i \in DOMAIN h})
<1> DEFINE V == {h[i] : i \in DOMAIN h}
           f == [i \in DOMAIN h |-> h[i]]
<1>1. f \in [DOMAIN h -> V] /\ \A v \in V : \E i \in DOMAIN h : f[i] = v
  OBVIOUS
<1>2. f \in Surjection(DOMAIN h, V)
  <2> HIDE DEF f, V
  <2> QED
    BY <1>1 DEF Surjection
<1>3. IsFiniteSet(V)
  <2> HIDE DEF f, V
  <2> QED
    BY <1>2, FS_Surjection
<1> QED
  BY <1>3

\* It has a greatest and a least one.
LEMMA Extremes ==
  ASSUME NEW S \in SUBSET Int, IsFiniteSet(S), S # {}
  PROVE  /\ Max(S) \in S /\ \A x \in S : x <= Max(S)
         /\ \E m \in S : \A x \in S : m <= x
<1>1. PICK b \in Int : \A x \in S : x <= b
  BY FiniteBounded
<1>2. Max(S) \in S /\ \A x \in S : x <= Max(S)
  BY <1>1, BoundedMax
<1> DEFINE N == {-x : x \in S}
<1>4. N \in SUBSET Int /\ N # {} /\ IsFiniteSet(N)
  <2> DEFINE f == [x \in S |-> -x]
  <2>1. DOMAIN f = S /\ N = {f[x] : x \in DOMAIN f}
    OBVIOUS
  <2>2. IsFiniteSet({f[x] : x \in DOMAIN f})
    <3> HIDE DEF f
    <3> QED
      BY <2>1, ValuesAreFinite
  <2>3. N \in SUBSET Int
    <3>1. \A x \in S : x \in Int /\ -x \in Int
      OBVIOUS
    <3> QED
      BY <3>1
  <2>4. N # {}
    OBVIOUS
  <2> HIDE DEF N, f
  <2> QED
    BY <2>1, <2>2, <2>3, <2>4
<1>5. PICK c \in Int : \A x \in N : x <= c
  <2> HIDE DEF N
  <2> QED
    BY <1>4, FiniteBounded
<1>6. Max(N) \in N /\ \A x \in N : x <= Max(N)
  <2> HIDE DEF N
  <2> QED
    BY <1>4, <1>5, BoundedMax
<1>7. PICK m \in S : Max(N) = -m
  BY <1>6
<1>8. \A x \in S : m <= x
  BY <1>6, <1>7
<1> QED
  BY <1>2, <1>8

\* The histories that are looked at: finitely many values, all of them numbers.
Numbers(h) == IsFiniteSet(DOMAIN h) /\ \A i \in DOMAIN h : h[i] \in Int

\* The k-th smallest value is one of the values.
LEMMA KthIsValue ==
  ASSUME NEW h, Numbers(h), NEW k \in 1..Count(h)
  PROVE  \E i \in DOMAIN h : Kth(h, k) = h[i]
<1> DEFINE V == {h[i] : i \in DOMAIN h}
           Under(v) == {i \in DOMAIN h : h[i] < v}
           Upon(v) == {i \in DOMAIN h : h[i] <= v}
           G == {v \in V : k <= Cardinality(Upon(v))}
<1>1. V \in SUBSET Int /\ IsFiniteSet(V)
  BY ValuesAreFinite DEF Numbers
<1>2. V # {}
  BY FS_EmptySet DEF Count
<1>3. /\ k \in Nat /\ 1 <= k /\ k <= Count(h) /\ Count(h) \in Nat
      /\ \A v : /\ Cardinality(Under(v)) \in Nat /\ Cardinality(Upon(v)) \in Nat
                /\ IsFiniteSet(Under(v))
  <2>1. Count(h) \in Nat
    BY FS_CardinalityType DEF Count, Numbers
  <2>2. \A v : IsFiniteSet(Under(v)) /\ IsFiniteSet(Upon(v))
    BY FS_Subset DEF Numbers
  <2>3. \A v : Cardinality(Under(v)) \in Nat /\ Cardinality(Upon(v)) \in Nat
    <3> HIDE DEF Under, Upon
    <3> QED
      BY <2>2, FS_CardinalityType
  <2>4. k \in Nat /\ 1 <= k /\ k <= Count(h)
    BY <2>1
  <2> HIDE DEF Under, Upon
  <2> QED
    BY <2>1, <2>2, <2>3, <2>4
<1>4. Max(V) \in G
  <2>1. Max(V) \in V /\ \A x \in V : x <= Max(V)
    BY <1>1, <1>2, Extremes
  <2>2. Upon(Max(V)) = DOMAIN h
    BY <2>1
  <2> QED
    BY <1>3, <2>1, <2>2 DEF Count
<1>5. PICK v \in G : \A x \in G : v <= x
  <2>1. G \in SUBSET Int /\ IsFiniteSet(G) /\ G # {}
    BY <1>1, <1>4, FS_Subset
  <2> HIDE DEF G
  <2> QED
    BY <2>1, Extremes
<1>6. Cardinality(Under(v)) < k
  <2> SUFFICES ASSUME Cardinality(Under(v)) >= k
               PROVE  FALSE
    BY <1>3
  <2> DEFINE L == {x \in V : x < v}
  <2>1. L \in SUBSET Int /\ IsFiniteSet(L)
    BY <1>1, FS_Subset
  <2>2. L # {}
    <3>1. Under(v) # {}
      BY <1>3, FS_EmptySet
    <3> QED
      BY <3>1
  <2> DEFINE u == Max(L)
  <2>3. u \in L /\ \A x \in L : x <= u
    <3> HIDE DEF L
    <3> QED
      BY <2>1, <2>2, Extremes
  <2>4. Upon(u) = Under(v)
    <3>1. u \in Int /\ v \in Int /\ u < v
      BY <1>1, <2>3
    <3>2. \A i \in DOMAIN h : h[i] < v => h[i] <= u
      BY <2>3
    <3>3. \A i \in DOMAIN h : h[i] \in Int
      BY DEF Numbers
    <3> HIDE DEF u
    <3> QED
      BY <3>1, <3>2, <3>3
  <2>5. u \in G /\ u < v /\ u \in Int /\ v \in Int
    BY <1>1, <2>3, <2>4
  <2> HIDE DEF u
  <2> QED
    BY <1>5, <2>5
<1>7. \E x \in V : Cardinality(Under(x)) < k /\ k <= Cardinality(Upon(x))
  BY <1>5, <1>6
<1>8. Kth(h, k) \in V
  BY <1>7 DEF Kth
<1> QED
  BY <1>8

\* A median is a number, and between bounds of the values.
LEMMA MedianBetween ==
  ASSUME NEW h, Numbers(h), Count(h) > 0
  PROVE  /\ Median(h) \in Int
         /\ \A b \in Int : (\A i \in DOMAIN h : h[i] <= b) => Median(h) <= b
         /\ \A b \in Int : (\A i \in DOMAIN h : h[i] >= b) => Median(h) >= b
<1>1. Count(h) \in Nat
  BY FS_CardinalityType DEF Count, Numbers
<1>2. (Count(h) + 1) \div 2 \in 1..Count(h) /\ (Count(h) \div 2) + 1 \in 1..Count(h)
  <2> DEFINE n == Count(h)
  <2>1. n \in Nat /\ n > 0
    BY <1>1
  <2> HIDE DEF n
  <2>2. (n + 1) \div 2 \in 1..n /\ (n \div 2) + 1 \in 1..n
    BY <2>1
  <2> QED
    BY <2>2 DEF n
<1>3. PICK i \in DOMAIN h : Kth(h, (Count(h) + 1) \div 2) = h[i]
  BY <1>2, KthIsValue
<1>4. PICK j \in DOMAIN h : Kth(h, (Count(h) \div 2) + 1) = h[j]
  BY <1>2, KthIsValue
<1>5. Median(h) = (h[i] + h[j]) \div 2 /\ h[i] \in Int /\ h[j] \in Int
  BY <1>3, <1>4 DEF Median, Numbers
<1> QED
  BY <1>5

-----------------------------------------------------------------------------
(***************************************************************************)
(* Scores of columns of numbers are numbers.                               *)
(***************************************************************************)
NumbersTo(s, d) == \A e \in 1..d : s[e] \in Number

\* The median absolute deviation is no negative number.
LEMMA MadIsNumber ==
  ASSUME NEW h, Numbers(h), Count(h) > 0
  PROVE  Mad(h) \in Nat
<1> DEFINE m == Median(h)
           g == [i \in DOMAIN h |-> Distance(h[i], m)]
<1>1. m \in Int
  BY MedianBetween
<1> HIDE DEF m
<1>2. \A i \in DOMAIN h : Distance(h[i], m) \in Int /\ Distance(h[i], m) >= 0
  BY <1>1 DEF Distance, Numbers
<1>3. Numbers(g) /\ DOMAIN g = DOMAIN h /\ \A i \in DOMAIN g : g[i] >= 0
  BY <1>2 DEF Numbers
<1>4. Count(g) = Count(h)
  BY <1>3 DEF Count
<1>5. Mad(h) = Median(g)
  BY DEF Mad, m
<1> HIDE DEF g
<1>6. Median(g) \in Int /\ Median(g) >= 0
  BY <1>3, <1>4, MedianBetween
<1> QED
  BY <1>5, <1>6

\* A history is made of numbers.
LEMMA HistoryIsNumbers ==
  ASSUME NEW s, NEW d \in Nat, NumbersTo(s, d - 1), NEW window \in Nat
  PROVE  /\ Numbers(Recent(s, d, window)) /\ Numbers(Before(s, d))
         /\ \A e \in DOMAIN Recent(s, d, window) : /\ e \in 1..(d - 1) /\ s[e] # NaN
                                                   /\ Recent(s, d, window)[e] = s[e]
         /\ \A e \in DOMAIN Before(s, d) : e \in 1..(d - 1) /\ s[e] # NaN /\ Before(s, d)[e] = s[e]
         /\ Count(Recent(s, d, window)) \in Nat /\ Count(Before(s, d)) \in Nat
<1>1. ASSUME NEW days \in SUBSET (1..(d - 1))
      PROVE  /\ Numbers(Known(s, days)) /\ Count(Known(s, days)) \in Nat
             /\ \A e \in DOMAIN Known(s, days) : /\ e \in 1..(d - 1) /\ s[e] # NaN
                                                 /\ Known(s, days)[e] = s[e]
  <2> DEFINE there == {e \in days : s[e] # NaN}
  <2>1. Known(s, days) = [e \in there |-> s[e]]
    BY DEF Known
  <2>2. \A e \in there : e \in 1..(d - 1) /\ s[e] # NaN /\ s[e] \in Int
    BY DEF NumbersTo, Number
  <2>3. IsFiniteSet(there)
    <3>1. IsFiniteSet(1..(d - 1))
      BY FS_Interval
    <3>2. there \in SUBSET (1..(d - 1))
      OBVIOUS
    <3> QED
      BY <3>1, <3>2, FS_Subset
  <2> HIDE DEF there
  <2>4. Cardinality(there) \in Nat
    BY <2>3, FS_CardinalityType
  <2> QED
    BY <2>1, <2>2, <2>3, <2>4 DEF Numbers, Count
<1>2. 1..(d - 1) \in SUBSET (1..(d - 1)) /\ Larger(1, d - window)..(d - 1) \in SUBSET (1..(d - 1))
  BY DEF Larger
<1> QED
  BY <1>1, <1>2 DEF Recent, Before

\* M2 and M5: a score that is no miss, and what it says when it is positive.
LEMMA ScoreNumbers ==
  ASSUME NEW s, NEW d \in Nat \ {0}, NumbersTo(s, d)
  PROVE  /\ \A floor \in Nat \ {0} : HistoricalMadScore(s, d, floor) \in Int
         /\ OfzMadScore(s, d) \in Int
         /\ RollingMadScore(s, d) \in Int
         /\ \A window \in Nat, min \in Nat \ {0}, floor \in Nat \ {0} :
              ScoreNoLookahead(s, d, window, min, floor) \in Number
<1>1. s[d] \in Number /\ NumbersTo(s, d - 1) /\ NumbersTo(s, (d + 1) - 1) /\ d + 1 \in Nat
  <2>1. (d + 1) - 1 = d /\ d \in 1..d /\ d + 1 \in Nat /\ \A e \in 1..(d - 1) : e \in 1..d
    OBVIOUS
  <2> QED
    BY <2>1 DEF NumbersTo
<1>2. \A window \in Nat : /\ Numbers(Recent(s, d, window)) /\ Numbers(Before(s, d))
                         /\ Count(Recent(s, d, window)) \in Nat /\ Count(Before(s, d)) \in Nat
                         /\ Numbers(Recent(s, d + 1, window)) /\ Numbers(Before(s, d + 1))
                         /\ Count(Recent(s, d + 1, window)) \in Nat
                         /\ Count(Before(s, d + 1)) \in Nat
  BY <1>1, HistoryIsNumbers
<1>3. \A h : Numbers(h) /\ Count(h) \in Nat /\ Count(h) > 0 => Median(h) \in Int /\ Mad(h) \in Nat
  BY MedianBetween, MadIsNumber
<1>4. \A a \in Int, b \in Nat \ {0} : a \div b \in Int
  OBVIOUS
<1>5. \A a \in Int, b \in Int, c \in Int : c * (a - b) \in Int
  OBVIOUS
<1>6. ASSUME NEW floor \in Nat \ {0}
      PROVE  HistoricalMadScore(s, d, floor) \in Int
  <2> DEFINE rolling == Recent(s, d, RepoWindow)
             hist == IF Count(rolling) >= RepoMin THEN rolling ELSE Before(s, d)
             enough == Count(rolling) >= RepoMin \/ Count(Before(s, d)) >= RepoMinExpanding
  <2>1. CASE s[d] = NaN \/ ~enough
    BY <2>1 DEF HistoricalMadScore
  <2>2. CASE s[d] # NaN /\ enough
    <3>1. HistoricalMadScore(s, d, floor)
            = (Unit * (s[d] - Median(hist))) \div Larger(Mad(hist), floor)
      BY <2>2 DEF HistoricalMadScore
    <3>2. Numbers(hist) /\ Count(hist) \in Nat /\ Count(hist) > 0
      BY <1>2, <2>2, RepoAssumption
    <3> HIDE DEF hist
    <3>3. Median(hist) \in Int /\ Mad(hist) \in Nat
      BY <1>3, <3>2
    <3>4. Larger(Mad(hist), floor) \in Nat \ {0}
      BY <3>3 DEF Larger
    <3>5. s[d] \in Int /\ Unit \in Int
      BY <1>1, <2>2 DEF Number, Unit
    <3> QED
      BY <1>4, <1>5, <3>1, <3>3, <3>4, <3>5
  <2> QED
    BY <2>1, <2>2
<1>7. OfzMadScore(s, d) \in Int
  <2> DEFINE hist == Recent(s, d, OfzWindow)
  <2>1. CASE s[d] = NaN \/ Count(hist) < OfzMin \/ Mad(hist) = 0
    BY <2>1 DEF OfzMadScore
  <2>2. CASE ~(s[d] = NaN \/ Count(hist) < OfzMin \/ Mad(hist) = 0)
    <3>1. OfzMadScore(s, d) = (6745 * (s[d] - Median(hist))) \div (100 * Mad(hist))
      BY <2>2 DEF OfzMadScore
    <3>2. Numbers(hist) /\ Count(hist) \in Nat /\ Count(hist) > 0
      BY <1>2, <2>2, OfzAssumption
    <3> HIDE DEF hist
    <3>3. Median(hist) \in Int /\ Mad(hist) \in Nat
      BY <1>3, <3>2
    <3>4. 100 * Mad(hist) \in Nat \ {0}
      BY <2>2, <3>3
    <3>5. s[d] \in Int /\ 6745 \in Int
      BY <1>1, <2>2 DEF Number
    <3> QED
      BY <1>4, <1>5, <3>1, <3>3, <3>4, <3>5
  <2> QED
    BY <2>1, <2>2
<1>8. ASSUME NEW hist, Numbers(hist), Count(hist) \in Nat
      PROVE  WindowScore(s[d], hist) \in Number
  <2>1. CASE s[d] = NaN \/ Count(hist) < ScoreMin \/ Mad(hist) = 0
    BY <2>1 DEF WindowScore, Number
  <2>2. CASE ~(s[d] = NaN \/ Count(hist) < ScoreMin \/ Mad(hist) = 0)
    <3>1. WindowScore(s[d], hist) = (6745 * (s[d] - Median(hist))) \div (100 * Mad(hist))
      BY <2>2 DEF WindowScore
    <3>2. Count(hist) > 0
      BY <1>8, <2>2, ReservesAssumption
    <3>3. Median(hist) \in Int /\ Mad(hist) \in Nat
      BY <1>3, <1>8, <3>2
    <3>4. 100 * Mad(hist) \in Nat \ {0}
      BY <2>2, <3>3
    <3>5. s[d] \in Int /\ 6745 \in Int
      BY <1>1, <2>2 DEF Number
    <3> QED
      BY <1>4, <1>5, <3>1, <3>3, <3>4, <3>5 DEF Number
  <2> QED
    BY <2>1, <2>2
<1>9. RollingMadScore(s, d) \in Int
  <2>1. /\ WindowScore(s[d], Recent(s, d + 1, ScoreWindow)) \in Number
        /\ WindowScore(s[d], Before(s, d + 1)) \in Number
    BY <1>2, <1>8, ReservesAssumption
  <2> QED
    BY <2>1 DEF RollingMadScore, OrZero, Number
<1>10. ASSUME NEW window \in Nat, NEW min \in Nat \ {0}, NEW floor \in Nat \ {0}
       PROVE  ScoreNoLookahead(s, d, window, min, floor) \in Number
  <2> DEFINE hist == IF Count(Recent(s, d, window)) >= min THEN Recent(s, d, window)
                     ELSE Before(s, d)
  <2>1. CASE s[d] = NaN \/ Count(hist) < min
    BY <2>1 DEF ScoreNoLookahead, Number
  <2>2. CASE ~(s[d] = NaN \/ Count(hist) < min)
    <3>1. ScoreNoLookahead(s, d, window, min, floor)
            = (Unit * (s[d] - Median(hist))) \div ScaledMad(hist, floor)
      BY <2>2 DEF ScoreNoLookahead
    <3>2. Numbers(hist) /\ Count(hist) \in Nat
      BY <1>2
    <3>3. Count(hist) > 0
      BY <2>2, <3>2
    <3> HIDE DEF hist
    <3>4. Median(hist) \in Int /\ Mad(hist) \in Nat
      BY <1>3, <3>2, <3>3
    <3>5. ScaledMad(hist, floor) \in Nat \ {0}
      BY <3>4 DEF ScaledMad, Larger
    <3>6. s[d] \in Int /\ Unit \in Int
      BY <1>1, <2>2 DEF Number, Unit
    <3> QED
      BY <1>4, <1>5, <3>1, <3>4, <3>5, <3>6 DEF Number
  <2> QED
    BY <2>1, <2>2
<1> QED
  BY <1>6, <1>7, <1>9, <1>10

-----------------------------------------------------------------------------
(***************************************************************************)
(* The raw rows are rows of the module, and their cells parse to numbers.  *)
(***************************************************************************)
RawTyped == \A d \in 1..Len(raw) : raw[d] \in RawDay(module)

\* Every behaviour of the tables keeps it: a day that arrives is a day of the source.
LEMMA RawTypedAlways == TableSpec => []RawTyped
<1>1. TableInit => RawTyped
  BY DEF TableInit, RawTyped
<1>2. TablesTyped /\ RawTyped /\ [TableNext]_tableVars => RawTyped'
  <2> SUFFICES ASSUME TablesTyped, RawTyped, [TableNext]_tableVars
               PROVE  RawTyped'
    OBVIOUS
  <2>1. CASE NewDay
    <3>1. PICK day \in RawDay(module) : raw' = Append(raw, day) /\ module' = module
      BY <2>1 DEF NewDay
    <3> DEFINE S == UNION {RawDay(m) : m \in Module}
    <3>2. raw \in Seq(S) /\ day \in S
      <4> HIDE DEF Module
      <4> QED
        BY DEF TablesTyped
    <3> HIDE DEF S
    <3>3. /\ Len(raw)' = Len(raw) + 1 /\ Len(raw) \in Nat
          /\ \A d \in 1..Len(raw) : raw'[d] = raw[d]
          /\ raw'[Len(raw) + 1] = day
      BY <3>1, <3>2
    <3>4. \A d \in 1..(Len(raw) + 1) : d \in 1..Len(raw) \/ d = Len(raw) + 1
      BY <3>3
    <3> QED
      BY <3>1, <3>3, <3>4 DEF RawTyped
  <2>2. CASE UNCHANGED <<module, raw>>
    BY <2>2 DEF RawTyped
  <2> QED
    BY <2>1, <2>2 DEF TableNext, RunFeatures, RunSignals, tableVars
<1>3. TablesInv => TablesTyped
  BY DEF TablesInv
<1> QED
  BY <1>1, <1>2, <1>3, TablesAlways, PTL DEF TableSpec

Rows(day, columns) ==
  /\ Len(day) \in Nat /\ DOMAIN day = 1..Len(day)
  /\ \A i \in DOMAIN day : \A c \in columns : day[i][c] \in Number
RowsTo(m, r, n) ==
  n \in Nat /\ DOMAIN r = 1..n /\ \A d \in 1..n : Rows(r[d], NumberColumn(m))

\* What is built is built of such rows.
LEMMA RowsOfUpto ==
  ASSUME TablesTyped, RawTyped, NEW k \in 1..Len(raw)
  PROVE  RowsTo(module, Upto(k), k) /\ \A d \in 1..k : Upto(k)[d] = raw[d]
<1>1. \A d \in 1..k : d \in 1..Len(raw) /\ raw[d] \in RawDay(module)
  BY DEF RawTyped, TablesTyped
<1>2. \A d \in 1..k : Rows(raw[d], NumberColumn(module))
  BY <1>1, TablesAssumption DEF Rows, TablesTyped
<1>3. k \in Nat /\ DOMAIN Upto(k) = 1..k /\ \A d \in 1..k : Upto(k)[d] = raw[d]
  BY DEF Upto, TablesTyped
<1> QED
  BY <1>2, <1>3 DEF RowsTo

\* Some of the rows of a day are finitely many, and the last of them is one of them.
LEMMA SomeRows ==
  ASSUME NEW day, NEW columns, Rows(day, columns), NEW S \in SUBSET DOMAIN day
  PROVE  /\ IsFiniteSet(S) /\ Cardinality(S) \in Nat /\ (S # {} => Cardinality(S) > 0)
         /\ S # {} => Max(S) \in S
<1>1. IsFiniteSet(1..Len(day))
  BY FS_Interval DEF Rows
<1>2. IsFiniteSet(S) /\ Cardinality(S) \in Nat
  BY <1>1, FS_Subset, FS_CardinalityType DEF Rows
<1>3. S # {} => Cardinality(S) > 0
  BY <1>2, FS_EmptySet
<1>4. S \in SUBSET Int
  BY DEF Rows
<1> QED
  BY <1>2, <1>3, <1>4, Extremes

\* A carried value is missing or the one of a day up to then.
LEMMA CarriedIsOne ==
  ASSUME NEW s, NEW d \in Nat, NEW limit \in Nat
  PROVE  /\ Carried(s, d, limit) = NaN \/ \E e \in 1..d : Carried(s, d, limit) = s[e]
         /\ NumbersTo(s, d) => Carried(s, d, limit) \in Number
<1> DEFINE K == {e \in Larger(1, d - limit)..d : s[e] # NaN}
<1>1. K \in SUBSET Int /\ \A e \in K : e <= d /\ e \in 1..d
  BY DEF Larger
<1>2. K # {} => Max(K) \in K
  <2>1. d \in Int
    OBVIOUS
  <2> HIDE DEF K
  <2> QED
    BY <1>1, <2>1, BoundedMax
<1>3. Carried(s, d, limit) = IF K = {} THEN NaN ELSE s[Max(K)]
  BY DEF Carried
<1> HIDE DEF K
<1>4. Carried(s, d, limit) = NaN \/ \E e \in 1..d : Carried(s, d, limit) = s[e]
  BY <1>1, <1>2, <1>3
<1> QED
  BY <1>4 DEF NumbersTo, Number

\* Differences, ratios, fillna(0) and clips of cells that parse to numbers or NaN do so too.
LEMMA SmallNumbers ==
  /\ \A a, b \in Number : Minus(a, b) \in Number /\ Ratio(a, b) \in Number
  /\ \A a \in Number : OrZero(a) \in Int /\ Clipped(a) \in Number
<1>1. ASSUME NEW a \in Number, NEW b \in Number
      PROVE  Minus(a, b) \in Number /\ Ratio(a, b) \in Number
  <2>1. CASE a = NaN \/ b = NaN
    BY <2>1 DEF Minus, Ratio, Number
  <2>2. CASE a \in Int /\ b \in Int
    <3>1. Minus(a, b) \in Number
      BY <2>2, NaNAssumption DEF Minus, Number
    <3>2. CASE b = 0
      BY <3>1, <3>2 DEF Ratio, Number
    <3>3. CASE b > 0
      <4>1. Unit * a \in Int
        BY <2>2 DEF Unit
      <4>2. (Unit * a) \div b \in Int
        BY <2>2, <3>3, <4>1
      <4> QED
        BY <2>2, <3>1, <3>3, <4>2, NaNAssumption DEF Ratio, Number
    <3>4. CASE b < 0
      <4>1. Unit * (-a) \in Int /\ -b \in Int /\ -b > 0
        BY <2>2, <3>4 DEF Unit
      <4>2. (Unit * (-a)) \div (-b) \in Int
        BY <4>1
      <4> QED
        BY <2>2, <3>1, <3>4, <4>2, NaNAssumption DEF Ratio, Number
    <3> QED
      BY <2>2, <3>2, <3>3, <3>4
  <2> QED
    BY <2>1, <2>2 DEF Number
<1>2. \A a \in Number : OrZero(a) \in Int /\ Clipped(a) \in Number
  BY DEF OrZero, Clipped, Smaller, CoverClip, Unit, Number
<1> QED
  BY <1>1, <1>2

-----------------------------------------------------------------------------
(***************************************************************************)
(* M1.                                                                     *)
(***************************************************************************)
\* The two scores of a row of M1 are numbers, whatever cells are missing.
LEMMA ReservesNumbers ==
  ASSUME NEW n, NEW r, RowsTo("reserves", r, n), NEW d \in 1..n
  PROVE  /\ ReservesTable(r)[d].madSpread \in Int
         /\ ReservesTable(r)[d].madRuonia \in Int
<1> DEFINE Col(c) == [e \in DOMAIN r |-> DayMean(r[e], c)]
           Spr == [e \in DOMAIN r |-> Minus(Carried(Col("actual"), e, e),
                                            Carried(Col("required"), e, e))]
           Ruo == [e \in DOMAIN r |-> Carried(Col("ruonia"), e, RuoniaLimit)]
<1>1. n \in Nat /\ DOMAIN r = 1..n /\ \A e \in 1..n : Rows(r[e], {"actual", "required", "ruonia"})
  BY DEF RowsTo, NumberColumn
<1>2. ASSUME NEW e \in 1..n, NEW c \in {"actual", "required", "ruonia"}
      PROVE  Col(c)[e] \in Number
  <2> DEFINE K == {i \in DOMAIN r[e] : r[e][i][c] # NaN}
             h == [i \in K |-> r[e][i][c]]
  <2>1. IsFiniteSet(K) /\ Cardinality(K) \in Nat /\ (K # {} => Cardinality(K) > 0)
    BY <1>1, SomeRows
  <2>2. DOMAIN h = K /\ \A i \in DOMAIN h : h[i] \in Int
    BY <1>1 DEF Rows, Number
  <2>3. DayMean(r[e], c) = IF K = {} THEN NaN ELSE Total(h) \div Cardinality(K)
    BY DEF DayMean
  <2> HIDE DEF K, h
  <2>4. Total(h) \in Int
    BY <2>1, <2>2, SumOf
  <2>5. DayMean(r[e], c) \in Number
    BY <2>1, <2>3, <2>4 DEF Number
  <2> QED
    BY <1>1, <2>5
<1>3. \A e \in 1..n : \A c \in {"actual", "required", "ruonia"} : NumbersTo(Col(c), e)
  <2> HIDE DEF Col
  <2> QED
    BY <1>1, <1>2 DEF NumbersTo
<1>4. \A e \in 1..n : Spr[e] \in Number /\ Ruo[e] \in Number
  <2> SUFFICES ASSUME NEW e \in 1..n
               PROVE  Spr[e] \in Number /\ Ruo[e] \in Number
    OBVIOUS
  <2>1. e \in Nat /\ RuoniaLimit \in Nat
    BY <1>1, ReservesAssumption
  <2>2. /\ Spr[e] = Minus(Carried(Col("actual"), e, e), Carried(Col("required"), e, e))
        /\ Ruo[e] = Carried(Col("ruonia"), e, RuoniaLimit)
    BY <1>1
  <2> HIDE DEF Spr, Ruo, Col
  <2>3. /\ Carried(Col("actual"), e, e) \in Number /\ Carried(Col("required"), e, e) \in Number
        /\ Carried(Col("ruonia"), e, RuoniaLimit) \in Number
    BY <1>3, <2>1, CarriedIsOne
  <2> QED
    BY <2>2, <2>3, SmallNumbers
<1>5. NumbersTo(Spr, d) /\ NumbersTo(Ruo, d) /\ d \in Nat \ {0}
  <2> HIDE DEF Spr, Ruo
  <2> QED
    BY <1>1, <1>4 DEF NumbersTo
<1>6. /\ ReservesTable(r)[d].madSpread = RollingMadScore(Spr, d)
      /\ ReservesTable(r)[d].madRuonia = RollingMadScore(Ruo, d)
  BY <1>1 DEF ReservesTable
<1> HIDE DEF Spr, Ruo
<1> QED
  BY <1>5, <1>6, ScoreNumbers

-----------------------------------------------------------------------------
(***************************************************************************)
(* M2.                                                                     *)
(***************************************************************************)
\* What clean_repo leaves of an auction: numbers, and a cover that does not depend on the
\* rule for the spread.
LEMMA EventNumbers ==
  ASSUME NEW e, \A c \in NumberColumn("repo") : e[c] \in Number, NEW derive
  PROVE  /\ CleanEvent(e, derive).volume \in Nat
         /\ CleanEvent(e, derive).cover \in Number /\ CleanEvent(e, derive).spread \in Number
         /\ CleanEvent(e, derive).cover = CleanEvent(e, FALSE).cover
<1>1. /\ e.demand \in Number /\ e.placement \in Number /\ e.cutoff \in Number
      /\ e.key \in Number /\ e.spread \in Number
  BY DEF NumberColumn
<1>2. \A v \in Number : Volume(v) \in Nat
  BY DEF Volume, Larger, Number
<1> DEFINE placed == Volume(e.placement)
           wanted == Volume(e.demand)
<1>3. /\ CleanEvent(e, derive).volume = IF placed > 0 THEN placed ELSE wanted
      /\ \A b : CleanEvent(e, b).cover = Ratio(wanted, IF placed > 0 THEN placed ELSE NaN)
      /\ CleanEvent(e, derive).spread = IF derive THEN Minus(e.cutoff, e.key) ELSE e.spread
  BY DEF CleanEvent
<1>4. placed \in Nat /\ wanted \in Nat
  BY <1>1, <1>2
<1> HIDE DEF placed, wanted
<1>5. Ratio(wanted, IF placed > 0 THEN placed ELSE NaN) \in Number
  <2>1. wanted \in Number /\ placed \in Number /\ NaN \in Number
    BY <1>4 DEF Number
  <2>2. Ratio(wanted, placed) \in Number /\ Ratio(wanted, NaN) \in Number
    BY <2>1, SmallNumbers
  <2> QED
    BY <2>2
<1> QED
  BY <1>1, <1>3, <1>4, <1>5, SmallNumbers

\* An average weighted by the volumes is a number, and above a bound only with a value above it.
LEMMA AverageHasWitness ==
  ASSUME NEW day, NEW n \in Nat, DOMAIN day = 1..n, NEW I \in SUBSET DOMAIN day, NEW c,
         \A i \in DOMAIN day : day[i].volume \in Nat /\ day[i][c] \in Number
  PROVE  /\ WeightedAverage(day, I, c) \in Int
         /\ \A b \in Nat : WeightedAverage(day, I, c) > b => \E i \in I : Above(day[i][c], b)
<1> DEFINE used == {i \in I : day[i][c] # NaN /\ day[i].volume > 0}
           h == [i \in used |-> day[i][c] * day[i].volume]
           w == [i \in used |-> day[i].volume]
<1>1. WeightedAverage(day, I, c) = IF used = {} THEN 0 ELSE Total(h) \div Total(w)
  BY DEF WeightedAverage
<1>2. IsFiniteSet(used)
  <2>1. IsFiniteSet(1..n)
    BY FS_Interval
  <2> QED
    BY <2>1, FS_Subset
<1>3. \A i \in used : day[i][c] \in Int /\ day[i].volume \in Nat /\ day[i].volume > 0
  BY DEF Number
<1>4. /\ DOMAIN h = used /\ DOMAIN w = used
      /\ \A i \in used : h[i] = day[i][c] * day[i].volume /\ w[i] = day[i].volume
  OBVIOUS
<1>5. \A x \in Int, y \in Nat : x * y \in Int
  OBVIOUS
<1>6. used \in SUBSET I
  OBVIOUS
<1>7. \A i \in used : day[i][c] # NaN
  OBVIOUS
<1> HIDE DEF used, h, w
<1>8. \A i \in used : h[i] \in Int /\ w[i] \in Int /\ w[i] > 0
  BY <1>3, <1>4, <1>5
<1>9. Total(h) \in Int /\ Total(w) \in Int /\ (used # {} => Total(w) > 0)
  BY <1>2, <1>4, <1>8, SumOf
<1>10. \A x \in Int, y \in Int : y > 0 => x \div y \in Int
  OBVIOUS
<1>11. WeightedAverage(day, I, c) \in Int
  BY <1>1, <1>9, <1>10
<1>12. ASSUME NEW b \in Nat, WeightedAverage(day, I, c) > b
       PROVE  \E i \in I : Above(day[i][c], b)
  <2> SUFFICES ASSUME \A i \in I : ~Above(day[i][c], b)
               PROVE  FALSE
    OBVIOUS
  <2>1. used # {}
    BY <1>1, <1>12
  <2>2. \A i \in used : day[i][c] <= b
    BY <1>3, <1>6, <1>7 DEF Above
  <2>3. \A x \in Int, y \in Nat : x <= b => x * y <= b * y
    OBVIOUS
  <2>4. \A i \in used : h[i] <= b * w[i]
    BY <1>3, <1>4, <2>2, <2>3
  <2>5. Total(h) <= b * Total(w)
    BY <1>2, <1>4, <1>8, <2>4, SumOfTwo
  <2>6. \A x \in Int, y \in Int : y > 0 /\ x <= b * y => x \div y <= b
    OBVIOUS
  <2>7. Total(h) \div Total(w) <= b
    BY <1>9, <2>1, <2>5, <2>6
  <2> QED
    BY <1>1, <1>11, <1>12, <2>1, <2>7
<1> QED
  BY <1>11, <1>12

\* A day of the feature panel: its columns are numbers, and a cover signal above the
\* threshold is that of an auction of the day.
LEMMA PanelRowNumbers ==
  ASSUME NEW day, NEW derive, Rows(day, NumberColumn("repo"))
  PROVE  LET row == AggregateDailyGroup([i \in DOMAIN day |-> CleanEvent(day[i], derive)])
         IN /\ \A c \in {"volume", "cover", "spread", "cover7", "spread7"} : row[c] \in Int
            /\ CoverSignal(row) > Demanded => \E i \in DOMAIN day : DemandedEvent(day[i])
<1> DEFINE clean == [i \in DOMAIN day |-> CleanEvent(day[i], derive)]
           row == AggregateDailyGroup(clean)
           seven == {i \in DOMAIN clean : clean[i].seven}
           h == [i \in DOMAIN clean |-> clean[i].volume]
<1>1. /\ Len(day) \in Nat /\ DOMAIN clean = 1..Len(day)
      /\ \A i \in DOMAIN clean : clean[i] = CleanEvent(day[i], derive)
  BY DEF Rows
<1>2. \A i \in DOMAIN clean : /\ clean[i].volume \in Nat /\ clean[i]["volume"] \in Nat
                              /\ clean[i].cover \in Number /\ clean[i]["cover"] \in Number
                              /\ clean[i].spread \in Number /\ clean[i]["spread"] \in Number
                              /\ clean[i].cover = CleanEvent(day[i], FALSE).cover
  BY EventNumbers DEF Rows
<1>3. /\ row.volume = Total(h)
      /\ row.cover = WeightedAverage(clean, DOMAIN clean, "cover")
      /\ row.spread = WeightedAverage(clean, DOMAIN clean, "spread")
      /\ row.cover7 = WeightedAverage(clean, seven, "cover")
      /\ row.spread7 = WeightedAverage(clean, seven, "spread")
  BY DEF AggregateDailyGroup
<1>4. DOMAIN h = DOMAIN clean /\ (\A i \in DOMAIN h : h[i] \in Int) /\ seven \in SUBSET DOMAIN clean
  <2>1. \A i \in DOMAIN clean : clean[i].volume \in Int
    <3> SUFFICES ASSUME NEW i \in DOMAIN clean
                 PROVE  clean[i].volume \in Int
      OBVIOUS
    <3>1. clean[i].volume \in Nat
      BY <1>2
    <3> HIDE DEF clean
    <3> QED
      BY <3>1
  <2> HIDE DEF clean
  <2>2. DOMAIN h = DOMAIN clean /\ \A i \in DOMAIN h : h[i] = clean[i].volume
    OBVIOUS
  <2>3. seven \in SUBSET DOMAIN clean
    OBVIOUS
  <2> HIDE DEF h
  <2> QED
    BY <2>1, <2>2, <2>3
<1> HIDE DEF clean, h, seven
<1>5. Total(h) \in Int
  <2>1. IsFiniteSet(DOMAIN h)
    BY <1>1, <1>4, FS_Interval
  <2> QED
    BY <1>4, <2>1, SumOf
<1>6. \A I \in SUBSET DOMAIN clean : \A c \in {"cover", "spread"} :
        /\ WeightedAverage(clean, I, c) \in Int
        /\ \A b \in Nat : WeightedAverage(clean, I, c) > b => \E i \in I : Above(clean[i][c], b)
  BY <1>1, <1>2, AverageHasWitness
<1>7. /\ row.volume \in Int /\ row.cover \in Int /\ row.spread \in Int
      /\ row.cover7 \in Int /\ row.spread7 \in Int
  BY <1>3, <1>4, <1>5, <1>6
<1>8. ASSUME CoverSignal(row) > Demanded
      PROVE  \E i \in DOMAIN day : DemandedEvent(day[i])
  <2>1. PICK I \in SUBSET DOMAIN clean : CoverSignal(row) = WeightedAverage(clean, I, "cover")
    BY <1>3, <1>4 DEF CoverSignal
  <2>2. Demanded \in Nat
    BY DEF Demanded, Unit
  <2>3. PICK i \in I : Above(clean[i]["cover"], Demanded)
    BY <1>6, <1>8, <2>1, <2>2
  <2>4. i \in DOMAIN day /\ Above(CleanEvent(day[i], FALSE).cover, Demanded)
    BY <1>1, <1>2, <2>3 DEF Rows
  <2> QED
    BY <2>4 DEF DemandedEvent
<1> HIDE DEF row
<1>9. \A c \in {"volume", "cover", "spread", "cover7", "spread7"} : row[c] \in Int
  BY <1>7
<1> QED
  BY <1>8, <1>9 DEF row, clean

\* A row of M2's signals: a day of the raw file, numeric scores, and Flag_Demand only if an
\* auction of that day asks for it.
LEMMA RepoNumbers ==
  ASSUME NEW n, NEW r, RowsTo("repo", r, n), NEW d \in DOMAIN RepoSignalTable(RepoPanel(r))
  PROVE  /\ d \in 1..n
         /\ \A c \in {"cover", "spread", "volume"} : RepoSignalTable(RepoPanel(r))[d][c] \in Int
         /\ RepoSignalTable(RepoPanel(r))[d].demand => \E i \in DOMAIN r[d] : DemandedEvent(r[d][i])
<1> DEFINE panel == RepoPanel(r)
           m == Max(DOMAIN panel)
           columns == AuctionColumns(panel, m)
           Cov == [e \in 1..m |-> columns[e].cover]
           Spr == [e \in 1..m |-> columns[e].spread]
           Vol == [e \in 1..m |-> columns[e].volume]
<1>1. n \in Nat /\ DOMAIN r = 1..n /\ \A e \in 1..n : Rows(r[e], NumberColumn("repo"))
  BY DEF RowsTo
<1>2. /\ DOMAIN panel = RepoSpan(r)
      /\ \A e \in DOMAIN panel :
           panel[e] = IF r[e] = <<>> THEN Neutral
                      ELSE AggregateDailyGroup([i \in DOMAIN r[e] |->
                                                  CleanEvent(r[e][i], NoSpreads(r))])
  BY DEF RepoPanel, RepoSpan, HeldDays
<1>3. RepoSpan(r) \subseteq 1..n
  BY <1>1 DEF RepoSpan
<1>4. \A p : DOMAIN RepoSignalTable(p) = DOMAIN p
  BY DEF RepoSignalTable
<1>5. d \in DOMAIN panel /\ d \in 1..n
  BY <1>2, <1>3, <1>4
<1>6. /\ RepoSignalTable(panel)[d].cover = HistoricalMadScore(Cov, d, CoverFloor)
      /\ RepoSignalTable(panel)[d].spread = HistoricalMadScore(Spr, d, SpreadFloor)
      /\ RepoSignalTable(panel)[d].volume = HistoricalMadScore(Vol, d, VolumeFloor)
      /\ RepoSignalTable(panel)[d].demand = Above(Cov[d], Demanded)
  BY <1>5 DEF RepoSignalTable
<1>7. m \in DOMAIN panel /\ d <= m /\ m \in 1..n
  <2>1. DOMAIN panel \in SUBSET Int /\ n \in Int /\ \A e \in DOMAIN panel : e <= n
    BY <1>1, <1>2, <1>3
  <2> HIDE DEF panel
  <2> QED
    BY <1>2, <1>3, <1>5, <2>1, BoundedMax
<1>8. ASSUME NEW e \in DOMAIN panel, panel[e].has
      PROVE  /\ \A c \in {"volume", "cover", "spread", "cover7", "spread7"} : panel[e][c] \in Int
             /\ CoverSignal(panel[e]) > Demanded => \E i \in DOMAIN r[e] : DemandedEvent(r[e][i])
  <2> HIDE DEF panel
  <2>1. r[e] # <<>>
    <3>1. panel[e] # Neutral
      BY <1>8 DEF Neutral
    <3> QED
      BY <1>2, <3>1
  <2>2. e \in 1..n
    BY <1>2, <1>3
  <2>3. Rows(r[e], NumberColumn("repo"))
    BY <1>1, <2>2
  <2>4. panel[e] = AggregateDailyGroup([i \in DOMAIN r[e] |-> CleanEvent(r[e][i], NoSpreads(r))])
    BY <1>2, <2>1
  <2> QED
    BY <2>3, <2>4, PanelRowNumbers
<1>9. \A e \in 1..m :
        columns[e] = IF e \in DOMAIN panel /\ panel[e].has
                     THEN [cover |-> CoverSignal(panel[e]), spread |-> SpreadSignal(panel[e]),
                           volume |-> VolumeSignal(panel[e])]
                     ELSE [cover |-> NaN, spread |-> NaN, volume |-> NaN]
  BY DEF AuctionColumns
<1>10. ASSUME NEW e \in 1..m
       PROVE  /\ columns[e].cover \in Number /\ columns[e].spread \in Number
              /\ columns[e].volume \in Number
              /\ Above(columns[e].cover, Demanded) => \E i \in DOMAIN r[e] : DemandedEvent(r[e][i])
  <2>1. CASE e \in DOMAIN panel /\ panel[e].has
    <3>1. /\ panel[e].volume \in Int /\ panel[e].cover \in Int /\ panel[e].spread \in Int
          /\ panel[e].cover7 \in Int /\ panel[e].spread7 \in Int
      BY <1>8, <2>1
    <3>2. /\ CoverSignal(panel[e]) \in Int /\ SpreadSignal(panel[e]) \in Int
          /\ VolumeSignal(panel[e]) \in Int
      BY <3>1 DEF CoverSignal, SpreadSignal, VolumeSignal
    <3>3. /\ columns[e].cover = CoverSignal(panel[e]) /\ columns[e].spread = SpreadSignal(panel[e])
          /\ columns[e].volume = VolumeSignal(panel[e])
      <4>1. e \in 1..m
        OBVIOUS
      <4> HIDE DEF columns, panel, m
      <4>2. columns[e] = [cover |-> CoverSignal(panel[e]), spread |-> SpreadSignal(panel[e]),
                          volume |-> VolumeSignal(panel[e])]
        BY <1>9, <2>1, <4>1
      <4> QED
        BY <4>2
    <3> HIDE DEF columns, panel
    <3> QED
      BY <1>8, <2>1, <3>2, <3>3 DEF Number, Above
  <2>2. CASE ~(e \in DOMAIN panel /\ panel[e].has)
    <3>1. columns[e].cover = NaN /\ columns[e].spread = NaN /\ columns[e].volume = NaN
      <4>1. e \in 1..m
        OBVIOUS
      <4> HIDE DEF columns, panel, m
      <4>2. columns[e] = [cover |-> NaN, spread |-> NaN, volume |-> NaN]
        BY <1>9, <2>2, <4>1
      <4> QED
        BY <4>2
    <3> QED
      BY <3>1 DEF Number, Above
  <2> QED
    BY <2>1, <2>2
<1>11. /\ NumbersTo(Cov, d) /\ NumbersTo(Spr, d) /\ NumbersTo(Vol, d) /\ d \in Nat \ {0}
       /\ Cov[d] = columns[d].cover /\ d \in 1..m
  <2>1. d \in 1..m /\ d \in Nat \ {0} /\ \A e \in 1..d : e \in 1..m
    BY <1>1, <1>5, <1>7
  <2>2. \A e \in 1..m : Cov[e] \in Number /\ Spr[e] \in Number /\ Vol[e] \in Number
    BY <1>10
  <2>3. Cov[d] = columns[d].cover
    BY <2>1
  <2> HIDE DEF Cov, Spr, Vol, m
  <2> QED
    BY <2>1, <2>2, <2>3 DEF NumbersTo
<1> HIDE DEF Cov, Spr, Vol, columns, m
<1>12. /\ HistoricalMadScore(Cov, d, CoverFloor) \in Int
       /\ HistoricalMadScore(Spr, d, SpreadFloor) \in Int
       /\ HistoricalMadScore(Vol, d, VolumeFloor) \in Int
  <2>1. /\ CoverFloor \in Nat \ {0} /\ SpreadFloor \in Nat \ {0} /\ VolumeFloor \in Nat \ {0}
    BY DEF CoverFloor, SpreadFloor, VolumeFloor, Unit
  <2> QED
    BY <1>11, <2>1, ScoreNumbers
<1> HIDE DEF panel
<1>13. /\ \A c \in {"cover", "spread", "volume"} : RepoSignalTable(panel)[d][c] \in Int
       /\ RepoSignalTable(panel)[d].demand => \E i \in DOMAIN r[d] : DemandedEvent(r[d][i])
  BY <1>6, <1>10, <1>11, <1>12
<1> QED
  BY <1>5, <1>13 DEF panel

-----------------------------------------------------------------------------
(***************************************************************************)
(* M3.                                                                     *)
(***************************************************************************)
\* One day of auctions.
LEMMA OfzDayNumbers ==
  ASSUME NEW day, Rows(day, NumberColumn("ofz"))
  PROVE  /\ AggDay(day).cover \in Number /\ AggDay(day).placed \in Number
         /\ AggDay(day).spread \in Number
<1>1. /\ \A i \in DOMAIN day : /\ day[i]["offer"] \in Number /\ day[i]["demand"] \in Number
                               /\ day[i]["placement"] \in Number /\ day[i]["spread"] \in Number
      /\ DistinctIssues(day) \in SUBSET DOMAIN day
  BY DEF Rows, NumberColumn, DistinctIssues
<1>2. ASSUME NEW c \in {"offer", "demand", "placement"}
      PROVE  SumKnown(day, c) \in Number
  <2> DEFINE K == {i \in DistinctIssues(day) : day[i][c] # NaN}
             h == [i \in K |-> day[i][c]]
  <2>1. SumKnown(day, c) = IF K = {} THEN NaN ELSE Total(h)
    BY DEF SumKnown
  <2>2. IsFiniteSet(K)
    <3>1. K \in SUBSET DOMAIN day
      BY <1>1
    <3> HIDE DEF K
    <3> QED
      BY <3>1, SomeRows
  <2>3. DOMAIN h = K /\ \A i \in DOMAIN h : h[i] \in Int
    <3>1. \A i \in K : day[i][c] \in Int
      BY <1>1 DEF Number
    <3> HIDE DEF K
    <3> QED
      BY <3>1
  <2> HIDE DEF K, h
  <2>4. Total(h) \in Int
    BY <2>2, <2>3, SumOf
  <2> QED
    BY <2>1, <2>4 DEF Number
<1>3. WeightedMean(day, "spread") \in Number
  <2> DEFINE used == {i \in DistinctIssues(day) : /\ day[i]["spread"] # NaN
                                                  /\ Above(day[i].placement, 0)}
             h == [i \in used |-> day[i]["spread"] * day[i].placement]
             w == [i \in used |-> day[i].placement]
  <2>1. WeightedMean(day, "spread") = IF used = {} THEN NaN ELSE Total(h) \div Total(w)
    BY DEF WeightedMean
  <2>2. used \in SUBSET DOMAIN day
    BY <1>1
  <2>3. \A i \in used : day[i]["spread"] \in Int /\ day[i]["placement"] \in Int
                        /\ day[i]["placement"] > 0
    BY <1>1 DEF Number, Above
  <2>4. \A x, y \in Int : x * y \in Int
    OBVIOUS
  <2>5. /\ DOMAIN h = used /\ DOMAIN w = used
        /\ \A i \in used : h[i] = day[i]["spread"] * day[i]["placement"]
                           /\ w[i] = day[i]["placement"]
    OBVIOUS
  <2> HIDE DEF used, h, w
  <2>6. IsFiniteSet(used)
    BY <2>2, SomeRows
  <2>7. \A i \in used : h[i] \in Int /\ w[i] \in Int /\ w[i] > 0
    BY <2>3, <2>4, <2>5
  <2>8. Total(h) \in Int /\ Total(w) \in Int /\ (used # {} => Total(w) > 0)
    BY <2>5, <2>6, <2>7, SumOf
  <2>9. \A x \in Int, y \in Int : y > 0 => x \div y \in Int
    OBVIOUS
  <2> QED
    BY <2>1, <2>8, <2>9 DEF Number
<1>4. CASE day = <<>>
  BY <1>4 DEF AggDay, Number
<1>5. CASE day # <<>>
  <2>1. /\ AggDay(day).cover = Ratio(SumKnown(day, "demand"), SumKnown(day, "offer"))
        /\ AggDay(day).placed = Ratio(SumKnown(day, "placement"), SumKnown(day, "offer"))
        /\ AggDay(day).spread = WeightedMean(day, "spread")
    BY <1>5 DEF AggDay
  <2>2. /\ SumKnown(day, "demand") \in Number /\ SumKnown(day, "offer") \in Number
        /\ SumKnown(day, "placement") \in Number
    BY <1>2
  <2> QED
    BY <1>3, <2>1, <2>2, SmallNumbers
<1> QED
  BY <1>4, <1>5

\* A row of M3's signals: what the last auction left is a number or missing, scores are numbers.
LEMMA OfzNumbers ==
  ASSUME NEW n, NEW r, RowsTo("ofz", r, n), HeldDays(r) # {}, NEW d \in DOMAIN OfzPanel(r)
  PROVE  /\ OfzPanel(r)[d].cover \in Number /\ OfzPanel(r)[d].placed \in Number
         /\ OfzPanel(r)[d].madCover \in Int /\ OfzPanel(r)[d].madSpread \in Number
<1> DEFINE N == Max(HeldDays(r))
           DayRow == [e \in 1..N |-> AggDay(r[e])]
           Cov == [e \in 1..N |-> Clipped(DayRow[e].cover)]
           Spr == [e \in 1..N |-> DayRow[e].spread]
           LastCov == [e \in 1..N |-> LastKnown(Cov, e)]
           LastSpr == [e \in 1..N |-> LastKnown(Spr, e)]
<1>1. n \in Nat /\ DOMAIN r = 1..n /\ \A e \in 1..n : Rows(r[e], NumberColumn("ofz"))
  BY DEF RowsTo
<1>2. N \in 1..n
  <2>1. GoesOn(r, r, n, n)
    BY <1>1 DEF GoesOn
  <2> QED
    BY <1>1, <2>1, HeldGoesOn
<1>3. /\ d \in 1..N /\ DOMAIN OfzPanel(r) = 1..N
      /\ OfzPanel(r)[d].cover = DayRow[d].cover /\ OfzPanel(r)[d].placed = DayRow[d].placed
      /\ OfzPanel(r)[d].madCover = OfzMadScore(LastCov, d)
      /\ \/ OfzPanel(r)[d].madSpread = OfzMadScore(LastSpr, d)
         \/ OfzPanel(r)[d].madSpread = NaN
  <2>1. DOMAIN OfzPanel(r) = 1..N
    BY DEF OfzPanel, HeldDays
  <2>2. OfzPanel(r)[d].cover = DayRow[d].cover /\ OfzPanel(r)[d].placed = DayRow[d].placed
    BY <2>1 DEF OfzPanel, HeldDays
  <2>3. OfzPanel(r)[d].madCover = OfzMadScore(LastCov, d)
    BY <2>1 DEF OfzPanel, HeldDays
  <2>4. \/ OfzPanel(r)[d].madSpread = OfzMadScore(LastSpr, d)
        \/ OfzPanel(r)[d].madSpread = NaN
    BY <2>1 DEF OfzPanel, HeldDays
  <2> HIDE DEF N, DayRow, Cov, Spr, LastCov, LastSpr
  <2> QED
    BY <2>1, <2>2, <2>3, <2>4
<1>4. \A e \in 1..N : /\ e \in Nat \ {0} /\ e \in 1..n
                      /\ \A x \in 1..e : x \in 1..N
  BY <1>1, <1>2
<1> HIDE DEF N
<1>5. \A e \in 1..N : DayRow[e].cover \in Number /\ DayRow[e].placed \in Number
                      /\ DayRow[e].spread \in Number
  <2> SUFFICES ASSUME NEW e \in 1..N
               PROVE  DayRow[e].cover \in Number /\ DayRow[e].placed \in Number
                      /\ DayRow[e].spread \in Number
    OBVIOUS
  <2>1. DayRow[e] = AggDay(r[e])
    OBVIOUS
  <2>2. Rows(r[e], NumberColumn("ofz"))
    BY <1>1, <1>4
  <2> HIDE DEF DayRow
  <2> QED
    BY <2>1, <2>2, OfzDayNumbers
<1> HIDE DEF DayRow
<1>6. \A e \in 1..N : Cov[e] \in Number /\ Spr[e] \in Number
  BY <1>5, SmallNumbers
<1> HIDE DEF Cov, Spr
<1>7. \A e \in 1..N : NumbersTo(Cov, e) /\ NumbersTo(Spr, e)
  BY <1>4, <1>6 DEF NumbersTo
<1>8. \A e \in 1..N : LastKnown(Cov, e) \in Number /\ LastKnown(Spr, e) \in Number
  BY <1>4, <1>7, CarriedIsOne, OfzAssumption DEF LastKnown
<1>9. \A e \in 1..N : LastCov[e] \in Number /\ LastSpr[e] \in Number
  BY <1>8
<1> HIDE DEF LastCov, LastSpr
<1>10. NumbersTo(LastCov, d) /\ NumbersTo(LastSpr, d)
  BY <1>3, <1>4, <1>9 DEF NumbersTo
<1>11. OfzMadScore(LastCov, d) \in Int /\ OfzMadScore(LastSpr, d) \in Int
  BY <1>3, <1>4, <1>10, ScoreNumbers
<1> QED
  BY <1>3, <1>5, <1>11 DEF Number

\* Whatever the MAD scores, they do not make the flag alone.
LEMMA StressNeedsWeakness ==
  ASSUME NEW row, row.cover \in Number, row.placed \in Number, NEW a, NEW b, row.has,
         ~Nedospros(row), ~PlacementStress(row)
  PROVE  ~(StressScore(row.cover, row.placed, a, b) >= StressThreshold)
<1>1. WeakCover(row.cover) \in {0, 4}
  BY NaNAssumption DEF Nedospros, Below, Number, WeakCover
<1>2. WeakPlacement(row.cover, row.placed) = 0
  BY NaNAssumption DEF Nedospros, PlacementStress, Below, Number, WeakPlacement
<1>3. \A x : Outlying(x) \in {0, 3, 7, 10}
  BY DEF Outlying
<1>4. PICK x \in {0, 3, 7, 10} : Outlying(-a) = x
  BY <1>3
<1>5. PICK y \in {0, 3, 7, 10} : Outlying(b) = y
  BY <1>3
<1>6. StressScore(row.cover, row.placed, a, b)
        = 45 * WeakCover(row.cover) + 30 * 0 + 15 * x + 10 * y
  BY <1>2, <1>4, <1>5 DEF StressScore
<1> QED
  BY <1>1, <1>6 DEF StressThreshold

LEMMA OfzFlagExplained ==
  ASSUME NEW n, NEW r, RowsTo("ofz", r, n), HeldDays(r) # {},
         NEW d \in DOMAIN OfzSignalTable(AddStressSignals(OfzPanel(r)))
  PROVE  LET s == OfzSignalTable(AddStressSignals(OfzPanel(r)))
         IN /\ d \in DOMAIN OfzPanel(r) /\ s[d].row = OfzPanel(r)[d]
            /\ s[d].flag => Nedospros(s[d].row) \/ PlacementStress(s[d].row)
<1> DEFINE panel == OfzPanel(r)
           s == OfzSignalTable(AddStressSignals(panel))
<1>1. /\ d \in DOMAIN panel /\ s[d].row = panel[d]
      /\ \/ \E b : s[d].flag = (StressScore(panel[d].cover, panel[d].placed,
                                            panel[d].madCover, b) >= StressThreshold)
            /\ panel[d].has
         \/ s[d].flag = (0 >= StressThreshold)
  <2>1. d \in DOMAIN panel /\ s[d].row = panel[d]
    <3>1. \A p : /\ DOMAIN OfzSignalTable(AddStressSignals(p)) = DOMAIN p
                 /\ \A e \in DOMAIN p : OfzSignalTable(AddStressSignals(p))[e].row = p[e]
      BY DEF AddStressSignals, OfzSignalTable
    <3> QED
      BY <3>1
  <2> HIDE DEF panel
  <2>2. CASE panel[d].has
    <3>1. \E b : s[d].flag = (StressScore(panel[d].cover, panel[d].placed,
                                          panel[d].madCover, b) >= StressThreshold)
      BY <2>1, <2>2 DEF AddStressSignals, OfzSignalTable
    <3> QED
      BY <2>1, <2>2, <3>1
  <2>3. CASE ~panel[d].has
    <3>1. s[d].flag = (0 >= StressThreshold)
      BY <2>1, <2>3 DEF AddStressSignals, OfzSignalTable
    <3> QED
      BY <2>1, <3>1
  <2> QED
    BY <2>2, <2>3
<1>2. panel[d].cover \in Number /\ panel[d].placed \in Number
  BY <1>1, OfzNumbers
<1>3. ~(0 >= StressThreshold)
  BY DEF StressThreshold
<1> HIDE DEF panel, s
<1>4. s[d].flag => Nedospros(panel[d]) \/ PlacementStress(panel[d])
  BY <1>1, <1>2, <1>3, StressNeedsWeakness
<1> QED
  BY <1>1, <1>4 DEF panel, s

-----------------------------------------------------------------------------
(***************************************************************************)
(* M5.                                                                     *)
(***************************************************************************)
\* A positive score is of a value above one of the days before.
LEMMA PositiveScore ==
  ASSUME NEW s, NEW d \in Nat \ {0}, NumbersTo(s, d), NEW window \in Nat, NEW min \in Nat \ {0},
         NEW floor \in Nat \ {0}, OrZero(ScoreNoLookahead(s, d, window, min, floor)) > 0
  PROVE  /\ s[d] \in Int
         /\ \E e \in 1..(d - 1) : s[e] \in Int /\ s[e] < s[d]
<1> DEFINE hist == IF Count(Recent(s, d, window)) >= min THEN Recent(s, d, window)
                   ELSE Before(s, d)
<1>1. ~(s[d] = NaN \/ Count(hist) < min)
  BY DEF ScoreNoLookahead, OrZero
<1>2. ScoreNoLookahead(s, d, window, min, floor)
        = (Unit * (s[d] - Median(hist))) \div ScaledMad(hist, floor)
  BY <1>1 DEF ScoreNoLookahead
<1>3. s[d] \in Number /\ NumbersTo(s, d - 1)
  <2>1. d \in 1..d /\ \A e \in 1..(d - 1) : e \in 1..d
    OBVIOUS
  <2> QED
    BY <2>1 DEF NumbersTo
<1>4. /\ Numbers(hist) /\ Count(hist) \in Nat
      /\ \A e \in DOMAIN hist : e \in 1..(d - 1) /\ hist[e] = s[e]
  <2> DEFINE IsHistory(h) == /\ Numbers(h) /\ Count(h) \in Nat
                             /\ \A e \in DOMAIN h : e \in 1..(d - 1) /\ h[e] = s[e]
  <2>1. IsHistory(Recent(s, d, window)) /\ IsHistory(Before(s, d))
    BY <1>3, HistoryIsNumbers
  <2>2. hist = Recent(s, d, window) \/ hist = Before(s, d)
    OBVIOUS
  <2> HIDE DEF hist
  <2> QED
    BY <2>1, <2>2
<1>5. s[d] \in Int
  BY <1>1, <1>3 DEF Number
<1>6. Count(hist) > 0
  <2> HIDE DEF hist
  <2> QED
    BY <1>1, <1>4
<1> HIDE DEF hist
<1>7. Median(hist) \in Int /\ Mad(hist) \in Nat
  BY <1>4, <1>6, MedianBetween, MadIsNumber
<1>8. ScaledMad(hist, floor) \in Nat \ {0}
  BY <1>7 DEF ScaledMad, Larger
<1>9. (Unit * (s[d] - Median(hist))) \div ScaledMad(hist, floor) > 0
  <2>1. Unit * (s[d] - Median(hist)) \in Int
    BY <1>5, <1>7 DEF Unit
  <2>2. \A x \in Int, y \in Nat \ {0} : x \div y \in Int
    OBVIOUS
  <2>3. (Unit * (s[d] - Median(hist))) \div ScaledMad(hist, floor) \in Int
    BY <1>8, <2>1, <2>2
  <2> QED
    BY <1>2, <2>3, NaNAssumption DEF OrZero
<1>10. s[d] > Median(hist)
  <2>1. \A x \in Int, y \in Nat \ {0} : x <= 0 => x \div y <= 0 /\ x \div y \in Int
    OBVIOUS
  <2>2. s[d] <= Median(hist) => Unit * (s[d] - Median(hist)) <= 0
    BY <1>5, <1>7 DEF Unit
  <2>3. Unit * (s[d] - Median(hist)) \in Int
    BY <1>5, <1>7 DEF Unit
  <2> QED
    BY <1>5, <1>7, <1>8, <1>9, <2>1, <2>2, <2>3
<1>11. PICK e \in DOMAIN hist : ~(hist[e] >= s[d])
  BY <1>4, <1>5, <1>6, <1>7, <1>10, MedianBetween
<1>12. hist[e] \in Int
  BY <1>4 DEF Numbers
<1>13. e \in 1..(d - 1) /\ s[e] \in Int /\ s[e] < s[d]
  BY <1>4, <1>5, <1>11, <1>12
<1> QED
  BY <1>5, <1>13

\* A gap is to a value of the days before.
LEMMA PositiveGap ==
  ASSUME NEW s, NEW d \in Nat \ {0}, NumbersTo(s, d), s[d] \in Int, PlacementGap(s, d) > 0
  PROVE  \E e \in 1..(d - 1) : s[e] \in Int /\ s[d] < s[e]
<1> DEFINE hist == Recent(s, d, RoskaznaWindow)
<1>1. /\ ~(Count(hist) < RoskaznaMin)
      /\ PlacementGap(s, d) = Larger(Median(hist) - s[d], 0)
  BY DEF PlacementGap
<1>2. NumbersTo(s, d - 1) /\ RoskaznaWindow \in Nat /\ RoskaznaMin \in Nat \ {0}
  BY TreasuryAssumption DEF NumbersTo
<1>3. /\ Numbers(hist) /\ Count(hist) \in Nat
      /\ \A e \in DOMAIN hist : e \in 1..(d - 1) /\ hist[e] = s[e]
  <2>1. \A w \in Nat : /\ Numbers(Recent(s, d, w)) /\ Count(Recent(s, d, w)) \in Nat
                       /\ \A e \in DOMAIN Recent(s, d, w) :
                            e \in 1..(d - 1) /\ Recent(s, d, w)[e] = s[e]
    BY <1>2, HistoryIsNumbers
  <2> QED
    BY <1>2, <2>1
<1> HIDE DEF hist
<1>4. Median(hist) \in Int /\ Median(hist) > s[d]
  <2>1. Count(hist) > 0
    BY <1>1, <1>2, <1>3
  <2>2. Median(hist) \in Int
    BY <1>3, <2>1, MedianBetween
  <2> QED
    BY <1>1, <2>2 DEF Larger
<1>5. Count(hist) > 0
  BY <1>1, <1>2, <1>3
<1>6. PICK e \in DOMAIN hist : ~(hist[e] <= s[d])
  BY <1>3, <1>4, <1>5, MedianBetween
<1>7. hist[e] \in Int
  BY <1>3 DEF Numbers
<1>8. e \in 1..(d - 1) /\ s[e] \in Int /\ s[d] < s[e]
  BY <1>3, <1>6, <1>7
<1> QED
  BY <1>8

\* The placement gap of a day with a number is a number, however few days are behind it.
LEMMA GapIsNumber ==
  ASSUME NEW s, NEW d \in Nat \ {0}, NumbersTo(s, d), s[d] \in Int
  PROVE  PlacementGap(s, d) \in Int
<1> DEFINE hist == Recent(s, d, RoskaznaWindow)
<1>1. NumbersTo(s, d - 1) /\ RoskaznaWindow \in Nat /\ RoskaznaMin \in Nat \ {0} /\ d \in Nat
  BY TreasuryAssumption DEF NumbersTo
<1>2. Numbers(hist) /\ Count(hist) \in Nat
  BY <1>1, HistoryIsNumbers
<1>3. PlacementGap(s, d) = IF Count(hist) < RoskaznaMin THEN 0 ELSE Larger(Median(hist) - s[d], 0)
  BY DEF PlacementGap
<1> HIDE DEF hist
<1>4. Count(hist) > 0 => Median(hist) \in Int
  BY <1>2, MedianBetween
<1> QED
  BY <1>1, <1>2, <1>3, <1>4 DEF Larger

\* A level that differs from the one some days ago was observed in between.
LEMMA LevelChanged ==
  ASSUME NEW s, NEW d \in Nat, NEW n \in Nat, d <= n, NEW b \in 1..d,
         Carried(s, d, n) # Carried(s, b, n)
  PROVE  \E e \in (b + 1)..d : s[e] # NaN
<1> DEFINE K == {e \in Larger(1, d - n)..d : s[e] # NaN}
           M == {e \in Larger(1, b - n)..b : s[e] # NaN}
<1> SUFFICES ASSUME \A e \in (b + 1)..d : s[e] = NaN
             PROVE  FALSE
  OBVIOUS
<1>1. Larger(1, d - n) = 1 /\ Larger(1, b - n) = 1
  BY DEF Larger
<1>2. K = M
  BY <1>1
<1>3. /\ Carried(s, d, n) = IF K = {} THEN NaN ELSE s[Max(K)]
      /\ Carried(s, b, n) = IF M = {} THEN NaN ELSE s[Max(M)]
  BY DEF Carried
<1> HIDE DEF K, M
<1> QED
  BY <1>2, <1>3

\* A row of M5's panel: numbers, and a level below that of the week before only where a new
\* level has come within the week.
LEMMA TreasuryPanelNumbers ==
  ASSUME NEW n, NEW r, RowsTo("treasury", r, n), HeldDays(r) # {},
         NEW d \in DOMAIN TreasuryPanel(r)
  PROVE  LET row == TreasuryPanel(r)[d]
         IN /\ row.placed30 \in Int /\ row.weekly \in Number
            /\ row.drain = BudgetDrain(row.weekly)
            /\ Below(row.weekly, 0) => row.sinceUpdate < Week
<1> DEFINE N == IF HeldDays(r) = {} THEN 0 ELSE Max(HeldDays(r))
           Obs == [e \in 1..N |-> Level(r[e], "balance")]
           Bal == [e \in 1..N |-> Carried(Obs, e, N)]
           Plc == [e \in 1..N |-> Placed(r[e])]
           Upd == {e \in 1..N : \E i \in DOMAIN r[e] :
                     {r[e][i].balance, r[e][i].structural, r[e][i].banks} # {NaN}}
<1>1. n \in Nat /\ DOMAIN r = 1..n /\ \A e \in 1..n : Rows(r[e], NumberColumn("treasury"))
  BY DEF RowsTo
<1>2. /\ N \in 1..n /\ DOMAIN TreasuryPanel(r) = Min(HeldDays(r))..N
      /\ Min(HeldDays(r)) \in 1..n
  <2>1. GoesOn(r, r, n, n)
    BY <1>1 DEF GoesOn
  <2> QED
    BY <1>1, <2>1, HeldGoesOn, TreasuryPanelGoesOn
<1>3. /\ TreasuryPanel(r)[d].placed30 = WindowSum(Plc, d, Month)
      /\ TreasuryPanel(r)[d].weekly = Delta(Bal, d, Week)
      /\ TreasuryPanel(r)[d].drain = BudgetDrain(Delta(Bal, d, Week))
      /\ TreasuryPanel(r)[d].sinceUpdate = DaysSince(Upd, d, NoUpdate)
  <2> DEFINE W == WindowSum(Plc, d, Month)
             D == Delta(Bal, d, Week)
             U == DaysSince(Upd, d, NoUpdate)
  <2>1. d \in Min(HeldDays(r))..N
    BY <1>2
  <2>2. TreasuryPanel(r)[d].placed30 = W
    BY <2>1 DEF TreasuryPanel, HeldDays
  <2>3. TreasuryPanel(r)[d].weekly = D /\ TreasuryPanel(r)[d].drain = BudgetDrain(D)
    BY <2>1 DEF TreasuryPanel, HeldDays
  <2>4. TreasuryPanel(r)[d].sinceUpdate = U
    BY <2>1 DEF TreasuryPanel, HeldDays
  <2> HIDE DEF W, D, U
  <2>5. /\ TreasuryPanel(r)[d].placed30 = W /\ TreasuryPanel(r)[d].weekly = D
        /\ TreasuryPanel(r)[d].drain = BudgetDrain(D) /\ TreasuryPanel(r)[d].sinceUpdate = U
    BY <2>2, <2>3, <2>4
  <2> QED
    BY <2>5 DEF W, D, U
<1>4. d \in 1..N /\ d \in Nat \ {0} /\ N \in Nat
  BY <1>1, <1>2
<1>5. \A e \in 1..N : e \in 1..n /\ e \in Nat /\ \A x \in 1..e : x \in 1..N
  BY <1>1, <1>2
<1> HIDE DEF N
<1>6. \A e \in 1..N : Plc[e] \in Int
  <2> SUFFICES ASSUME NEW e \in 1..N
               PROVE  Plc[e] \in Int
    OBVIOUS
  <2> DEFINE h == [i \in DOMAIN r[e] |-> OrZero(r[e][i].placement)]
  <2>1. Plc[e] = Total(h)
    BY DEF Placed
  <2>2. Rows(r[e], NumberColumn("treasury"))
    BY <1>1, <1>5
  <2>3. \A i \in DOMAIN r[e] : r[e][i].placement \in Number
    BY <2>2 DEF Rows, NumberColumn
  <2>4. IsFiniteSet(DOMAIN r[e])
    BY <2>2, SomeRows
  <2>5. DOMAIN h = DOMAIN r[e] /\ \A i \in DOMAIN h : h[i] \in Int
    BY <2>3, SmallNumbers
  <2> HIDE DEF h
  <2> QED
    BY <2>1, <2>4, <2>5, SumOf
<1>7. WindowSum(Plc, d, Month) \in Int
  <2> DEFINE I == Larger(1, d - Month + 1)..d
             h == [e \in I |-> Plc[e]]
  <2>1. WindowSum(Plc, d, Month) = Total(h)
    BY DEF WindowSum
  <2>2. \A e \in I : e \in 1..N
    BY <1>4, <1>5, TreasuryAssumption DEF Larger
  <2>3. IsFiniteSet(I)
    <3>1. Larger(1, d - Month + 1) \in Int /\ d \in Int
      BY <1>4, TreasuryAssumption DEF Larger
    <3> QED
      BY <3>1, FS_Interval
  <2> HIDE DEF Plc
  <2>4. DOMAIN h = I /\ \A e \in DOMAIN h : h[e] \in Int
    BY <1>6, <2>2
  <2> HIDE DEF h, I
  <2> QED
    BY <2>1, <2>3, <2>4, SumOf
<1>8. \A e \in 1..N : Obs[e] \in Number /\ (Obs[e] # NaN => e \in Upd)
  <2> SUFFICES ASSUME NEW e \in 1..N
               PROVE  Obs[e] \in Number /\ (Obs[e] # NaN => e \in Upd)
    OBVIOUS
  <2> DEFINE K == {i \in DOMAIN r[e] : r[e][i]["balance"] # NaN}
  <2>1. Obs[e] = IF K = {} THEN NaN ELSE r[e][Max(K)]["balance"]
    BY DEF Level
  <2>2. Rows(r[e], NumberColumn("treasury"))
    BY <1>1, <1>5
  <2>3. \A i \in DOMAIN r[e] : r[e][i]["balance"] \in Number
    BY <2>2 DEF Rows, NumberColumn
  <2>4. K # {} => Max(K) \in K
    BY <2>2, SomeRows
  <2>5. Obs[e] \in Number
    BY <2>1, <2>3, <2>4 DEF Number
  <2>6. Obs[e] # NaN => \E i \in DOMAIN r[e] : r[e][i].balance # NaN
    BY <2>1
  <2> HIDE DEF Obs
  <2>7. Obs[e] # NaN => e \in Upd
    BY <2>6
  <2> QED
    BY <2>5, <2>7
<1> HIDE DEF Obs, Upd, Plc
<1>9. \A e \in 1..N : Bal[e] = Carried(Obs, e, N) /\ Bal[e] \in Number
  <2>1. \A e \in 1..N : NumbersTo(Obs, e)
    BY <1>5, <1>8 DEF NumbersTo
  <2>2. \A e \in 1..N : Carried(Obs, e, N) \in Number
    BY <1>4, <1>5, <2>1, CarriedIsOne
  <2> QED
    BY <2>2
<1> HIDE DEF Bal
<1>10. Delta(Bal, d, Week) \in Number
  <2>1. CASE d - Week < 1
    BY <2>1 DEF Delta, Number
  <2>2. CASE ~(d - Week < 1)
    <3>1. d - Week \in 1..N
      BY <1>4, <2>2, TreasuryAssumption
    <3>2. Delta(Bal, d, Week) = Minus(Bal[d], Bal[d - Week])
      BY <2>2 DEF Delta
    <3> QED
      BY <1>4, <1>9, <3>1, <3>2, SmallNumbers
  <2> QED
    BY <2>1, <2>2
<1>11. ASSUME Below(Delta(Bal, d, Week), 0)
       PROVE  DaysSince(Upd, d, NoUpdate) < Week
  <2>1. ~(d - Week < 1) /\ Delta(Bal, d, Week) = Minus(Bal[d], Bal[d - Week])
    BY <1>11 DEF Delta, Below
  <2>2. d - Week \in 1..N /\ d - Week \in 1..d /\ d <= N
    BY <1>4, <2>1, TreasuryAssumption
  <2>3. Bal[d] # Bal[d - Week]
    <3>1. Bal[d] # NaN /\ Bal[d - Week] # NaN /\ Bal[d] - Bal[d - Week] < 0
      BY <1>11, <2>1 DEF Below, Minus
    <3>2. Bal[d] \in Int
      BY <1>4, <1>9, <3>1 DEF Number
    <3> QED
      BY <3>1, <3>2
  <2>4. PICK e \in ((d - Week) + 1)..d : Obs[e] # NaN
    BY <1>4, <1>9, <2>2, <2>3, LevelChanged
  <2>5. e \in Int /\ e <= d /\ e > d - Week /\ e \in 1..d
    BY <1>4, <2>2, <2>4, TreasuryAssumption
  <2> DEFINE P == Upd \intersect 1..d
  <2>6. e \in P
    BY <1>4, <1>5, <1>8, <2>4, <2>5
  <2>7. P \in SUBSET Int /\ \A x \in P : x <= d
    BY <1>4
  <2>8. DaysSince(Upd, d, NoUpdate) = d - Max(P)
    BY <2>6 DEF DaysSince
  <2> HIDE DEF P
  <2>9. Max(P) \in P /\ e <= Max(P)
    <3>1. d \in Int /\ P # {}
      BY <1>4, <2>6
    <3>2. Max(P) \in P /\ \A y \in P : y <= Max(P)
      BY <2>7, <3>1, BoundedMax
    <3> QED
      BY <2>6, <3>2
  <2>10. Max(P) \in Int
    BY <2>7, <2>9
  <2> QED
    BY <1>4, <2>5, <2>8, <2>9, <2>10, TreasuryAssumption
<1> QED
  BY <1>3, <1>7, <1>10, <1>11

\* A row of M5's signals: scores are numbers, and its two flags are falls of the account and
\* of the placements.
LEMMA TreasuryNumbers ==
  ASSUME NEW n, NEW r, RowsTo("treasury", r, n), HeldDays(r) # {},
         NEW d \in DOMAIN TreasurySignalTable(TreasuryPanel(r))
  PROVE  LET s == TreasurySignalTable(TreasuryPanel(r))
         IN /\ s[d].cbr \in Int /\ s[d].roskazna \in Int
            /\ s[d].drain => s[d].row.weekly < 0 /\ s[d].row.sinceUpdate < Week
            /\ s[d].drop => \E e \in DOMAIN s : e < d /\ s[d].row.placed30 < s[e].row.placed30
<1> DEFINE panel == TreasuryPanel(r)
           s == TreasurySignalTable(panel)
           F == Min(HeldDays(r))
           N == Max(HeldDays(r))
           AllOf(c) == [e \in 1..Max(DOMAIN panel) |->
                          IF e \in DOMAIN panel THEN panel[e][c] ELSE NaN]
           Drains == AllOf("drain")
           Sums30 == AllOf("placed30")
           Falls == [e \in DOMAIN Sums30 |-> Minus(0, Sums30[e])]
           Cbr == ScoreNoLookahead(Drains, d, CbrWindow, CbrMin, CbrFloor)
           Fall == ScoreNoLookahead(Falls, d, RoskaznaWindow, RoskaznaMin, RoskaznaFloor)
<1>1. n \in Nat /\ DOMAIN r = 1..n
  BY DEF RowsTo
<1>2. N \in 1..n /\ F \in 1..n /\ DOMAIN panel = F..N
  <2>1. GoesOn(r, r, n, n)
    BY <1>1 DEF GoesOn
  <2> QED
    BY <1>1, <2>1, HeldGoesOn, TreasuryPanelGoesOn
<1>3. \A e \in DOMAIN panel : /\ panel[e].placed30 \in Int /\ panel[e].weekly \in Number
                              /\ panel[e].drain = BudgetDrain(panel[e].weekly)
                              /\ Below(panel[e].weekly, 0) => panel[e].sinceUpdate < Week
  BY TreasuryPanelNumbers
<1>4. /\ DOMAIN s = DOMAIN panel
      /\ \A e \in DOMAIN panel : s[e].row = panel[e]
  BY DEF TreasurySignalTable
<1>5. panel # <<>> /\ d \in F..N
  BY <1>2, <1>4
<1>6. /\ s[d].cbr = OrZero(Cbr)
      /\ s[d].roskazna = Larger(OrZero(Fall), 0)
      /\ s[d].drain = (OrZero(Cbr) >= ScoreThreshold)
      /\ s[d].drop = (Larger(OrZero(Fall), 0) >= ScoreThreshold
                      \/ PlacementGap(Sums30, d) >= DropThreshold)
  BY <1>4, <1>5 DEF TreasurySignalTable, RoskaznaScore
<1> HIDE DEF panel, s, Cbr, Fall
<1>7. Max(DOMAIN panel) = N
  <2>1. DOMAIN panel \in SUBSET Int /\ N \in DOMAIN panel /\ \A e \in DOMAIN panel : e <= N
    BY <1>1, <1>2, <1>5
  <2>2. N \in Int
    BY <1>1, <1>2
  <2> QED
    BY <2>1, <2>2, BoundedMax
<1>8. \A e \in 1..N : /\ Drains[e] = IF e \in F..N THEN panel[e].drain ELSE NaN
                      /\ Sums30[e] = IF e \in F..N THEN panel[e].placed30 ELSE NaN
                      /\ Falls[e] = Minus(0, Sums30[e])
  BY <1>2, <1>7
<1> HIDE DEF Drains, Sums30, Falls, AllOf, F, N
<1>9. \A e \in 1..N : Sums30[e] \in Number /\ Falls[e] \in Number /\ Drains[e] \in Number
                      /\ (Drains[e] # NaN => Drains[e] >= 0)
                      /\ (Drains[e] # NaN /\ Drains[e] > 0 =>
                            e \in F..N /\ panel[e].weekly \in Int /\ panel[e].weekly < 0)
  <2> SUFFICES ASSUME NEW e \in 1..N
               PROVE  /\ Sums30[e] \in Number /\ Falls[e] \in Number /\ Drains[e] \in Number
                      /\ Drains[e] # NaN => Drains[e] >= 0
                      /\ Drains[e] # NaN /\ Drains[e] > 0 =>
                           e \in F..N /\ panel[e].weekly \in Int /\ panel[e].weekly < 0
    OBVIOUS
  <2>1. Sums30[e] \in Number
    BY <1>2, <1>3, <1>8 DEF Number
  <2>2. Falls[e] \in Number
    <3>1. 0 \in Number
      BY DEF Number
    <3> QED
      BY <1>8, <2>1, <3>1, SmallNumbers
  <2>3. \A v \in Number : /\ BudgetDrain(v) \in Number
                          /\ BudgetDrain(v) # NaN => v \in Int /\ BudgetDrain(v) >= 0
                          /\ BudgetDrain(v) # NaN /\ BudgetDrain(v) > 0 => v < 0
    BY NaNAssumption DEF BudgetDrain, Larger, Number
  <2>4. CASE e \in F..N
    BY <1>2, <1>3, <1>8, <2>1, <2>2, <2>3, <2>4
  <2>5. CASE e \notin F..N
    BY <1>8, <2>1, <2>2, <2>5 DEF Number
  <2> QED
    BY <2>4, <2>5
<1>10. /\ d \in Nat \ {0} /\ d \in 1..N /\ N \in Nat
       /\ \A e \in 1..d : e \in 1..N
  BY <1>1, <1>2, <1>5
<1>11. NumbersTo(Drains, d) /\ NumbersTo(Sums30, d) /\ NumbersTo(Falls, d)
  BY <1>9, <1>10 DEF NumbersTo
<1>12. /\ CbrFloor \in Nat \ {0} /\ RoskaznaFloor \in Nat \ {0}
       /\ CbrWindow \in Nat /\ CbrMin \in Nat \ {0}
       /\ RoskaznaWindow \in Nat /\ RoskaznaMin \in Nat \ {0}
  BY TreasuryAssumption DEF CbrFloor, RoskaznaFloor
<1>13. OrZero(Cbr) \in Int /\ OrZero(Fall) \in Int
  <2>1. Cbr \in Number /\ Fall \in Number
    BY <1>10, <1>11, <1>12, ScoreNumbers DEF Cbr, Fall
  <2> QED
    BY <2>1, SmallNumbers
<1>14. s[d].cbr \in Int /\ s[d].roskazna \in Int
  BY <1>6, <1>13 DEF Larger
<1>15. ASSUME s[d].drain
       PROVE  panel[d].weekly < 0 /\ panel[d].sinceUpdate < Week
  <2>1. OrZero(Cbr) > 0
    <3>1. OrZero(Cbr) >= ScoreThreshold
      BY <1>6, <1>15
    <3> QED
      BY <1>13, <3>1 DEF ScoreThreshold, Unit
  <2>2. /\ Drains[d] \in Int
        /\ \E e \in 1..(d - 1) : Drains[e] \in Int /\ Drains[e] < Drains[d]
    BY <1>10, <1>11, <1>12, <2>1, PositiveScore DEF Cbr
  <2>3. PICK e \in 1..(d - 1) : Drains[e] \in Int /\ Drains[e] < Drains[d]
    BY <2>2
  <2>4. e \in 1..N
    BY <1>10
  <2>5. Drains[e] >= 0
    BY <1>9, <2>3, <2>4, NaNAssumption
  <2>6. Drains[d] # NaN /\ Drains[d] > 0
    BY <2>2, <2>3, <2>5, NaNAssumption
  <2>7. panel[d].weekly \in Int /\ panel[d].weekly < 0
    BY <1>9, <1>10, <2>6
  <2>8. Below(panel[d].weekly, 0)
    BY <2>7, NaNAssumption DEF Below
  <2> QED
    BY <1>2, <1>3, <1>5, <2>7, <2>8
<1>16. ASSUME s[d].drop
       PROVE  \E e \in DOMAIN s : e < d /\ panel[d].placed30 < panel[e].placed30
  <2>1. Sums30[d] = panel[d].placed30 /\ panel[d].placed30 \in Int
    BY <1>2, <1>3, <1>5, <1>8, <1>10
  <2>2. \E e \in 1..(d - 1) : Sums30[e] \in Int /\ Sums30[d] < Sums30[e]
    <3>1. CASE Larger(OrZero(Fall), 0) >= ScoreThreshold
      <4>1. OrZero(Fall) > 0
        BY <1>13, <3>1 DEF Larger, ScoreThreshold, Unit
      <4>2. PICK e \in 1..(d - 1) : Falls[e] \in Int /\ Falls[e] < Falls[d]
        BY <1>10, <1>11, <1>12, <4>1, PositiveScore DEF Fall
      <4>3. e \in 1..N
        BY <1>10
      <4>4. Falls[e] = Minus(0, Sums30[e]) /\ Falls[d] = Minus(0, Sums30[d])
        BY <1>8, <1>10, <4>3
      <4>5. Sums30[e] \in Int
        BY <1>9, <4>2, <4>3, <4>4, NaNAssumption DEF Number, Minus
      <4>6. Falls[e] = 0 - Sums30[e] /\ Falls[d] = 0 - Sums30[d]
        BY <2>1, <4>4, <4>5, NaNAssumption DEF Minus
      <4> QED
        BY <2>1, <4>2, <4>5, <4>6
    <3>2. CASE PlacementGap(Sums30, d) >= DropThreshold
      <4>1. PlacementGap(Sums30, d) > 0
        BY <1>10, <1>11, <2>1, <3>2, GapIsNumber DEF DropThreshold
      <4> QED
        BY <1>10, <1>11, <2>1, <4>1, PositiveGap
    <3> QED
      BY <1>6, <1>16, <3>1, <3>2
  <2>3. PICK e \in 1..(d - 1) : Sums30[e] \in Int /\ Sums30[d] < Sums30[e]
    BY <2>2
  <2>4. e \in 1..N /\ e < d
    BY <1>10
  <2>5. e \in F..N
    BY <1>8, <2>3, <2>4, NaNAssumption
  <2> QED
    BY <1>2, <1>4, <1>8, <2>1, <2>3, <2>4, <2>5
<1>17. /\ s[d].cbr \in Int /\ s[d].roskazna \in Int
       /\ s[d].drain => s[d].row.weekly < 0 /\ s[d].row.sinceUpdate < Week
       /\ s[d].drop => \E e \in DOMAIN s : e < d /\ s[d].row.placed30 < s[e].row.placed30
  BY <1>2, <1>4, <1>5, <1>14, <1>15, <1>16
<1> QED
  BY <1>17 DEF s, panel

-----------------------------------------------------------------------------
(***************************************************************************)
(* The fading.                                                             *)
(***************************************************************************)
\* The powers of a natural number exist, as the recursion says.
LEMMA PowersExist ==
  ASSUME NEW base \in Nat
  PROVE  /\ Power(base)[0] = 1
         /\ \A n \in Nat : n # 0 => Power(base)[n] = base * Power(base)[n - 1]
<1> DEFINE Upon(g, n) == \A i \in 0..n : g[i] = IF i = 0 THEN 1 ELSE base * g[i - 1]
           Bad == {n \in Nat : ~\E g : Upon(g, n)}
           Alike(g, h, i) == g[i] = h[i]
<1>1. 0 \notin Bad
  <2> DEFINE one == [i \in Nat |-> 1]
  <2>1. Upon(one, 0)
    OBVIOUS
  <2> QED
    BY <2>1
<1>2. ASSUME NEW n \in Nat, n # 0, NEW g, Upon(g, n - 1)
      PROVE  \E f : Upon(f, n)
  <2> DEFINE f == [i \in Nat |-> IF i <= n - 1 THEN g[i] ELSE base * g[n - 1]]
  <2>1. ASSUME NEW i \in 0..n
        PROVE  f[i] = IF i = 0 THEN 1 ELSE base * f[i - 1]
    <3>1. CASE i <= n - 1
      <4>1. f[i] = g[i] /\ (i # 0 => f[i - 1] = g[i - 1]) /\ i \in 0..(n - 1)
        BY <1>2, <3>1
      <4> HIDE DEF f
      <4> QED
        BY <1>2, <4>1
    <3>2. CASE ~(i <= n - 1)
      <4>1. i = n /\ i # 0 /\ f[i] = base * g[n - 1] /\ f[n - 1] = g[n - 1]
        BY <1>2, <3>2
      <4> HIDE DEF f
      <4> QED
        BY <4>1
    <3> QED
      BY <3>1, <3>2
  <2> HIDE DEF f
  <2> QED
    BY <2>1
<1>3. Bad = {}
  <2> SUFFICES ASSUME Bad # {}
               PROVE  FALSE
    OBVIOUS
  <2>1. Bad \in SUBSET Nat
    OBVIOUS
  <2>2. PICK n \in Bad : \A m \in Bad : n <= m
    <3> HIDE DEF Bad
    <3> QED
      BY <2>1, LeastOf
  <2>3. n \in Nat /\ n # 0 /\ n - 1 \in Nat /\ n - 1 \notin Bad
    <3>1. n # 0
      BY <1>1
    <3> HIDE DEF Bad
    <3> QED
      BY <2>1, <2>2, <3>1
  <2> QED
    BY <1>2, <2>3
<1>4. \A n \in Nat : \E g : Upon(g, n)
  BY <1>3
<1>5. ASSUME NEW g, NEW h, NEW n \in Nat, NEW m \in Nat, Upon(g, n), Upon(h, m),
             NEW j \in 0..n, j \in 0..m
      PROVE  g[j] = h[j]
  <2> DEFINE Differ == {i \in 0..j : g[i] # h[i]}
  <2> SUFFICES ASSUME Differ # {}
               PROVE  FALSE
    OBVIOUS
  <2>1. Differ \in SUBSET Nat
    OBVIOUS
  <2>2. PICK i \in Differ : \A x \in Differ : i <= x
    <3> HIDE DEF Differ
    <3> QED
      BY <2>1, LeastOf
  <2>3. i \in 0..n /\ i \in 0..m /\ i \in 0..j /\ g[i] # h[i]
    BY <1>5
  <2>4. i # 0
    BY <1>5, <2>3
  <2>5. i - 1 \in 0..j /\ i - 1 \notin Differ
    BY <2>2, <2>3, <2>4
  <2>6. g[i - 1] = h[i - 1]
    BY <2>5
  <2> QED
    BY <1>5, <2>3, <2>4, <2>6
<1> DEFINE G(n) == CHOOSE g : Upon(g, n)
           p == [n \in Nat |-> G(n)[n]]
<1>6. \A n \in Nat : Upon(G(n), n)
  BY <1>4
<1>7. ASSUME NEW n \in Nat
      PROVE  p[n] = IF n = 0 THEN 1 ELSE base * p[n - 1]
  <2>1. p[n] = G(n)[n] /\ (n # 0 => p[n - 1] = G(n - 1)[n - 1] /\ n - 1 \in Nat)
    OBVIOUS
  <2>2. Upon(G(n), n) /\ (n # 0 => Upon(G(n - 1), n - 1))
    BY <1>6
  <2> HIDE DEF p, G
  <2>3. G(n)[n] = IF n = 0 THEN 1 ELSE base * G(n)[n - 1]
    BY <2>2
  <2> HIDE DEF Upon
  <2>4. n # 0 => G(n)[n - 1] = G(n - 1)[n - 1]
    BY <1>5, <2>2
  <2> QED
    BY <2>1, <2>3, <2>4
<1> DEFINE Rec(f) == f = [n \in Nat |-> IF n = 0 THEN 1 ELSE base * f[n - 1]]
<1>8. Rec(p)
  <2>1. DOMAIN p = Nat /\ p = [n \in Nat |-> p[n]]
    OBVIOUS
  <2> HIDE DEF p
  <2>2. p = [n \in Nat |-> IF n = 0 THEN 1 ELSE base * p[n - 1]]
    BY <1>7, <2>1
  <2> QED
    BY <2>2
<1>9. Power(base) = CHOOSE f : Rec(f)
  BY DEF Power
<1>10. Rec(Power(base))
  <2> HIDE DEF p, Rec
  <2> QED
    BY <1>8, <1>9
<1> QED
  BY <1>10

\* What is left of a score is a number that is no further from zero.
LEMMA FadesTowardsZero ==
  ASSUME NEW v \in Int, NEW n \in Nat
  PROVE  /\ Fade(v, n) \in Int /\ Distance(Fade(v, n), 0) <= Distance(v, 0)
         /\ v = 0 => Fade(v, n) = 0
         /\ v <= 0 => Fade(v, n) <= 0
<1> DEFINE P == Power(Decay)
           Q == Power(100)
           Good(i) == P[i] \in Nat /\ Q[i] \in Nat /\ Q[i] > 0 /\ P[i] <= Q[i]
           Bad == {i \in Nat : ~Good(i)}
<1>1. /\ P[0] = 1 /\ Q[0] = 1
      /\ \A i \in Nat : i # 0 => P[i] = Decay * P[i - 1] /\ Q[i] = 100 * Q[i - 1]
  <2>1. Decay \in Nat /\ 100 \in Nat
    BY WideAssumption
  <2> QED
    BY <2>1, PowersExist
<1> HIDE DEF P, Q
<1>2. ASSUME NEW i \in Nat, i # 0, Good(i - 1)
      PROVE  Good(i)
  <2>1. Decay \in Nat /\ Decay <= 100
    BY WideAssumption
  <2>2. \A a, b \in Nat : a <= b => Decay * a <= 100 * b /\ Decay * a \in Nat
    BY <2>1
  <2> QED
    BY <1>1, <1>2, <2>2
<1>3. Bad = {}
  <2> SUFFICES ASSUME Bad # {}
               PROVE  FALSE
    OBVIOUS
  <2>1. Bad \in SUBSET Nat
    OBVIOUS
  <2>2. PICK i \in Bad : \A m \in Bad : i <= m
    <3> HIDE DEF Bad
    <3> QED
      BY <2>1, LeastOf
  <2>3. i # 0
    BY <1>1
  <2>4. i \in Nat /\ i - 1 \in Nat /\ i - 1 \notin Bad
    <3> HIDE DEF Bad
    <3> QED
      BY <2>1, <2>2, <2>3
  <2> QED
    BY <1>2, <2>3, <2>4
<1>4. Good(n)
  BY <1>3
<1>5. Fade(v, n) = (v * P[n]) \div Q[n]
  BY DEF Fade, P, Q
<1> DEFINE a == P[n]
           b == Q[n]
<1>6. a \in Nat /\ b \in Nat /\ b > 0 /\ a <= b /\ Fade(v, n) = (v * a) \div b
  BY <1>4, <1>5
<1> HIDE DEF a, b
<1>7. v * a \in Int
  BY <1>6
<1>8. CASE v >= 0
  <2>1. 0 <= v * a /\ v * a <= v * b
    BY <1>6, <1>8
  <2>2. 0 <= (v * a) \div b /\ (v * a) \div b <= v /\ (v * a) \div b \in Int
    BY <1>6, <1>7, <2>1
  <2>3. v = 0 => v * a = 0
    BY <1>6
  <2> QED
    BY <1>6, <1>8, <2>2 DEF Distance
<1>9. CASE v < 0
  <2>1. v * b <= v * a /\ v * a <= 0
    BY <1>6, <1>9
  <2>2. v <= (v * a) \div b /\ (v * a) \div b <= 0 /\ (v * a) \div b \in Int
    BY <1>6, <1>7, <2>1
  <2> QED
    BY <1>6, <1>9, <2>2 DEF Distance
<1> QED
  BY <1>8, <1>9

-----------------------------------------------------------------------------
(***************************************************************************)
(* The tables that are there.                                              *)
(***************************************************************************)
\* The signal table that is there was built from the raw days up to some day.
LEMMA SignalsOfRows ==
  ASSUME TablesInv, RawTyped, signals # NoTable
  PROVE  \E k \in 1..Len(raw) :
           /\ HeldDays(Upto(k)) # {} /\ RowsTo(module, Upto(k), k)
           /\ signals.rows = SignalRows(module, FeatureRows(module, Upto(k)))
           /\ \A d \in 1..k : Upto(k)[d] = raw[d]
<1>1. PICK n \in 1..Len(raw) : SignalsBuilt(n)
  BY DEF TablesInv, TablesBuilt
<1>2. PICK k \in 1..n : /\ HeldDays(Upto(k)) # {}
                        /\ signals = SignalsFrom(module, FeaturesOf(module, Upto(k)))
  BY <1>1 DEF SignalsBuilt
<1>3. k \in 1..Len(raw)
  BY DEF TablesInv, TablesTyped
<1>4. signals.rows = SignalRows(module, FeatureRows(module, Upto(k)))
  BY <1>2 DEF SignalsFrom, FeaturesOf
<1> QED
  BY <1>2, <1>3, <1>4, RowsOfUpto DEF TablesInv

\* Hence each flag of the table that is there has its cause in the raw file as it is now.
LEMMA FlagsExplained ==
  ASSUME TablesInv, RawTyped
  PROVE  StressIsExplained /\ DemandHasWitness /\ FlagsAreFalls
<1>1. CASE signals = NoTable
  <2>1. \A m : SignalsOf(m) = <<>> /\ DOMAIN SignalsOf(m) = {}
    BY <1>1 DEF SignalsOf, Signals
  <2> QED
    BY <2>1 DEF StressIsExplained, DemandHasWitness, FlagsAreFalls
<1>2. CASE signals # NoTable
  <2>1. PICK k \in 1..Len(raw) :
          /\ HeldDays(Upto(k)) # {} /\ RowsTo(module, Upto(k), k)
          /\ signals.rows = SignalRows(module, FeatureRows(module, Upto(k)))
          /\ \A d \in 1..k : Upto(k)[d] = raw[d]
    BY <1>2, SignalsOfRows
  <2>2. Signals = signals.rows /\ \A m : SignalsOf(m) = IF module = m THEN signals.rows ELSE <<>>
    BY <1>2 DEF Signals, SignalsOf
  <2>3. DOMAIN <<>> = {}
    OBVIOUS
  <2>4. StressIsExplained
    <3>1. CASE module = "ofz"
      <4>1. signals.rows = OfzSignalTable(AddStressSignals(OfzPanel(Upto(k))))
        BY <2>1, <3>1 DEF SignalRows, FeatureRows
      <4>2. RowsTo("ofz", Upto(k), k)
        BY <2>1, <3>1
      <4>3. \A d \in DOMAIN signals.rows :
              signals.rows[d].flag
                => Nedospros(signals.rows[d].row) \/ PlacementStress(signals.rows[d].row)
        BY <2>1, <4>1, <4>2, OfzFlagExplained
      <4> QED
        BY <2>2, <3>1, <4>3 DEF StressIsExplained
    <3>2. CASE module # "ofz"
      BY <2>2, <2>3, <3>2 DEF StressIsExplained
    <3> QED
      BY <3>1, <3>2
  <2>5. DemandHasWitness
    <3>1. CASE module = "repo"
      <4>1. signals.rows = RepoSignalTable(RepoPanel(Upto(k)))
        BY <2>1, <3>1 DEF SignalRows, FeatureRows
      <4>2. RowsTo("repo", Upto(k), k)
        BY <2>1, <3>1
      <4>3. \A d \in DOMAIN signals.rows :
              /\ d \in 1..k
              /\ signals.rows[d].demand => \E i \in DOMAIN Upto(k)[d] : DemandedEvent(Upto(k)[d][i])
        BY <4>1, <4>2, RepoNumbers
      <4> QED
        BY <2>1, <2>2, <3>1, <4>3 DEF DemandHasWitness
    <3>2. CASE module # "repo"
      BY <2>2, <2>3, <3>2 DEF DemandHasWitness
    <3> QED
      BY <3>1, <3>2
  <2>6. FlagsAreFalls
    <3>1. CASE module = "treasury"
      <4>1. signals.rows = TreasurySignalTable(TreasuryPanel(Upto(k)))
        BY <2>1, <3>1 DEF SignalRows, FeatureRows
      <4>2. RowsTo("treasury", Upto(k), k)
        BY <2>1, <3>1
      <4>3. \A d \in DOMAIN signals.rows :
              /\ signals.rows[d].drain => /\ signals.rows[d].row.weekly < 0
                                          /\ signals.rows[d].row.sinceUpdate < Week
              /\ signals.rows[d].drop =>
                   \E e \in DOMAIN signals.rows :
                     e < d /\ signals.rows[d].row.placed30 < signals.rows[e].row.placed30
        BY <2>1, <4>1, <4>2, TreasuryNumbers
      <4> QED
        BY <2>2, <3>1, <4>3 DEF FlagsAreFalls
    <3>2. CASE module # "treasury"
      BY <2>2, <2>3, <3>2 DEF FlagsAreFalls
    <3> QED
      BY <3>1, <3>2
  <2> QED
    BY <2>4, <2>5, <2>6
<1> QED
  BY <1>1, <1>2

\* The scores of the wide dataset are numbers, whichever rows the tables have.
LEMMA WideNumbers ==
  ASSUME TablesInv, RawTyped, Buildable
  PROVE  /\ IsFiniteSet(Column)
         /\ \A c \in Column, d \in Int : Score(c, d) \in Int
<1>1. signals # NoTable
  BY DEF Buildable
<1>2. PICK k \in 1..Len(raw) :
        /\ HeldDays(Upto(k)) # {} /\ RowsTo(module, Upto(k), k)
        /\ signals.rows = SignalRows(module, FeatureRows(module, Upto(k)))
  BY <1>1, SignalsOfRows
<1>3. module \in Module
  BY DEF TablesInv, TablesTyped
<1>4. IsFiniteSet(1..2) /\ IsFiniteSet(1..3)
  <2>1. 1 \in Int /\ 2 \in Int /\ 3 \in Int
    OBVIOUS
  <2> QED
    BY <2>1, FS_Interval
<1> SUFFICES \E n \in {2, 3} : /\ Column = 1..n
                               /\ \A d \in Int : \A c \in 1..n : Score(c, d) \in Int
  BY <1>4
<1>5. CASE module = "reserves"
  <2>1. signals.rows = ReservesTable(Upto(k)) /\ RowsTo("reserves", Upto(k), k)
    BY <1>2, <1>5 DEF SignalRows, FeatureRows
  <2>2. DOMAIN ReservesTable(Upto(k)) = 1..k
    BY DEF ReservesTable, Upto
  <2>3. \A d \in DOMAIN signals.rows : /\ signals.rows[d].madSpread \in Int
                                       /\ signals.rows[d].madRuonia \in Int
    BY <2>1, <2>2, ReservesNumbers
  <2> DEFINE s(d) == At(signals, d, [madSpread |-> 0, madRuonia |-> 0])
  <2>4. \A d : Daily(d).scores = <<s(d).madSpread, s(d).madRuonia>>
    BY <1>5 DEF Daily, M1Daily
  <2>5. \A d : s(d).madSpread \in Int /\ s(d).madRuonia \in Int
    BY <2>3 DEF At
  <2> HIDE DEF s
  <2>6. \A d : /\ DOMAIN Daily(d).scores = 1..2
               /\ Daily(d).scores[1] = s(d).madSpread /\ Daily(d).scores[2] = s(d).madRuonia
    BY <2>4
  <2>7. \A c \in 1..2 : c = 1 \/ c = 2
    OBVIOUS
  <2>8. \A d \in Int : \A c \in 1..2 : Score(c, d) \in Int
    BY <2>5, <2>6, <2>7 DEF Score
  <2> QED
    BY <2>6, <2>8 DEF Column
<1>6. CASE module = "repo"
  <2>1. signals.rows = RepoSignalTable(RepoPanel(Upto(k))) /\ RowsTo("repo", Upto(k), k)
    BY <1>2, <1>6 DEF SignalRows, FeatureRows
  <2>2. \A d \in DOMAIN signals.rows : /\ signals.rows[d].cover \in Int
                                       /\ signals.rows[d].spread \in Int
                                       /\ signals.rows[d].volume \in Int
    BY <2>1, RepoNumbers
  <2> DEFINE s(d) == At(signals, d, [cover |-> 0, spread |-> 0, volume |-> 0])
  <2>3. \A d : Daily(d).scores = <<s(d).cover, s(d).spread, s(d).volume>>
    BY <1>6 DEF Daily, M2Daily
  <2>4. \A d : s(d).cover \in Int /\ s(d).spread \in Int /\ s(d).volume \in Int
    BY <2>2 DEF At
  <2> HIDE DEF s
  <2>5. \A d : /\ DOMAIN Daily(d).scores = 1..3
               /\ Daily(d).scores[1] = s(d).cover /\ Daily(d).scores[2] = s(d).spread
               /\ Daily(d).scores[3] = s(d).volume
    BY <2>3
  <2>6. \A c \in 1..3 : c = 1 \/ c = 2 \/ c = 3
    OBVIOUS
  <2>7. \A d \in Int : \A c \in 1..3 : Score(c, d) \in Int
    BY <2>4, <2>5, <2>6 DEF Score
  <2> QED
    BY <2>5, <2>7 DEF Column
<1>7. CASE module = "ofz"
  <2>1. /\ signals.rows = OfzSignalTable(AddStressSignals(OfzPanel(Upto(k))))
        /\ RowsTo("ofz", Upto(k), k)
    BY <1>2, <1>7 DEF SignalRows, FeatureRows
  <2>2. \A d \in DOMAIN signals.rows : /\ d \in DOMAIN OfzPanel(Upto(k))
                                       /\ signals.rows[d].row = OfzPanel(Upto(k))[d]
    BY <1>2, <2>1, OfzFlagExplained
  <2>3. \A d \in DOMAIN signals.rows : /\ signals.rows[d].row.madCover \in Int
                                       /\ signals.rows[d].row.madSpread \in Number
    BY <1>2, <2>1, <2>2, OfzNumbers
  <2> DEFINE neutral == [has |-> FALSE, madCover |-> 0, madSpread |-> 0]
             s(d) == At(signals, d, [row |-> neutral]).row
  <2>4. \A d : Daily(d).scores = <<s(d).madCover, OrZero(s(d).madSpread)>>
    BY <1>7 DEF Daily, M3Daily
  <2>5. \A d : s(d).madCover \in Int /\ s(d).madSpread \in Number
    BY <2>3 DEF At, Number
  <2> HIDE DEF s
  <2>6. \A d : /\ DOMAIN Daily(d).scores = 1..2
               /\ Daily(d).scores[1] = s(d).madCover
               /\ Daily(d).scores[2] = OrZero(s(d).madSpread)
    BY <2>4
  <2>7. \A d : OrZero(s(d).madSpread) \in Int
    BY <2>5, SmallNumbers
  <2>8. \A c \in 1..2 : c = 1 \/ c = 2
    OBVIOUS
  <2>9. \A d \in Int : \A c \in 1..2 : Score(c, d) \in Int
    BY <2>5, <2>6, <2>7, <2>8 DEF Score
  <2> QED
    BY <2>6, <2>9 DEF Column
<1>8. CASE module = "treasury"
  <2>1. /\ signals.rows = TreasurySignalTable(TreasuryPanel(Upto(k)))
        /\ RowsTo("treasury", Upto(k), k)
    BY <1>2, <1>8 DEF SignalRows, FeatureRows
  <2>2. \A d \in DOMAIN signals.rows : /\ signals.rows[d].cbr \in Int
                                       /\ signals.rows[d].roskazna \in Int
    BY <1>2, <2>1, TreasuryNumbers
  <2> DEFINE s(d) == At(signals, d, [cbr |-> 0, roskazna |-> 0])
  <2>3. \A d : Daily(d).scores = <<s(d).cbr, s(d).roskazna>>
    BY <1>8 DEF Daily, M5Daily
  <2>4. \A d : s(d).cbr \in Int /\ s(d).roskazna \in Int
    BY <2>2 DEF At
  <2> HIDE DEF s
  <2>5. \A d : /\ DOMAIN Daily(d).scores = 1..2
               /\ Daily(d).scores[1] = s(d).cbr /\ Daily(d).scores[2] = s(d).roskazna
    BY <2>3
  <2>6. \A c \in 1..2 : c = 1 \/ c = 2
    OBVIOUS
  <2>7. \A d \in Int : \A c \in 1..2 : Score(c, d) \in Int
    BY <2>4, <2>5, <2>6 DEF Score
  <2> QED
    BY <2>5, <2>7 DEF Column
<1> QED
  BY <1>3, <1>5, <1>6, <1>7, <1>8 DEF Module

\* A score after _apply_decay is a number; where it differs from the signal's, a score of
\* at most DecayDays rows before was no smaller.
LEMMA FadedNumbers ==
  ASSUME TablesInv, RawTyped, Buildable
  PROVE  \A c \in Column, d \in Int :
           /\ ApplyDecay(c, d) \in Int
           /\ ApplyDecay(c, d) # Score(c, d) =>
                /\ EventSeen(d) /\ d - FlaggedDay \in 1..DecayDays /\ Score(c, FlaggedDay) # 0
                /\ Distance(ApplyDecay(c, d), 0) <= Distance(Score(c, FlaggedDay), 0)
<1> SUFFICES ASSUME NEW c \in Column, NEW d \in Int
             PROVE  /\ ApplyDecay(c, d) \in Int
                    /\ ApplyDecay(c, d) # Score(c, d) =>
                         /\ EventSeen(d) /\ d - FlaggedDay \in 1..DecayDays
                         /\ Score(c, FlaggedDay) # 0
                         /\ Distance(ApplyDecay(c, d), 0) <= Distance(Score(c, FlaggedDay), 0)
  OBVIOUS
<1>1. Score(c, d) \in Int /\ Score(c, FlaggedDay) \in Int
  BY WideNumbers DEF FlaggedDay
<1>2. CASE Score(c, d) # 0 \/ ~EventSeen(d) \/ d - FlaggedDay \notin 1..DecayDays
  BY <1>1, <1>2 DEF ApplyDecay
<1>3. CASE ~(Score(c, d) # 0 \/ ~EventSeen(d) \/ d - FlaggedDay \notin 1..DecayDays)
  <2>1. ApplyDecay(c, d) = Fade(Score(c, FlaggedDay), d - FlaggedDay)
    BY <1>3 DEF ApplyDecay
  <2>2. d - FlaggedDay \in Nat
    BY <1>3, WideAssumption
  <2>3. /\ ApplyDecay(c, d) \in Int
        /\ Distance(ApplyDecay(c, d), 0) <= Distance(Score(c, FlaggedDay), 0)
        /\ Score(c, FlaggedDay) = 0 => ApplyDecay(c, d) = 0
    BY <1>1, <2>1, <2>2, FadesTowardsZero
  <2> QED
    BY <1>3, <2>3
<1> QED
  BY <1>2, <1>3

\* The same for the tables that are there, as the property says it.
LEMMA ScoresFade ==
  ASSUME TablesInv, RawTyped
  PROVE  DecayFades
<1> SUFFICES ASSUME Buildable, NEW c \in Column, NEW d \in Calendar,
                    ApplyDecay(c, d) # Score(c, d)
             PROVE  \E e \in 1..(d - 1) :
                      /\ d - e <= DecayDays /\ Score(c, e) # 0
                      /\ Distance(ApplyDecay(c, d), 0) <= Distance(Score(c, e), 0)
                      /\ EventSeen(d)
  BY DEF DecayFades
<1>1. d \in Int
  BY DEF Calendar
<1>2. /\ EventSeen(d) /\ d - FlaggedDay \in 1..DecayDays /\ Score(c, FlaggedDay) # 0
      /\ Distance(ApplyDecay(c, d), 0) <= Distance(Score(c, FlaggedDay), 0)
  BY <1>1, FadedNumbers
<1>3. FlaggedDay \in 1..(d - 1) /\ d - FlaggedDay <= DecayDays
  BY <1>1, <1>2, WideAssumption DEF FlaggedDay
<1> QED
  BY <1>2, <1>3

\* A season above one: its day is of the season, and a day of its kind has shown stress.
LEMMA SeasonsExplained ==
  ASSUME TablesInv, RawTyped
  PROVE  SeasonHasCause
<1> SUFFICES ASSUME Buildable, NEW d \in Calendar, DaySeason(d, MaxStress) > 100
             PROVE  /\ d \in MonthEnd \/ \E e \in TaxEvent : Distance(d, e) <= 1
                    /\ \E e \in DaysLike(d), c \in Column : ApplyDecay(c, e) > 0
  BY DEF SeasonHasCause
<1>1. IsFiniteSet(Calendar) /\ Calendar \in SUBSET Int /\ IsFiniteSet(Column)
  <2>1. IsFiniteSet(1..MaxRows)
    BY FS_Interval, TablesAssumption
  <2> QED
    BY <2>1, WideNumbers DEF Calendar
<1>2. \A x \in Calendar : /\ IsFiniteSet(DaysLike(x)) /\ DaysLike(x) \in SUBSET Int
                          /\ Cardinality(DaysLike(x)) \in Nat /\ Cardinality(DaysLike(x)) > 0
  <2> SUFFICES ASSUME NEW x \in Calendar
               PROVE  /\ IsFiniteSet(DaysLike(x)) /\ DaysLike(x) \in SUBSET Int
                      /\ Cardinality(DaysLike(x)) \in Nat /\ Cardinality(DaysLike(x)) > 0
    OBVIOUS
  <2>1. DaysLike(x) \in SUBSET Calendar /\ x \in DaysLike(x)
    BY DEF DaysLike
  <2>2. IsFiniteSet(DaysLike(x))
    BY <1>1, <2>1, FS_Subset
  <2>3. Cardinality(DaysLike(x)) \in Nat /\ Cardinality(DaysLike(x)) # 0
    BY <2>1, <2>2, FS_CardinalityType, FS_EmptySet
  <2>4. DaysLike(x) \in SUBSET Int
    BY <1>1, <2>1
  <2> QED
    BY <2>2, <2>3, <2>4
<1>3. ASSUME NEW x \in Calendar
      PROVE  /\ TypeStress(x) \in Int
             /\ TypeStress(x) > 0 => \E e \in DaysLike(x), c \in Column : ApplyDecay(c, e) > 0
  <2> DEFINE Faded(c) == [e \in DaysLike(x) |-> ApplyDecay(c, e)]
             h == [c \in Column |-> Total(Faded(c))]
             n == Cardinality(DaysLike(x))
  <2>1. CASE module = "ofz"
    BY <2>1 DEF TypeStress
  <2>2. CASE module # "ofz"
    <3>1. TypeStress(x) = Total(h) \div (7 * n)
      BY <2>2 DEF TypeStress
    <3>2. \A c \in Column : /\ DOMAIN Faded(c) = DaysLike(x)
                            /\ \A e \in DaysLike(x) : /\ Faded(c)[e] = ApplyDecay(c, e)
                                                      /\ ApplyDecay(c, e) \in Int
      BY <1>2, FadedNumbers
    <3> HIDE DEF Faded
    <3>3. \A c \in Column : /\ Total(Faded(c)) \in Int
                            /\ (\A e \in DaysLike(x) : ApplyDecay(c, e) <= 0)
                                 => Total(Faded(c)) <= 0
      BY <1>2, <3>2, SumOf
    <3>4. DOMAIN h = Column /\ \A c \in Column : h[c] = Total(Faded(c))
      OBVIOUS
    <3> HIDE DEF h
    <3>5. /\ Total(h) \in Int
          /\ (\A c \in Column : h[c] <= 0) => Total(h) <= 0
      BY <1>1, <3>3, <3>4, SumOf
    <3>6. n \in Nat /\ n > 0
      BY <1>2
    <3> HIDE DEF n
    <3>7. /\ TypeStress(x) \in Int
          /\ TypeStress(x) > 0 => Total(h) > 0
      BY <3>1, <3>5, <3>6
    <3>8. TypeStress(x) > 0 => \E c \in Column : \E e \in DaysLike(x) : ~(ApplyDecay(c, e) <= 0)
      BY <3>3, <3>4, <3>5, <3>7
    <3> QED
      BY <3>2, <3>7, <3>8
  <2> QED
    BY <2>1, <2>2
<1>4. MaxStress \in Int
  <2> DEFINE f == [x \in Calendar |-> TypeStress(x)]
             V == {TypeStress(x) : x \in Calendar}
  <2>1. DOMAIN f = Calendar /\ V = {f[x] : x \in DOMAIN f}
    OBVIOUS
  <2>2. V \in SUBSET Int /\ V # {}
    BY <1>3
  <2>3. MaxStress = Max(V)
    BY DEF MaxStress
  <2> HIDE DEF f, V
  <2>4. IsFiniteSet(V)
    BY <1>1, <2>1, ValuesAreFinite
  <2> QED
    BY <2>2, <2>3, <2>4, Extremes
<1> DEFINE T == TypeStress(d)
           M == MaxStress
<1>5. /\ DayType(d) # Ordinary /\ ~(M <= 0)
      /\ Smaller(Larger(100 + (40 * T) \div M, 100), 140) > 100
  BY DEF DaySeason
<1>6. T \in Int /\ M \in Int /\ M > 0
  BY <1>3, <1>4, <1>5
<1>7. T > 0
  <2> HIDE DEF T, M
  <2>1. \A y \in Int : y <= 0 => (40 * y) \div M <= 0 /\ (40 * y) \div M \in Int
    BY <1>6
  <2> QED
    BY <1>5, <1>6, <2>1 DEF Larger, Smaller
<1>8. d \in MonthEnd \/ \E e \in TaxEvent : Distance(d, e) <= 1
  <2> DEFINE tax == \E e \in TaxEvent : Distance(d, e) <= 1
             month == d \in MonthEnd
             quarter == d \in QuarterEnd
  <2>1. tax \in BOOLEAN /\ month \in BOOLEAN /\ quarter \in BOOLEAN
    OBVIOUS
  <2>2. DayType(d) = <<tax, month, quarter>> /\ (quarter => month)
    BY WideAssumption DEF DayType
  <2>3. tax \/ month
    <3> HIDE DEF tax, month, quarter
    <3> SUFFICES ASSUME ~tax, ~month
                 PROVE  FALSE
      OBVIOUS
    <3>1. tax = FALSE /\ month = FALSE /\ quarter = FALSE
      BY <2>1, <2>2
    <3> QED
      BY <1>5, <2>2, <3>1 DEF Ordinary
  <2> QED
    BY <2>3
<1> QED
  BY <1>3, <1>7, <1>8

-----------------------------------------------------------------------------
\* Every flag and every season has its cause in the data (the stress flag of add_stress_signals,
\* Flag_Demand, the two flags of M5, the season multiplier), for every raw
\* file, every window, every threshold on the observations and every calendar.
THEOREM FlagsHaveCauseAlways == TableSpec => []FlagsHaveCause
<1>1. TablesInv /\ RawTyped => FlagsHaveCause
  BY FlagsExplained, SeasonsExplained DEF FlagsHaveCause
<1> QED
  BY <1>1, TablesAlways, RawTypedAlways, PTL

\* A score of the wide dataset is the signal's of the day, or what is left of one of at most
\* DecayDays days before (_apply_decay): it never grows and never outlives them.
THEOREM DecayFadesAlways == TableSpec => []DecayFades
<1>1. TablesInv /\ RawTyped => DecayFades
  BY ScoresFade
<1> QED
  BY <1>1, TablesAlways, RawTypedAlways, PTL

-----------------------------------------------------------------------------
(***************************************************************************)
(* The run of all the parts. Each part of its behaviours is a behaviour of *)
(* the part's own specification, so that what is proved of the parts holds *)
(* of the run.                                                             *)
(***************************************************************************)
\* The parts share no state: every step of the run is one of a part, and a stutter of the
\* others.
THEOREM PartsRun ==
  Spec => /\ RawSpec /\ TableSpec /\ FormulaSpec /\ ArtifactsSpec /\ EksSpec /\ BacktestSpec
<1>1. Init => RawInit /\ TableInit /\ FormulaInit /\ ArtifactsInit /\ EksInit /\ BacktestInit
  BY DEF Init
<1>2. [Next]_vars => /\ [RawNext]_rawVars /\ [TableNext]_tableVars /\ [FormulaNext]_formulaVars
                     /\ [ArtifactsNext]_artifactVars /\ [EksNext]_eksVars
                     /\ [BacktestNext]_backtestVars
  BY DEF Next, vars
<1> QED
  BY <1>1, <1>2, PTL
  DEF Spec, RawSpec, TableSpec, FormulaSpec, ArtifactsSpec, EksSpec, BacktestSpec

\* The variables of every part are of their types in the run of all of them, for a forest
\* whose score of a day is a number.
THEOREM PartsTypes ==
  ASSUME \A s \in Snapshot : PredictWide(s) \in Int
  PROVE  Spec => []PartsTypeOK
<1>1. FormulaSpec => []FormulaTypeOK
  BY FormulaTypes
<1>2. RawTypeOK /\ TableTypeOK /\ FormulaTypeOK /\ ArtifactsTypeOK /\ EksTypeOK /\ BacktestTypeOK
        => PartsTypeOK
  BY DEF PartsTypeOK
<1> QED
  BY PartsRun, RawTypeCorrect, TableTypes, <1>1, ArtifactsTypes, EksTypes, BacktestTypes, <1>2, PTL

\* What is proved of the parts, for the run of all of them.
THEOREM PartsSafety ==
  Spec => /\ [](LatestIsRead /\ CarriedIsRecent /\ FlagsHaveCause /\ DecayFades)
          /\ [](ShapFollowsStress /\ HistoryStands)
          /\ [](ArtifactsOfOneTraining /\ CountedOnce /\ HolesAreExplained /\ AnswersStand)
          /\ NoLookahead
<1>1. Spec => /\ [](LatestIsRead /\ CarriedIsRecent /\ FlagsHaveCause /\ DecayFades)
              /\ [](ShapFollowsStress /\ HistoryStands)
  BY PartsRun, NewestRowsAreRead, CarriedIsRecentAlways, FlagsHaveCauseAlways, DecayFadesAlways,
     ExplanationsFollow, HistoryStandsAlways, PTL
<1>2. Spec => [](ArtifactsOfOneTraining /\ CountedOnce /\ HolesAreExplained /\ AnswersStand)
  BY PartsRun, OneTrainingServes, CountedOnceAlways, HolesExplainedAlways, AnswersStandAlways, PTL
<1> QED
  BY PartsRun, NoLookaheadAlways, <1>1, <1>2
=============================================================================
