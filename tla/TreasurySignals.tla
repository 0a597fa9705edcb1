-------------------------- MODULE TreasurySignals ---------------------------
(***************************************************************************)
(* M5, the treasury: levels (balance of the single account, structural     *)
(* liquidity, participating banks) that hold until the next observation    *)
(* and placements that happen on a day, and the two signals made of them.  *)
(***************************************************************************)
EXTENDS RobustScores

CONSTANTS
  Week, Month,      \* rows the deltas and the sums go back
  CbrWindow,        \* days of the rolling history of the budget drain
  CbrMin,           \* observations it needs
  RoskaznaWindow,   \* the same for the placements
  RoskaznaMin

ASSUME TreasuryAssumption ==
  /\ Week \in Nat \ {0} /\ Month \in Nat \ {0}
  /\ CbrWindow \in Nat \ {0} /\ CbrMin \in Nat \ {0}
  /\ RoskaznaWindow \in Nat \ {0} /\ RoskaznaMin \in Nat \ {0}

CbrFloor == 1
RoskaznaFloor == 1500
ScoreThreshold == 3 * Unit
DropThreshold == 500
NoUpdate == 999

(***************************************************************************)
(* Rows of one date: placements add up, of a level the last one counts.    *)
(***************************************************************************)
Placed(day) ==
  Total([i \in DOMAIN day |-> OrZero(day[i].placement)])
Level(day, column) ==
  LET known == {i \in DOMAIN day : day[i][column] # NaN}
  IN IF known = {} THEN NaN ELSE day[Max(known)][column]

WindowSum(s, d, width) == Total([e \in Larger(1, d - width + 1)..d |-> s[e]])
Delta(s, d, lag) == IF d - lag < 1 THEN NaN ELSE Minus(s[d], s[d - lag])

\* A rise of the balance is no drain.
BudgetDrain(delta) == IF delta = NaN THEN NaN ELSE Larger(-delta, 0)

TreasuryPanel(raw) ==
  LET dated == {d \in DOMAIN raw : raw[d] # <<>>}
      first == Min(dated)
      n == IF dated = {} THEN 0 ELSE Max(dated)
      level(column) == [d \in 1..n |-> Carried([e \in 1..n |-> Level(raw[e], column)], d, n)]
      balance == level("balance")
      structural == level("structural")
      banks == level("banks")
      placed == [d \in 1..n |-> Placed(raw[d])]
      updated == {d \in 1..n : \E i \in DOMAIN raw[d] :
                    {raw[d][i].balance, raw[d][i].structural, raw[d][i].banks} # {NaN}}
      placing == {d \in 1..n : placed[d] > 0}
  IN IF dated = {} THEN <<>>
     ELSE [d \in first..n |->
       [balance |-> balance[d], placed |-> placed[d],
        placed7 |-> WindowSum(placed, d, Week), placed30 |-> WindowSum(placed, d, Month),
        weekly |-> Delta(balance, d, Week), monthly |-> Delta(balance, d, Month),
        liquidity7 |-> Delta(structural, d, Week), banks30 |-> Delta(banks, d, Month),
        drain |-> BudgetDrain(Delta(balance, d, Week)),
        sinceUpdate |-> DaysSince(updated, d, NoUpdate),
        sincePlacement |-> DaysSince(placing, d, NoUpdate)]]

(***************************************************************************)
(* The score: rolling history, else all of the past, else missing.         *)
(***************************************************************************)
ScaledMad(hist, floor) == Larger((14826 * Mad(hist)) \div 10000, floor)
ScoreNoLookahead(s, d, window, min, floor) ==
  LET rolling == Recent(s, d, window)
      hist == IF Count(rolling) >= min THEN rolling ELSE Before(s, d)
  IN IF s[d] = NaN \/ Count(hist) < min THEN NaN
     ELSE (Unit * (s[d] - Median(hist))) \div ScaledMad(hist, floor)

\* Only a decline counts.
RoskaznaScore(s, d) ==
  LET falls == [e \in DOMAIN s |-> Minus(0, s[e])]
  IN Larger(OrZero(ScoreNoLookahead(falls, d, RoskaznaWindow, RoskaznaMin, RoskaznaFloor)), 0)

\* How far the placements of a month are below their rolling median.
PlacementGap(s, d) ==
  LET hist == Recent(s, d, RoskaznaWindow)
  IN IF Count(hist) < RoskaznaMin THEN 0 ELSE Larger(Median(hist) - s[d], 0)

TreasurySignalTable(panel) ==
  LET n == IF panel = <<>> THEN 0 ELSE Max(DOMAIN panel)
      all(column) == [d \in 1..n |-> IF d \in DOMAIN panel THEN panel[d][column] ELSE NaN]
      drain == all("drain")
      placed30 == all("placed30")
      cbr(d) == OrZero(ScoreNoLookahead(drain, d, CbrWindow, CbrMin, CbrFloor))
      roskazna(d) == RoskaznaScore(placed30, d)
  IN [d \in DOMAIN panel |->
        [cbr |-> cbr(d), roskazna |-> roskazna(d),
         drain |-> cbr(d) >= ScoreThreshold,
         drop |-> \/ roskazna(d) >= ScoreThreshold
                  \/ PlacementGap(placed30, d) >= DropThreshold,
         row |-> panel[d]]]
=============================================================================
