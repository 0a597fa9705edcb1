--------------------------- MODULE ReservesSignals --------------------------
(***************************************************************************)
(* M1, required reserves and RUONIA: one table over the whole calendar,    *)
(* scored with the rolling score of the package, whose window ends on the  *)
(* day itself.                                                             *)
(***************************************************************************)
EXTENDS RobustScores

CONSTANTS
  ScoreWindow,  \* rows of the rolling window
  ScoreMin,     \* values a window needs
  RuoniaLimit   \* days a RUONIA rate is carried

ASSUME ReservesAssumption ==
  ScoreWindow \in Nat \ {0} /\ ScoreMin \in Nat \ {0} /\ RuoniaLimit \in Nat

\* Rows of one date are averaged.
DayMean(day, column) ==
  LET known == {i \in DOMAIN day : day[i][column] # NaN}
  IN IF known = {} THEN NaN
     ELSE Total([i \in known |-> day[i][column]]) \div Cardinality(known)

\* Missing when the window is too short or does not vary.
WindowScore(v, hist) ==
  IF v = NaN \/ Count(hist) < ScoreMin \/ Mad(hist) = 0 THEN NaN
  ELSE (6745 * (v - Median(hist))) \div (100 * Mad(hist))

\* The rolling window, then all the rows so far, then zero.
RollingMadScore(s, d) ==
  LET rolling == WindowScore(s[d], Recent(s, d + 1, ScoreWindow))
  IN IF rolling # NaN THEN rolling ELSE OrZero(WindowScore(s[d], Before(s, d + 1)))

ReservesTable(raw) ==
  LET daily(column) == [d \in DOMAIN raw |-> DayMean(raw[d], column)]
      actual == daily("actual")
      required == daily("required")
      rate == daily("ruonia")
      spread == [d \in DOMAIN raw |-> Minus(Carried(actual, d, d), Carried(required, d, d))]
      ruonia == [d \in DOMAIN raw |-> Carried(rate, d, RuoniaLimit)]
  IN [d \in DOMAIN raw |->
        [spread |-> spread[d], ruonia |-> ruonia[d],
         madSpread |-> RollingMadScore(spread, d), madRuonia |-> RollingMadScore(ruonia, d)]]
=============================================================================
