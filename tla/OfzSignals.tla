----------------------------- MODULE OfzSignals -----------------------------
(***************************************************************************)
(* M3, the OFZ auctions of the Ministry of Finance: the daily panel with   *)
(* what the last auction left behind, the explainable stress score, and    *)
(* the states the dashboard shows.                                         *)
(***************************************************************************)
EXTENDS RobustScores

CONSTANTS
  StaleAfter,  \* days the last auction is carried: MAX_FFILL_STALENESS_DAYS
  OfzWindow,   \* days the rolling history goes back
  OfzMin,      \* observations it needs
  YieldRows    \* rows above which the score of the yield spread counts

ASSUME OfzAssumption ==
  StaleAfter \in Nat /\ OfzWindow \in Nat \ {0} /\ OfzMin \in Nat \ {0} /\ YieldRows \in Nat

Never == 9999
CoverClip == 10 * Unit
StressThreshold == 600  \* in thousandths

(***************************************************************************)
(* One day. Of two rows for one issue the later in the file counts.        *)
(***************************************************************************)
DistinctIssues(day) ==
  {i \in DOMAIN day : \A j \in DOMAIN day : day[j].issue = day[i].issue => j <= i}
SumKnown(day, column) ==
  LET known == {i \in DistinctIssues(day) : day[i][column] # NaN}
  IN IF known = {} THEN NaN ELSE Total([i \in known |-> day[i][column]])
WeightedMean(day, column) ==
  LET used == {i \in DistinctIssues(day) : day[i][column] # NaN /\ Above(day[i].placement, 0)}
      total == Total([i \in used |-> day[i].placement])
  IN IF used = {} THEN NaN
     ELSE Total([i \in used |-> day[i][column] * day[i].placement]) \div total
Clipped(v) == IF v = NaN THEN NaN ELSE Smaller(v, CoverClip)

AggDay(day) ==
  IF day = <<>> THEN [has |-> FALSE, cover |-> NaN, placed |-> NaN, spread |-> NaN]
  ELSE [has |-> TRUE,
        cover |-> Ratio(SumKnown(day, "demand"), SumKnown(day, "offer")),
        placed |-> Ratio(SumKnown(day, "placement"), SumKnown(day, "offer")),
        spread |-> WeightedMean(day, "spread")]

(***************************************************************************)
(* The stress of one row.                                                  *)
(***************************************************************************)
WeakCover(cover) ==
  IF Below(cover, 100) THEN 10 ELSE IF Below(cover, 120) THEN 8
  ELSE IF Below(cover, 150) THEN 4 ELSE 0
\* Three grades; the mildest asks for an undersubscribed auction.
WeakPlacement(cover, placed) ==
  IF Below(placed, 30) /\ Below(cover, 150) THEN 10
  ELSE IF Below(placed, 50) /\ Below(cover, 150) THEN 7
  ELSE IF Below(placed, 80) /\ Below(cover, 120) THEN 4 ELSE 0
\* How far a score is out, downwards for cover and upwards for the spread.
Outlying(score) ==
  IF score > 300 THEN 10 ELSE IF score > 200 THEN 7 ELSE IF score > 100 THEN 3 ELSE 0

\* Slip: StressScore with the weights of cover and of its MAD score swapped.
SwappedWeights(cover, placed, madCover, madSpread) ==
  15 * WeakCover(cover) + 30 * WeakPlacement(cover, placed)
    + 45 * Outlying(-madCover) + 10 * Outlying(madSpread)

StressScore(cover, placed, madCover, madSpread) ==
  45 * WeakCover(cover) + 30 * WeakPlacement(cover, placed)
    + 15 * Outlying(-madCover) + 10 * Outlying(madSpread)

Nedospros(row) == row.has /\ Below(row.cover, 120)
Perespros(row) == row.has /\ Above(row.cover, 200)
PlacementStress(row) == row.has /\ Below(row.placed, 50) /\ Below(row.cover, 150)

(***************************************************************************)
(* The daily panel, up to the last auction.                                *)
(***************************************************************************)
OfzMadScore(s, d) ==
  LET hist == Recent(s, d, OfzWindow)
  IN IF s[d] = NaN \/ Count(hist) < OfzMin \/ Mad(hist) = 0 THEN 0
     ELSE (6745 * (s[d] - Median(hist))) \div (100 * Mad(hist))

\* Slip: LastKnown that fills without a limit.
FillForever(s, d) == Carried(s, d, Len(s))

LastKnown(s, d) == Carried(s, d, StaleAfter)

OfzPanel(raw) ==
  LET held == {d \in DOMAIN raw : raw[d] # <<>>}
      n == IF held = {} THEN 0 ELSE Max(held)
      day == [d \in 1..n |-> AggDay(raw[d])]
      cover == [d \in 1..n |-> Clipped(day[d].cover)]
      spread == [d \in 1..n |-> day[d].spread]
      lastCover == [d \in 1..n |-> LastKnown(cover, d)]
      lastSpread == [d \in 1..n |-> LastKnown(spread, d)]
      scored == Count(Known(lastSpread, 1..n)) >= OfzMin
      Row(d, agg, days) ==
        [has |-> agg.has, cover |-> agg.cover, placed |-> agg.placed,
         lastCover |-> lastCover[d], lastSpread |-> lastSpread[d],
         days |-> days, stale |-> days > StaleAfter,
         madCover |-> OfzMadScore(lastCover, d),
         madSpread |-> IF scored THEN OfzMadScore(lastSpread, d) ELSE NaN]
  IN [d \in 1..n |-> Row(d, day[d], DaysSince(held, d, Never))]

AddStressSignals(panel) ==
  LET counts == Cardinality({d \in DOMAIN panel : panel[d].madSpread # NaN}) > YieldRows
      Score(row) ==
        IF ~row.has THEN 0
        ELSE StressScore(row.cover, row.placed, row.madCover,
                         IF counts THEN row.madSpread ELSE 0)
      Stressed(row, score) == [row |-> row, stress |-> score, flag |-> score >= StressThreshold]
  IN [d \in DOMAIN panel |-> LET row == panel[d] IN Stressed(row, Score(row))]

(***************************************************************************)
(* The states of the dashboard.                                            *)
(***************************************************************************)
AuctionState(row) ==
  IF ~row.has THEN "no_auction" ELSE IF Nedospros(row) THEN "nedospros"
  ELSE IF Perespros(row) THEN "perespros" ELSE "neutral"
Alert(score) == score # NaN /\ Distance(score, 0) >= 200
DailySignalState(row) ==
  IF AuctionState(row) \in {"nedospros", "perespros"} THEN AuctionState(row)
  ELSE IF row.stale THEN "stale"
  ELSE IF Alert(row.madCover) THEN "cover_mad_alert"
  ELSE IF Alert(row.madSpread) THEN "yield_spread_mad_alert" ELSE "neutral"

OfzSignalTable(features) ==
  [d \in DOMAIN features |->
     [row |-> features[d].row, stress |-> features[d].stress, flag |-> features[d].flag,
      state |-> DailySignalState(features[d].row)]]
=============================================================================
