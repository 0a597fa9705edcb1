----------------------------- MODULE LsiFormula -----------------------------
(***************************************************************************)
(* The index of one snapshot: the formula over the scores and flags of the *)
(* modules, the trained model that takes its place where there is one, the *)
(* contributions of the modules and the attributions of the features.      *)
(*                                                                         *)
(* Scores are in tenths, percentages in hundredths. The sigmoid that turns *)
(* stress into an index of 0 to 100 is increasing: the stress itself       *)
(* stands for the index.                                                   *)
(***************************************************************************)
EXTENDS Integers

CONSTANTS
  ScoreValue,      \* what a MAD score may be
  SeasonValue,     \* what M4_Seasonal_Factor may be
  Predict(_),      \* the isolation forest's index of a snapshot (scikit-learn)
  PredictWide(_),  \* its index of the same day from the features of the whole table
  DayIndex,        \* the index of the day in the history the model was trained with
  NoIndex,         \* there is none
  MaxChanges       \* bound on the changes of the snapshot

ASSUME FormulaAssumption ==
  /\ ScoreValue \subseteq Int /\ 0 \in ScoreValue
  /\ SeasonValue \subseteq Int /\ 100 \in SeasonValue
  /\ MaxChanges \in Nat
  /\ DayIndex \in 0..100 /\ NoIndex \notin Int

DirectScore == {"M1_spread", "M1_RUONIA", "M2_cover", "M2_rate_spread", "M2_repo_volume",
                "M3_yield_spread"}
InverseScore == {"M3_cover", "M5_CBR", "M5_Roskazna"}
Flag == {"M1_EndOfPeriod", "M2_Demand", "M3_Nedospros", "M3_Perespros", "M5_Budget_Drain"}
Season == "M4_Seasonal_Factor"
Feature == DirectScore \union InverseScore \union Flag \union {Season}

VARIABLES
  snapshot,  \* the value of every feature
  model,     \* is a model loaded?
  memory,    \* the day in the history_lsi of the loaded model
  result,    \* what calculate_lsi_from_snapshot and the explainer return
  shown,     \* what the history of the index shows of the day, by this model
  changes    \* how often anything has changed

formulaVars == <<snapshot, model, memory, result, shown, changes>>

ValueOf(f) == IF f = Season THEN SeasonValue ELSE IF f \in Flag THEN {0, 1} ELSE ScoreValue
Snapshot == {s \in [Feature -> Int] : \A f \in Feature : s[f] \in ValueOf(f)}
Baseline(f) == IF f = Season THEN 100 ELSE 0

Cap == 60
Clip(v, low, high) == IF v < low THEN low ELSE IF v > high THEN high ELSE v
Stress(v) == Clip(v, 0, Cap)
InverseStress(v) == Clip(-v, 0, Cap)
FlagBonus(flag, value) == IF flag = 1 THEN value ELSE 0

M1(s) == 60 * Stress(s["M1_spread"]) + 30 * Stress(s["M1_RUONIA"])
         + 10 * FlagBonus(s["M1_EndOfPeriod"], 20)
M2(s) == 45 * Stress(s["M2_cover"]) + 35 * Stress(s["M2_rate_spread"])
         + 10 * Stress(s["M2_repo_volume"]) + 10 * FlagBonus(s["M2_Demand"], 20)
\* Slip: M3 with the sign of the cover ratio the other way round.
StrongDemand(s) == 55 * Stress(s["M3_cover"]) + 20 * Stress(s["M3_yield_spread"])
                   + 15 * FlagBonus(s["M3_Nedospros"], 20) - 10 * FlagBonus(s["M3_Perespros"], 10)
M3(s) == 55 * InverseStress(s["M3_cover"]) + 20 * Stress(s["M3_yield_spread"])
         + 15 * FlagBonus(s["M3_Nedospros"], 20) - 10 * FlagBonus(s["M3_Perespros"], 10)
M5(s) == 60 * InverseStress(s["M5_CBR"]) + 25 * InverseStress(s["M5_Roskazna"])
         + 15 * FlagBonus(s["M5_Budget_Drain"], 20)

\* The weights are in tenths; M4 has none, it is a factor.
BaseStress(s) == 2 * M1(s) + 3 * M2(s) + 2 * M3(s) + 3 * M5(s)
SeasonalFactor(s) == Clip(s[Season], 80, 125)
AdjustedStress(s) == BaseStress(s) * SeasonalFactor(s) * 115

(***************************************************************************)
(* calculate_lsi_from_snapshot: the model's index where it has one, the    *)
(* formula's otherwise; the contributions are the formula's in any case.   *)
(* What the model remembers of the day, m, comes before what it predicts.  *)
(***************************************************************************)
LookupLsiByDate(m) == m
PredictForSnapshot(s) == IF model THEN Clip(Predict(s), 0, 100) ELSE NoIndex

\* Slip: Index that predicts first.
PredictFirst(m, s) ==
  IF PredictForSnapshot(s) # NoIndex THEN PredictForSnapshot(s)
  ELSE IF LookupLsiByDate(m) # NoIndex THEN LookupLsiByDate(m)
  ELSE AdjustedStress(s)

Index(m, s) ==
  IF LookupLsiByDate(m) # NoIndex THEN LookupLsiByDate(m)
  ELSE IF PredictForSnapshot(s) # NoIndex THEN PredictForSnapshot(s)
  ELSE AdjustedStress(s)

Contributions(s) ==
  [M1 |-> 20000 * M1(s), M2 |-> 30000 * M2(s), M3 |-> 20000 * M3(s), M5 |-> 30000 * M5(s),
   M4 |-> AdjustedStress(s) - 10000 * BaseStress(s)]

\* What leaving out one feature takes from the index; features that take nothing are not listed.
ShapValue(m, s, f) == Index(m, s) - Index(m, [s EXCEPT ![f] = Baseline(f)])
ShapValues(m, s) == LET listed == {f \in Feature : ShapValue(m, s, f) # 0}
                    IN [f \in listed |-> ShapValue(m, s, f)]

Outcome(m, s) ==
  [index |-> Index(m, s), version |-> IF model THEN "iso" ELSE "formula",
   contributions |-> Contributions(s), shap |-> ShapValues(m, s)]

FormulaTypeOK ==
  /\ snapshot \in Snapshot
  /\ model \in BOOLEAN
  /\ memory \in (0..100) \union {NoIndex} /\ (memory # NoIndex => model)
  /\ DOMAIN result.shap \subseteq Feature /\ result.version \in {"iso", "formula"}
  /\ shown \in (0..100) \union {NoIndex}
  /\ changes \in 0..MaxChanges

FormulaInit ==
  /\ snapshot = [f \in Feature |-> Baseline(f)]
  /\ model \in BOOLEAN
  /\ memory \in IF model THEN {DayIndex, NoIndex} ELSE {NoIndex}
  /\ result = Outcome(memory, snapshot)
  /\ shown = NoIndex
  /\ changes = 0

Changes == changes < MaxChanges /\ changes' = changes + 1

\* The day is calculated after one of its features has changed.
Calculate(f, v) ==
  /\ Changes
  /\ snapshot' = [snapshot EXCEPT ![f] = v]
  /\ result' = Outcome(memory, snapshot')
  /\ UNCHANGED <<model, memory, shown>>

\* predict_lsi_for_wide_df: its answer for the day joins the history the model remembers.
PredictLsiForWideDf == IF model THEN {Clip(PredictWide(snapshot), 0, 100), memory} ELSE {NoIndex}

\* The history of the index is calculated; where the prediction fails its rows are the days'.
CalculateHistory ==
  /\ Changes
  /\ memory' \in PredictLsiForWideDf
  /\ result' = Outcome(memory', snapshot)
  /\ shown' = memory'
  /\ UNCHANGED <<snapshot, model>>

\* The process starts anew, with another model or without one.
LoadModel ==
  /\ Changes
  /\ model' \in BOOLEAN
  /\ memory' \in IF model' THEN {DayIndex, NoIndex} ELSE {NoIndex}
  /\ shown' = NoIndex
  /\ UNCHANGED <<snapshot, result>>

FormulaNext ==
  \/ \E f \in Feature : \E v \in ValueOf(f) : Calculate(f, v)
  \/ CalculateHistory
  \/ LoadModel

(***************************************************************************)
(* Properties.                                                             *)
(***************************************************************************)
\* A feature that shows stress, and one that shows relief; the season amplifies what is
\* there, so that its sign is the one of the stress it multiplies.
Pushes(s, f) ==
  \/ f \in DirectScore /\ s[f] > 0
  \/ f \in InverseScore /\ s[f] < 0
  \/ f \in Flag \ {"M3_Perespros"} /\ s[f] = 1
  \/ f = Season /\ (s[f] - 100) * BaseStress(s) > 0
Relieves(s, f) ==
  \/ f = "M3_Perespros" /\ s[f] = 1
  \/ f = Season /\ (s[f] - 100) * BaseStress(s) < 0

\* The formula explains itself: a feature is named as raising the index only when it shows
\* stress and as lowering it only when it shows relief (calculate_formula_shap).
ShapFollowsStress ==
  result.version = "formula" =>
    \A f \in DOMAIN result.shap :
      /\ result.shap[f] > 0 => Pushes(snapshot, f)
      /\ result.shap[f] < 0 => Relieves(snapshot, f)

\* A day that the history shows keeps its index: a calculation of the day by the same model
\* gives what the history says, whatever has become of the day's features ("the path
\* actually used by the dashboard / backtest / history flow", predict_lsi_for_wide_df).
HistoryStands == shown # NoIndex => result.index = shown
=============================================================================
