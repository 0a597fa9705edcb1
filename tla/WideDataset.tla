---------------------------- MODULE WideDataset -----------------------------
(***************************************************************************)
(* The daily datasets the index is calculated from: build_wide_dataset     *)
(* reads the tables of the modules as it finds them, lays them over one    *)
(* calendar, lets the score of an event fade over the rows after it and    *)
(* adds the season.                                                        *)
(***************************************************************************)
EXTENDS DailyTables

CONSTANTS
  DecayDays,   \* rows a score fades over: 2, 3 and 4 in the code
  Decay,       \* what is left of it after a row, in percent: 65, 75 and 80
  TaxEvent,    \* days with a tax event in the calendar
  MonthEnd,    \* the last three days of the months
  QuarterEnd   \* those of the quarters

ASSUME WideAssumption ==
  /\ DecayDays \in Nat /\ Decay \in 0..100
  /\ TaxEvent \subseteq Int /\ MonthEnd \subseteq Int /\ QuarterEnd \subseteq MonthEnd

\* The calendar goes on to today, whatever day the tables end on.
Calendar == 1..MaxRows

\* A missing table has no date to merge on: the whole dataset is not built.
Buildable ==
  CASE module = "reserves" -> signals # NoTable
    [] module = "ofz" -> signals # NoTable
    [] OTHER -> features # NoTable /\ signals # NoTable

\* The row of day d in a table, a neutral one where there is none.
At(table, d, neutral) == IF d \in DOMAIN table.rows THEN table.rows[d] ELSE neutral

\* What the module's tables say of day d, merged on the date: has there been an event, and
\* the scores of the signals, zero where there is none. M1 has no events and nothing fades.
M1Daily(d) == LET s == At(signals, d, [madSpread |-> 0, madRuonia |-> 0])
              IN [event |-> FALSE, scores |-> <<s.madSpread, s.madRuonia>>]
M2Daily(d) == LET s == At(signals, d, [cover |-> 0, spread |-> 0, volume |-> 0])
              IN [event |-> At(features, d, Neutral).has,
                  scores |-> <<s.cover, s.spread, s.volume>>]
M3Daily(d) == LET neutral == [has |-> FALSE, madCover |-> 0, madSpread |-> 0]
                  r == At(signals, d, [row |-> neutral]).row
              IN [event |-> r.has, scores |-> <<r.madCover, OrZero(r.madSpread)>>]
M5Daily(d) == LET f == At(features, d, [sinceUpdate |-> NoUpdate, placed |-> 0])
                  s == At(signals, d, [cbr |-> 0, roskazna |-> 0])
              IN [event |-> f.sinceUpdate = 0 \/ f.placed > 0, scores |-> <<s.cbr, s.roskazna>>]
Daily(d) == CASE module = "reserves" -> M1Daily(d)
              [] module = "repo" -> M2Daily(d)
              [] module = "ofz" -> M3Daily(d)
              [] module = "treasury" -> M5Daily(d)
Event(d) == Daily(d).event
Score(c, d) == Daily(d).scores[c]
Column == DOMAIN Daily(1).scores

(***************************************************************************)
(* The fading. The flag column holds 0 or 1, and what is carried forward   *)
(* from an event is that 1: every row counts its distance from row 1 of    *)
(* the table (rows from 0), day 2, whichever day the event was on.         *)
(***************************************************************************)
EventSeen(d) == \E e \in 1..d : Event(e)
FlaggedDay == 2
Power(base) == LET p[n \in Nat] == IF n = 0 THEN 1 ELSE base * p[n - 1] IN p
Fade(v, rows) == (v * Power(Decay)[rows]) \div Power(100)[rows]

\* Slip: ApplyDecay without the bound on the distance.
FadeOn(c, d) ==
  IF Score(c, d) # 0 \/ ~EventSeen(d) \/ d <= FlaggedDay THEN Score(c, d)
  ELSE Fade(Score(c, FlaggedDay), d - FlaggedDay)

ApplyDecay(c, d) ==
  IF Score(c, d) # 0 \/ ~EventSeen(d) \/ d - FlaggedDay \notin 1..DecayDays THEN Score(c, d)
  ELSE Fade(Score(c, FlaggedDay), d - FlaggedDay)

(***************************************************************************)
(* M4, the season: what the faded scores are on average on the days of a   *)
(* type, over all the calendar. Of the seven scores that are averaged the  *)
(* other modules' are neutral here, and those of M3 do not count.          *)
(***************************************************************************)
DayType(d) == <<\E e \in TaxEvent : Distance(d, e) <= 1, d \in MonthEnd, d \in QuarterEnd>>
Ordinary == <<FALSE, FALSE, FALSE>>
DaysLike(d) == {e \in Calendar : DayType(e) = DayType(d)}
TypeStress(d) ==
  IF module = "ofz" THEN 0
  ELSE Total([c \in Column |-> Total([e \in DaysLike(d) |-> ApplyDecay(c, e)])])
         \div (7 * Cardinality(DaysLike(d)))
MaxStress == Max({TypeStress(d) : d \in Calendar})

DaySeason(d, max) ==
  IF DayType(d) = Ordinary \/ max <= 0 THEN 100
  ELSE Smaller(Larger(100 + (40 * TypeStress(d)) \div max, 100), 140)

(***************************************************************************)
(* Properties.                                                             *)
(***************************************************************************)
\* A score in the daily dataset is the signal's of the day, or what is left of one of at
\* most DecayDays days before: nothing fades for longer, grows while it fades, or fades
\* before there was an event (_apply_decay).
DecayFades ==
  Buildable =>
    \A c \in Column, d \in Calendar :
      ApplyDecay(c, d) # Score(c, d) =>
        \E e \in 1..(d - 1) : /\ d - e <= DecayDays /\ Score(c, e) # 0
                              /\ Distance(ApplyDecay(c, d), 0) <= Distance(Score(c, e), 0)
                              /\ EventSeen(d)

\* The season amplifies only where there was stress at the same point of the season: a day
\* with a factor above one is no ordinary day, and on a day of its type a score was positive.
SeasonHasCause ==
  Buildable =>
    LET max == MaxStress IN \A d \in Calendar : DaySeason(d, max) > 100 =>
      /\ d \in MonthEnd \/ \E e \in TaxEvent : Distance(d, e) <= 1
      /\ \E e \in DaysLike(d), c \in Column : ApplyDecay(c, e) > 0

\* No flag and no season comes out of nothing: every one has its cause in the data.
FlagsHaveCause == StressIsExplained /\ DemandHasWitness /\ FlagsAreFalls /\ SeasonHasCause
=============================================================================
