----------------------------- MODULE DailyTables ----------------------------
(***************************************************************************)
(* The daily tables of M2, M3 and M5 as their notebooks keep them, and the *)
(* one table of M1: raw days arrive, the first notebook writes the feature *)
(* panel of all of them again, the second the signals of what it finds.    *)
(***************************************************************************)
EXTENDS ReservesSignals, RepoSignals, OfzSignals, TreasurySignals

CONSTANTS
  RawDay(_),  \* what a day of the raw file of a module may be: a sequence of rows
  MaxRows     \* bound on the days of a raw file

Module == {"reserves", "repo", "ofz", "treasury"}

\* The columns that are parsed as numbers.
NumberColumn(m) ==
  CASE m = "reserves" -> {"actual", "required", "ruonia"}
    [] m = "repo" -> {"demand", "placement", "cutoff", "key", "spread"}
    [] m = "ofz" -> {"offer", "demand", "placement", "spread"}
    [] m = "treasury" -> {"balance", "structural", "banks", "placement"}

ASSUME TablesAssumption ==
  /\ MaxRows \in Nat
  /\ \A m \in Module : \A day \in RawDay(m) :
       /\ Len(day) \in Nat /\ DOMAIN day = 1..Len(day)
       /\ \A i \in DOMAIN day : \A c \in NumberColumn(m) : day[i][c] \in Number

NoTable == <<>>  \* a file that is not there

VARIABLES
  module,    \* whose tables these are
  raw,       \* the raw file, day by day
  features,  \* the feature table, with the rule its spreads follow
  signals    \* the signal table

tableVars == <<module, raw, features, signals>>

FeatureRows(m, r) ==
  CASE m = "reserves" -> ReservesTable(r)
    [] m = "repo" -> RepoPanel(r)
    [] m = "ofz" -> AddStressSignals(OfzPanel(r))
    [] m = "treasury" -> TreasuryPanel(r)
SignalRows(m, f) ==
  CASE m = "reserves" -> f
    [] m = "repo" -> RepoSignalTable(f)
    [] m = "ofz" -> OfzSignalTable(f)
    [] m = "treasury" -> TreasurySignalTable(f)

TableTypeOK ==
  /\ module \in Module
  /\ raw \in Seq(UNION {RawDay(m) : m \in Module}) /\ Len(raw) <= MaxRows
  /\ features = NoTable => signals = NoTable
  /\ \A table \in {features, signals} \ {NoTable} :
       /\ table.derived \in BOOLEAN
       /\ DOMAIN table.rows \subseteq DOMAIN raw

TableInit ==
  /\ module \in Module
  /\ raw = <<>> /\ features = NoTable /\ signals = NoTable

NewDay ==
  /\ Len(raw) < MaxRows
  /\ \E day \in RawDay(module) : raw' = Append(raw, day)
  /\ UNCHANGED <<module, features, signals>>

\* A raw file without a single row has no calendar: the notebook fails.
RunFeatures ==
  /\ \E d \in DOMAIN raw : raw[d] # <<>>
  /\ features' = [rows |-> FeatureRows(module, raw),
                  derived |-> IF module = "repo" THEN NoSpreads(raw) ELSE FALSE]
  /\ UNCHANGED <<module, raw, signals>>

RunSignals ==
  /\ features # NoTable
  /\ signals' = [rows |-> SignalRows(module, features.rows), derived |-> features.derived]
  /\ UNCHANGED <<module, raw, features>>

TableNext == NewDay \/ RunFeatures \/ RunSignals

(***************************************************************************)
(* Properties.                                                             *)
(***************************************************************************)
Signals == IF signals = NoTable THEN <<>> ELSE signals.rows
SignalsOf(m) == IF module = m THEN Signals ELSE <<>>

\* What is settled on the day itself. The score of the M3 yield spread is not: it
\* appears in all rows at once when the file has enough of them, and with it the stress.
Settled(row) ==
  IF module # "ofz" THEN row
  ELSE LET r == row.row
       IN <<r.has, r.cover, r.placed, r.lastCover, r.lastSpread, r.days, r.stale, r.madCover>>

\* No day looks ahead: a signal already written for a day is the same after any later day
\* has arrived and all tables have been built again ("no-lookahead" in m2-002 and m5-002,
\* "shift(1) prevents current-day leakage" in m3-001). The one exception the code makes:
\* the first spread in the repo file ends the derivation of all the missing ones.
NoLookahead ==
  [][signals' = signals
     \/ \A d \in DOMAIN Signals :
          signals.derived = signals'.derived => /\ d \in DOMAIN Signals'
                                                /\ Settled(Signals[d]) = Settled(Signals'[d])
    ]_tableVars

\* What is carried forward is never older than the limit: on a row marked stale no value of
\* an earlier auction is left (ffill(limit), days_since_last_auction and
\* is_stale_auction_info of build_daily_panel are computed apart).
CarriedIsRecent ==
  \A d \in DOMAIN SignalsOf("ofz") :
    LET r == Signals[d].row
    IN r.stale => r.lastCover = NaN /\ r.lastSpread = NaN

\* The stress flag of add_stress_signals explains itself: whatever the MAD scores are, it is
\* up only on a day with an auction that was undersubscribed or badly placed.
StressIsExplained ==
  \A d \in DOMAIN SignalsOf("ofz") :
    Signals[d].flag => Nedospros(Signals[d].row) \/ PlacementStress(Signals[d].row)

\* A day with Flag_Demand in the signals of M2 had an auction that was oversubscribed by
\* itself: the averages and the choice of tenor never make the flag out of nothing.
DemandHasWitness ==
  \A d \in DOMAIN SignalsOf("repo") :
    Signals[d].demand => \E i \in DOMAIN raw[d] : DemandedEvent(raw[d][i])

\* The flags of M5 are about falls: a drained budget has a balance below the one of a week
\* ago, by an update of that week, and dropped placements are below an earlier month's.
FlagsAreFalls ==
  \A d \in DOMAIN SignalsOf("treasury") :
    LET s == Signals[d]
    IN /\ s.drain => s.row.weekly < 0 /\ s.row.sinceUpdate < Week
       /\ s.drop => \E e \in DOMAIN Signals : e < d /\ s.row.placed30 < Signals[e].row.placed30
=============================================================================
