---------------------------- MODULE RepoSignals -----------------------------
(***************************************************************************)
(* M2, the repo auctions of the Bank of Russia: from the raw auctions of   *)
(* each day to the daily feature panel and the daily signals.              *)
(***************************************************************************)
EXTENDS RobustScores

CONSTANTS
  RepoWindow,      \* days the rolling history goes back
  RepoMin,         \* observations a rolling history needs
  RepoMinExpanding \* observations all the past needs

ASSUME RepoAssumption ==
  RepoWindow \in Nat \ {0} /\ RepoMin \in Nat \ {0} /\ RepoMinExpanding \in Nat \ {0}

Demanded == 2 * Unit
CoverFloor == Unit \div 20
SpreadFloor == Unit \div 20
VolumeFloor == 1

(***************************************************************************)
(* Events. A raw auction has what the file gives, NaN where a cell does    *)
(* not parse; seven marks the main tenor.                                  *)
(***************************************************************************)
Volume(v) == IF v = NaN THEN 0 ELSE Larger(v, 0)
Auctions(raw) == UNION {{<<d, i>> : i \in DOMAIN raw[d]} : d \in DOMAIN raw}
NoSpreads(raw) == \A a \in Auctions(raw) : raw[a[1]][a[2]].spread = NaN

CleanEvent(e, derive) ==
  LET placed == Volume(e.placement)
      asked == Volume(e.demand)
  IN [seven |-> e.seven, demand |-> asked, placement |-> placed,
      volume |-> IF placed > 0 THEN placed ELSE asked,
      cover |-> Ratio(asked, IF placed > 0 THEN placed ELSE NaN),
      spread |-> IF derive THEN Minus(e.cutoff, e.key) ELSE e.spread]

DemandedEvent(e) == Above(CleanEvent(e, FALSE).cover, Demanded)

(***************************************************************************)
(* The daily panel.                                                        *)
(***************************************************************************)
WeightedAverage(day, I, column) ==
  LET used == {i \in I : day[i][column] # NaN /\ day[i].volume > 0}
      total == Total([i \in used |-> day[i].volume])
  IN IF used = {} THEN 0
     ELSE Total([i \in used |-> day[i][column] * day[i].volume]) \div total

Neutral == [has |-> FALSE, volume |-> 0, cover |-> 0, spread |-> 0, cover7 |-> 0, spread7 |-> 0]

AggregateDailyGroup(day) ==
  LET seven == {i \in DOMAIN day : day[i].seven}
  IN [has |-> TRUE,
      volume |-> Total([i \in DOMAIN day |-> day[i].volume]),
      cover |-> WeightedAverage(day, DOMAIN day, "cover"),
      spread |-> WeightedAverage(day, DOMAIN day, "spread"),
      cover7 |-> WeightedAverage(day, seven, "cover"),
      spread7 |-> WeightedAverage(day, seven, "spread")]

\* The panel spans the first to the last auction; a day without one is neutral.
RepoPanel(raw) ==
  LET held == {d \in DOMAIN raw : raw[d] # <<>>}
      derive == NoSpreads(raw)
      Row(d) == IF d \notin held THEN Neutral
                ELSE AggregateDailyGroup([i \in DOMAIN raw[d] |-> CleanEvent(raw[d][i], derive)])
      span == {d \in DOMAIN raw : (\E e \in held : e <= d) /\ (\E e \in held : d <= e)}
  IN [d \in span |-> Row(d)]

(***************************************************************************)
(* The daily signals.                                                      *)
(***************************************************************************)
CoverSignal(f) == IF f.cover7 > 0 THEN f.cover7 ELSE f.cover
SpreadSignal(f) == IF f.spread7 # 0 THEN f.spread7 ELSE f.spread
VolumeSignal(f) == f.volume

\* Slip: HistoricalMadScore over a history that includes the current day.
WithToday(s, d, floor) ==
  LET hist == IF Count(Recent(s, d + 1, RepoWindow)) >= RepoMin
              THEN Recent(s, d + 1, RepoWindow) ELSE Before(s, Len(s) + 1)
  IN IF s[d] = NaN \/ Count(hist) < RepoMinExpanding THEN 0
     ELSE (Unit * (s[d] - Median(hist))) \div Larger(Mad(hist), floor)

\* A rolling history, all of the past when that is too short, or the neutral zero.
HistoricalMadScore(s, d, floor) ==
  LET rolling == Recent(s, d, RepoWindow)
      expanding == Before(s, d)
      hist == IF Count(rolling) >= RepoMin THEN rolling ELSE expanding
      enough == Count(rolling) >= RepoMin \/ Count(expanding) >= RepoMinExpanding
  IN IF s[d] = NaN \/ ~enough THEN 0
     ELSE (Unit * (s[d] - Median(hist))) \div Larger(Mad(hist), floor)

\* Scores run over the auction days only; every other day is neutral.
AuctionColumns(panel, n) ==
  [d \in 1..n |->
     IF d \in DOMAIN panel /\ panel[d].has
     THEN [cover |-> CoverSignal(panel[d]), spread |-> SpreadSignal(panel[d]),
           volume |-> VolumeSignal(panel[d])]
     ELSE [cover |-> NaN, spread |-> NaN, volume |-> NaN]]

RepoSignalTable(panel) ==
  IF DOMAIN panel = {} THEN panel
  ELSE LET n == Max(DOMAIN panel)
           columns == AuctionColumns(panel, n)
           cover == [d \in 1..n |-> columns[d].cover]
           spread == [d \in 1..n |-> columns[d].spread]
           volume == [d \in 1..n |-> columns[d].volume]
       IN [d \in DOMAIN panel |->
             [cover |-> HistoricalMadScore(cover, d, CoverFloor),
              spread |-> HistoricalMadScore(spread, d, SpreadFloor),
              volume |-> HistoricalMadScore(volume, d, VolumeFloor),
              demand |-> Above(cover[d], Demanded)]]
=============================================================================
