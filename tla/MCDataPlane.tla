----------------------------- MODULE MCDataPlane ----------------------------
(***************************************************************************)
(* One run over the parts of the data plane. They share no state, so that  *)
(* a behaviour of the run is one of a single part: its states are the sum  *)
(* of the parts', not their product.                                       *)
(***************************************************************************)
EXTENDS RawFiles, WideDataset, LsiFormula, ModelArtifacts, EksDeposits, Backtest, TLC

CONSTANTS u1, u2, u3  \* XML files of the treasury, by the day of the auction

VARIABLE part  \* the part that runs

vars == <<part, rawVars, tableVars, formulaVars, artifactVars, eksVars, backtestVars>>

\* Rows of the raw files.
Averages(a, r, u) == [actual |-> a, required |-> r, ruonia |-> u]
Auction(s, d, p, c, k, sp) ==
  [seven |-> s, demand |-> d, placement |-> p, cutoff |-> c, key |-> k, spread |-> sp]
Bond(i, o, d, p, s) == [issue |-> i, offer |-> o, demand |-> d, placement |-> p, spread |-> s]
Treasury(b, s, n, p) == [balance |-> b, structural |-> s, banks |-> n, placement |-> p]

MCRawDay(m) ==
  CASE m = "reserves" ->
         {<<>>, <<Averages(30, 10, NaN)>>, <<Averages(NaN, NaN, 16)>>,
          <<Averages(40, NaN, 14), Averages(20, 10, NaN)>>, <<Averages(90, 20, 20)>>}
    [] m = "repo" ->
         {<<>>, <<Auction(TRUE, 5, 1, 16, 15, 1)>>, <<Auction(FALSE, 2, 1, 16, 15, NaN)>>,
          <<Auction(FALSE, 1, 1, 14, 15, NaN), Auction(FALSE, 9, 0, NaN, 15, NaN)>>}
    [] m = "ofz" ->
         {<<>>,
          <<Bond("a", 100, 200, 100, 5), Bond("b", NaN, 100, NaN, NaN)>>,
          <<Bond("a", 100, 310, 100, 6)>>, <<Bond("a", 100, 140, 90, 50)>>}
    [] m = "treasury" ->
         {<<>>, <<Treasury(1000, NaN, 3, NaN)>>, <<Treasury(100, NaN, NaN, 6000)>>,
          <<Treasury(NaN, 5, NaN, 9000), Treasury(700, NaN, 2, 1)>>}

MCScoreValue == {-70, 0, 30}
MCSeasonValue == {100, 120, 140}
MCPredict(s) == 40 + s["M1_spread"] - s["M3_cover"]
MCPredictWide(s) == 50 + s["M2_cover"]
MCDumpOrder == <<"iso", "scaler", "history_lsi">>
\* The first file is linked under its day and the next; the other two have one name, and
\* the label of the second, whose record has no date, is a day late.
MCDayOf == [u \in Url |-> CASE u = u1 -> 1 [] u = u2 -> 2 [] u = u3 -> 3]
MCNameOf == [u \in Url |-> IF u = u1 THEN 1 ELSE 2]
MCLink == {<<1, u1>>, <<2, u1>>, <<3, u2>>, <<3, u3>>}

\* A part that does not run stays in one of its initial states.
Init ==
  /\ part \in {"files", "tables", "formula", "artifacts", "eks", "backtest"}
  /\ RawInit /\ (part = "files" \/ source = "ruonia")
  /\ TableInit /\ (part = "tables" \/ module = "reserves")
  /\ FormulaInit /\ (part = "formula" \/ ~model)
  /\ ArtifactsInit
  /\ EksInit
  /\ BacktestInit /\ (part = "backtest" \/ history = 0)

Next ==
  /\ UNCHANGED part
  /\ \/ /\ part = "files"
        /\ RawNext
        /\ UNCHANGED <<tableVars, formulaVars, artifactVars, eksVars, backtestVars>>
     \/ /\ part = "tables"
        /\ TableNext
        /\ UNCHANGED <<rawVars, formulaVars, artifactVars, eksVars, backtestVars>>
     \/ /\ part = "formula"
        /\ FormulaNext
        /\ UNCHANGED <<rawVars, tableVars, artifactVars, eksVars, backtestVars>>
     \/ /\ part = "artifacts"
        /\ ArtifactsNext
        /\ UNCHANGED <<rawVars, tableVars, formulaVars, eksVars, backtestVars>>
     \/ /\ part = "eks"
        /\ EksNext
        /\ UNCHANGED <<rawVars, tableVars, formulaVars, artifactVars, backtestVars>>
     \/ /\ part = "backtest"
        /\ BacktestNext
        /\ UNCHANGED <<rawVars, tableVars, formulaVars, artifactVars, eksVars>>

Spec == Init /\ [][Next]_vars

\* The variables of every part are of their types (RawTypeOK, TableTypeOK, FormulaTypeOK,
\* ArtifactsTypeOK, EksTypeOK, BacktestTypeOK).
PartsTypeOK ==
  /\ RawTypeOK /\ TableTypeOK /\ FormulaTypeOK /\ ArtifactsTypeOK /\ EksTypeOK /\ BacktestTypeOK
=============================================================================
