------------------------------ MODULE Backtest ------------------------------
(***************************************************************************)
(* The backtest of one episode and range: the gateway asks its cache, then *)
(* the table, then the ML service, which reads the history of the index;   *)
(* what the service says is stored and cached. The table has no key that   *)
(* would keep two of them apart, and nothing ever renews a row.            *)
(***************************************************************************)
EXTENDS Integers, FiniteSets

CONSTANTS
  Request,      \* the requests, at most one at a time each
  MaxHistory,   \* bound on the versions of the history
  MaxAsked,     \* bound on the requests
  NoAnswer      \* nothing cached, nothing found

ASSUME BacktestAssumption == MaxHistory \in Nat \ {0} /\ MaxAsked \in Nat

VARIABLES
  history,   \* lsi_dashboard.csv: its version, 0 where there is no file
  rows,      \* backtest_results: of which versions of the history there are rows
  cached,    \* the Redis entry of this episode and range
  step,      \* where each request is
  answer,    \* what it has got
  first,     \* of the requests computing when the first row was stored, those still at it
  asked      \* how many requests there have been

backtestVars == <<history, rows, cached, step, answer, first, asked>>

Answer == 1..MaxHistory

BacktestTypeOK ==
  /\ history \in 0..MaxHistory
  /\ rows \subseteq Answer
  /\ cached \in Answer \union {NoAnswer}
  /\ step \in [Request -> {"idle", "lookup", "compute", "store", "cache"}]
  /\ answer \in [Request -> Answer \union {NoAnswer}]
  /\ first \subseteq Request
  /\ asked \in 0..MaxAsked

BacktestInit ==
  /\ history \in {0, 1}
  /\ rows = {} /\ cached = NoAnswer
  /\ step = [r \in Request |-> "idle"]
  /\ answer = [r \in Request |-> NoAnswer]
  /\ first = {} /\ asked = 0

Computing == {r \in Request : step[r] \in {"compute", "store"}}

\* The request is answered, or ends in an error.
Ends(r) ==
  /\ step' = [step EXCEPT ![r] = "idle"]
  /\ answer' = [answer EXCEPT ![r] = NoAnswer]
Moves(r, to) == step' = [step EXCEPT ![r] = to]

AskCache(r) ==
  /\ step[r] = "idle" /\ asked < MaxAsked
  /\ asked' = asked + 1
  /\ \/ cached # NoAnswer /\ Ends(r)
     \* a miss, or a Redis that does not answer
     \/ Moves(r, "lookup") /\ UNCHANGED answer
  /\ UNCHANGED <<history, rows, cached, first>>

\* Slip: Lookup that goes to the service whatever the table has.
AlwaysCompute(r) ==
  /\ step[r] = "lookup"
  /\ Moves(r, "compute")
  /\ UNCHANGED <<history, rows, cached, answer, first, asked>>

\* GetBacktestResult takes one of the rows, LIMIT 1 in no order.
Lookup(r) ==
  /\ step[r] = "lookup"
  /\ \/ /\ rows = {}
        /\ Moves(r, "compute")
        /\ UNCHANGED answer
     \/ /\ \E found \in rows : answer' = [answer EXCEPT ![r] = found]
        /\ Moves(r, "cache")
  /\ UNCHANGED <<history, rows, cached, first, asked>>

\* The service reads the history, and makes it where there is none (GetBacktest, server.py).
Compute(r) ==
  /\ step[r] = "compute"
  /\ history' = IF history = 0 THEN 1 ELSE history
  /\ answer' = [answer EXCEPT ![r] = history']
  /\ Moves(r, "store")
  /\ UNCHANGED <<rows, cached, first, asked>>

\* SaveBacktestResult inserts; when its answer is lost the row is there and the request ends.
Store(r) ==
  /\ step[r] = "store"
  /\ rows' = rows \union {answer[r]}
  /\ first' = (IF rows = {} THEN Computing ELSE first) \ {r}
  /\ \/ Moves(r, "cache") /\ UNCHANGED answer
     \/ Ends(r)
  /\ UNCHANGED <<history, cached, asked>>

\* SetBacktest; an error of the cache is logged and the request answered all the same.
SetCache(r) ==
  /\ step[r] = "cache"
  /\ cached' \in {cached, answer[r]}
  /\ Ends(r)
  /\ UNCHANGED <<history, rows, first, asked>>

\* The service, or the table, fails: the request is answered with an error.
RequestFails(r) ==
  /\ step[r] \in {"lookup", "compute", "store"}
  /\ Ends(r)
  /\ first' = first \ {r}
  /\ UNCHANGED <<history, rows, cached, asked>>

\* The entry expires after 1800 s.
Expires ==
  /\ cached # NoAnswer
  /\ cached' = NoAnswer
  /\ UNCHANGED <<history, rows, step, answer, first, asked>>

\* A recalculation or a bootstrap writes the history again, and no backtest.
NewHistory ==
  /\ history < MaxHistory
  /\ history' = history + 1
  /\ UNCHANGED <<rows, cached, step, answer, first, asked>>

BacktestNext ==
  \/ \E r \in Request : \/ AskCache(r)
                        \/ Lookup(r)
                        \/ Compute(r)
                        \/ Store(r)
                        \/ SetCache(r)
                        \/ RequestFails(r)
  \/ Expires
  \/ NewHistory

(***************************************************************************)
(* Properties.                                                             *)
(***************************************************************************)
\* What has been told stands: the cache and every answer on its way out are in the table,
\* and once there is a row no request computes another, but those that were at it already:
\* an episode has as many answers as it had first requests, and never a later one.
AnswersStand ==
  /\ cached # NoAnswer => cached \in rows
  /\ \A r \in Request : step[r] = "cache" => answer[r] \in rows
  /\ rows # {} => Computing \subseteq first
=============================================================================
