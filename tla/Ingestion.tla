----------------------------- MODULE Ingestion -----------------------------
(***************************************************************************)
(* BaseParser.run_latest_mode of several ML handlers: each walks through   *)
(* the same list of sources on one connection and one transaction, which   *)
(* nothing commits. Rows of data_sources are locked by the transaction     *)
(* that upserts them and released when it ends.                            *)
(***************************************************************************)
EXTENDS Naturals

CONSTANTS
  Handler,   \* parser runs: recalculations, the bootstrap's historical mode
  N,         \* number of sources, in the order of build_default_parsers
  MaxFaults  \* bound on SQL errors and on PostgreSQL going down

ASSUME IngestionAssumption == N \in Nat /\ MaxFaults \in Nat

Source == 1..N

VARIABLES
  pc,       \* the next step of each run
  next,     \* the source it is at
  conn,     \* its Database: none (db is None), a transaction's state, or lost
  locks,    \* data_sources rows its transaction has upserted
  fetched,  \* what the parser of the current source returned
  results,  \* the list of ParserRunResult, by source
  up,       \* PostgreSQL accepts connections
  faults,   \* faults so far
  own,      \* history: what each source's own parser did, "none" before it ran
  faulted   \* history: runs one of whose statements failed

database == <<conn, locks, faulted>>
vars == <<pc, next, database, fetched, results, up, faults, own>>

Status == {"success", "failed"}  \* "success" stands for "stale" too
Live(h) == conn[h] = "open" \/ (conn[h] = "closed" /\ up)

TypeOK ==
  /\ pc \in [Handler -> {"start", "register", "fetch", "status", "except", "end", "stopped"}]
  /\ next \in [Handler -> 1..(N + 1)]
  /\ conn \in [Handler -> {"none", "open", "aborted", "broken", "closed"}]
  /\ locks \in [Handler -> SUBSET Source]
  /\ fetched \in [Handler -> Status]
  /\ results \in [Handler -> [Source -> Status \cup {"none"}]]
  /\ own \in [Handler -> [Source -> Status \cup {"none"}]]
  /\ up \in BOOLEAN /\ faults \in Nat
  /\ faulted \in SUBSET Handler

Goto(h, place) == pc' = [pc EXCEPT ![h] = place]

(***************************************************************************)
(* One statement of h. Without a Database it is skipped.                   *)
(***************************************************************************)
Skipped(h) == conn[h] = "none" /\ UNCHANGED <<database, faults>>

\* The row's other writer, if any, has to end first.
Upserts(h, s) ==
  /\ Live(h)
  /\ \A g \in Handler \ {h} : s \notin locks[g]
  /\ conn' = [conn EXCEPT ![h] = "open"]
  /\ locks' = [locks EXCEPT ![h] = @ \cup {s}]
  /\ UNCHANGED <<faults, faulted>>

\* An UPDATE finds no row but one of its own transaction: none is ever committed.
Updates(h) ==
  /\ Live(h)
  /\ conn' = [conn EXCEPT ![h] = "open"]
  /\ UNCHANGED <<locks, faults, faulted>>

\* An SQL error aborts the transaction, and every statement after it fails. A broken
\* connection is noticed by the statement that uses it; the next one connects again.
Fails(h) ==
  /\ \/ /\ Live(h) /\ faults < MaxFaults
        /\ conn' = [conn EXCEPT ![h] = "aborted"]
        /\ faults' = faults + 1
     \/ /\ conn[h] = "aborted" \/ (conn[h] = "closed" /\ ~up)
        /\ UNCHANGED <<conn, faults>>
     \/ /\ conn[h] = "broken"
        /\ conn' = [conn EXCEPT ![h] = "closed"]
        /\ UNCHANGED faults
  /\ locks' = [locks EXCEPT ![h] = {}]
  /\ faulted' = faulted \cup {h}

\* Slip: Append over a set of parsers instead of the list.
AppendUnordered(h, status) ==
  /\ results' = [results EXCEPT ![h][next[h]] = status]
  /\ LET rest == {s \in Source : results'[h][s] = "none"}
     IN \E s \in IF rest = {} THEN {N + 1} ELSE rest : next' = [next EXCEPT ![h] = s]
  /\ Goto(h, "register")

\* results.append, and on to the next source.
Append(h, status) ==
  /\ results' = [results EXCEPT ![h][next[h]] = status]
  /\ next' = [next EXCEPT ![h] = @ + 1]
  /\ Goto(h, "register")

(***************************************************************************)
(* Slips: each the action named, with one plausible mistake.               *)
(***************************************************************************)
\* Fetch outside the try block.
FetchUncaught(h) ==
  /\ pc[h] = "fetch"
  /\ \E status \in Status :
       /\ fetched' = [fetched EXCEPT ![h] = status]
       /\ own' = [own EXCEPT ![h][next[h]] = status]
       /\ Goto(h, IF status = "failed" THEN "stopped" ELSE "status")
  /\ UNCHANGED <<next, database, results, up, faults>>

\* Except whose append is also done after the loop body.
AppendTwice(h) ==
  /\ pc[h] = "except"
  /\ Skipped(h) \/ Updates(h)
  /\ results' = [results EXCEPT ![h][next[h]] = "failed"]
  /\ next' = [next EXCEPT ![h] = @ + 2]
  /\ Goto(h, "register")
  /\ UNCHANGED <<fetched, up, own>>

\* Close without db.close().
KeepConnection(h) ==
  /\ pc[h] = "register" /\ next[h] = N + 1
  /\ Goto(h, "end")
  /\ UNCHANGED <<next, database, fetched, results, up, faults, own>>

Init ==
  /\ pc = [h \in Handler |-> "start"]
  /\ next = [h \in Handler |-> 1]
  /\ conn = [h \in Handler |-> "none"]
  /\ locks = [h \in Handler |-> {}]
  /\ fetched = [h \in Handler |-> "failed"]
  /\ results = [h \in Handler |-> [s \in Source |-> "none"]]
  /\ own = [h \in Handler |-> [s \in Source |-> "none"]]
  /\ up = TRUE /\ faults = 0 /\ faulted = {}

(***************************************************************************)
(* One parser run.                                                         *)
(***************************************************************************)
\* Database().connect(); an error means a run without a Database.
Connect(h) ==
  /\ pc[h] = "start"
  /\ conn' = [conn EXCEPT ![h] = IF up THEN "open" ELSE "none"]
  /\ Goto(h, "register")
  /\ UNCHANGED <<next, locks, faulted, fetched, results, up, faults, own>>

Register(h) ==
  /\ pc[h] = "register" /\ next[h] \in Source
  /\ \/ (Skipped(h) \/ Upserts(h, next[h])) /\ Goto(h, "fetch")
     \/ Fails(h) /\ Goto(h, "except")
  /\ UNCHANGED <<next, fetched, results, up, own>>

\* run_latest: requests with timeouts and retries, parsing, the CSV file.
Fetch(h) ==
  /\ pc[h] = "fetch"
  /\ \E status \in Status :
       /\ fetched' = [fetched EXCEPT ![h] = status]
       /\ own' = [own EXCEPT ![h][next[h]] = status]
       /\ Goto(h, IF status = "failed" THEN "except" ELSE "status")
  /\ UNCHANGED <<next, database, results, up, faults>>

UpdateStatus(h) ==
  /\ pc[h] = "status"
  /\ \/ (Skipped(h) \/ Updates(h)) /\ Append(h, fetched[h])
     \/ Fails(h) /\ Goto(h, "except") /\ UNCHANGED <<next, results>>
  /\ UNCHANGED <<fetched, up, own>>

\* The except block's own statement.
Except(h) ==
  /\ pc[h] = "except"
  /\ Skipped(h) \/ Updates(h)
  /\ Append(h, "failed")
  /\ UNCHANGED <<fetched, up, own>>

\* It raises: the exception leaves the loop, and with it the results so far.
Escape(h) ==
  /\ pc[h] = "except"
  /\ Fails(h)
  /\ Goto(h, "stopped")
  /\ results' = [results EXCEPT ![h] = [s \in Source |-> "none"]]
  /\ UNCHANGED <<next, fetched, up, own>>

\* The end of the loop; db.close() rolls everything back.
Close(h) ==
  /\ pc[h] = "register" /\ next[h] = N + 1
  /\ Goto(h, "end")
  /\ conn' = [conn EXCEPT ![h] = "none"]
  /\ locks' = [locks EXCEPT ![h] = {}]
  /\ UNCHANGED <<next, faulted, fetched, results, up, faults, own>>

Step(h) ==
  \/ Connect(h) \/ Register(h) \/ Fetch(h) \/ UpdateStatus(h) \/ Except(h) \/ Escape(h)
  \/ Close(h)

(***************************************************************************)
(* PostgreSQL goes down and takes every transaction with it; it comes back.*)
(***************************************************************************)
GoDown ==
  /\ up /\ faults < MaxFaults
  /\ up' = FALSE
  /\ faults' = faults + 1
  /\ conn' = [h \in Handler |-> IF conn[h] \in {"open", "aborted"} THEN "broken" ELSE conn[h]]
  /\ locks' = [h \in Handler |-> {}]
  /\ UNCHANGED <<pc, next, faulted, fetched, results, own>>

ComeBack ==
  /\ ~up
  /\ up' = TRUE
  /\ UNCHANGED <<pc, next, database, fetched, results, faults, own>>

Next == (\E h \in Handler : Step(h)) \/ GoDown \/ ComeBack

Spec == Init /\ [][Next]_vars

\* Every fetch has timeouts and every run goes on when its row is free.
FairSpec == Spec /\ \A h \in Handler : WF_vars(Step(h))

----------------------------------------------------------------------------
Waits(h, g) ==
  h # g /\ pc[h] = "register" /\ next[h] \in locks[g] /\ Live(h)

\* A run none of whose statements failed has a result for every source, and each is what
\* that source's own parser did, whatever the others did.
SourceIsolation ==
  \A h \in Handler \ faulted :
    /\ pc[h] # "stopped"
    /\ pc[h] = "end" => results[h] = own[h] /\ \A s \in Source : results[h][s] # "none"

\* Runs keep their rows of data_sources through all of their later fetches, and yet never
\* wait in a circle: whoever waits for a run that waits itself is at an earlier source.
NoWaitCycle ==
  \A h, g \in Handler : Waits(h, g) /\ (\E k \in Handler : Waits(g, k)) => next[h] < next[g]

\* Every run ends, also one that has to wait for the rows of another.
EveryRunEnds == \A h \in Handler : <>(pc[h] \in {"end", "stopped"})

\* ml-services/README.md:11: an error of one source does not stop the whole pipeline.
EverySourceRuns == \A h \in Handler : pc[h] # "stopped"
=============================================================================
