-------------------------- MODULE MCRecalculation --------------------------
(* Two requests, one of them scheduled, on two replicas with Redis and a third    *)
(* process without it; two dates, so that the latest row need not be a request's own. *)
EXTENDS Recalculation, TLC

CONSTANTS r1, r2, b1, b2, b3

MCDateOf == [r \in Request |-> IF r = r2 THEN 2 ELSE 1]
MCOneDate == [r \in Request |-> 1]

\* The two replicas with Redis are interchangeable.
Replicas == Permutations({b1, b2})
============================================================================
