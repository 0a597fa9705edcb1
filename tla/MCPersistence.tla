--------------------------- MODULE MCPersistence ---------------------------
(* Two threads over a dataset of two dates, for its last and for one beyond. *)
EXTENDS Persistence

CONSTANTS h1, h2

MCDateOf == [h \in Handler |-> IF h = h1 THEN 2 ELSE 3]
=============================================================================
