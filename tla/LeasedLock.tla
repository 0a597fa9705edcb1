----------------------------- MODULE LeasedLock -----------------------------
(***************************************************************************)
(* What the Redis recalculation lock promises its clients: a lock granted  *)
(* for a limited time. A client that leaves may or may not give the key    *)
(* back, a key may be held by nobody who knows it, and a key may expire    *)
(* under a client that still works, which is then stale.                   *)
(***************************************************************************)
EXTENDS FiniteSets

CONSTANTS Client, None

VARIABLES
  holder,  \* the client whose token the key holds
  using,   \* clients that act under the lock
  stale    \* those of them whose key is gone

vars == <<holder, using, stale>>

Init == holder = None /\ using = {} /\ stale = {}

Grant(c) ==
  /\ holder = None
  /\ c \notin using
  /\ holder' = c
  /\ using' = using \cup {c}
  /\ UNCHANGED stale

\* The grant whose answer never reaches the client.
GrantUnseen(c) ==
  /\ holder = None
  /\ c \notin using
  /\ holder' = c
  /\ UNCHANGED <<using, stale>>

\* A client is done; it gives back its own key, or the key stays until it expires.
Leave(c) ==
  /\ c \in using
  /\ using' = using \ {c}
  /\ stale' = stale \ {c}
  /\ holder' \in {holder, IF holder = c THEN None ELSE holder}

\* Clients die with the process that runs them, and leave the key behind.
Die(C) ==
  /\ C \subseteq using
  /\ using' = using \ C
  /\ stale' = stale \ C
  /\ UNCHANGED holder

Expire ==
  /\ holder # None
  /\ holder' = None
  /\ stale' = stale \cup ({holder} \cap using)
  /\ UNCHANGED using

Next ==
  \/ \E c \in Client : Grant(c) \/ GrantUnseen(c) \/ Leave(c)
  \/ \E C \in SUBSET Client : Die(C)
  \/ Expire

Spec == Init /\ [][Next]_vars

\* At most one client acts under a key that has not expired.
OneFreshUser == \A c, d \in using \ stale : c = d
=============================================================================
