----------------------------- MODULE MCShutdown -----------------------------
(* Two cron firings, the startup run and two requests. *)
EXTENDS Shutdown

CONSTANTS j1, j2, h1, h2
=============================================================================
