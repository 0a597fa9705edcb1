---------------------------- MODULE MCIngestion ----------------------------
(* Two runs over three sources. *)
EXTENDS Ingestion

CONSTANTS h1, h2
=============================================================================
