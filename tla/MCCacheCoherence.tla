-------------------------- MODULE MCCacheCoherence --------------------------
(* Two requests that fill the cache, one recalculation, two calculations. *)
EXTENDS CacheCoherence, TLC

CONSTANTS d1, d2, a1

Readers == Permutations({d1, d2})
=============================================================================
