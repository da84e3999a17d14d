---------------------------- MODULE MCCacheRaces ----------------------------
(***************************************************************************)
(* Instances of CacheRaces for TLC: two threads and three keys, so that a  *)
(* node can be first, last or in the middle, and the registry, with room   *)
(* for two paths, has to grow.                                             *)
(***************************************************************************)
EXTENDS CacheRaces

Mutexed == {"put"}
PutsAndGets == {"put", "get"}
AllOperations == {"put", "get", "drop", "add"}
=============================================================================
