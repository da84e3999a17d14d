----------------------------- MODULE MCCacheLife ----------------------------
(***************************************************************************)
(* An instance of CacheLife for TLC: two partitions, of which the keys use *)
(* the first.  It holds two small values or a big one, so that a SET can   *)
(* find it full, need one eviction, or need more than the one it gets.     *)
(***************************************************************************)
EXTENDS CacheLife, TLC

CONSTANTS k1, k2, vSmall, vBig

MCSizeOf == [c \in Contents |-> CASE c = Torn -> 0
                                  [] c = vBig -> 2
                                  [] OTHER    -> 1]
MCPartOf == [k \in Keys |-> 0]

\* Keys are interchangeable when they are all in one partition.
KeyNames == Permutations(Keys)
=============================================================================
