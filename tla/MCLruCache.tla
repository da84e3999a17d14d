----------------------------- MODULE MCLruCache -----------------------------
(***************************************************************************)
(* Instances of LruCache for TLC: three keys of which two share a bucket,  *)
(* contents of up to three sizes (a file truncated to nothing included),   *)
(* as many addresses as keys, and a capacity that three keys can exceed.   *)
(***************************************************************************)
EXTENDS LruCache, TLC

CONSTANTS k1, k2, k3, vSmall, vBig

MCSizeOf == [c \in Contents |-> CASE c = Torn -> 0
                                  [] c = vBig -> 3
                                  [] OTHER    -> 1]
MCHash == [k \in Keys |-> IF k = k3 THEN 1 ELSE 0]

\* Addresses are interchangeable: the code only tests pointers for equality.
Addresses == Permutations(Nodes)
=============================================================================
