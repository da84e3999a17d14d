------------------------------ MODULE LruSpec ------------------------------
(***************************************************************************)
(* The abstract specification of the memory tier: the actions of LruOps    *)
(* with the reply a caller sees.  A cache is open until it is destroyed or *)
(* a call dereferences a null pointer.                                     *)
(***************************************************************************)
EXTENDS LruOps

VARIABLES
  reply,  \* return code and returned value of the last call
  phase   \* "open", "crashed" or "destroyed"

vars == <<order, val, size, bytes, reply, phase>>

Reply(r, v) == reply' = [code |-> r, value |-> v]

Init ==
  /\ LruInit
  /\ reply = [code |-> OK, value |-> NULL]
  /\ phase = "open"

Put(k, v) ==
  \E r \in {OK, FAIL, FULL} :
    lru_cache_put(k, v, r) /\ Reply(r, NULL) /\ UNCHANGED phase

Get(k) ==
  \E r \in {OK, FAIL, MISS, CRASH}, v \in Contents \cup {NULL} :
    /\ lru_cache_get(k, r, v)
    /\ Reply(r, v)
    /\ phase' = IF r = CRASH THEN "crashed" ELSE phase

Evict(k) ==
  \E r \in {OK, MISS} : lru_cache_evict(k, r) /\ Reply(r, NULL) /\ UNCHANGED phase

\* The caller learns the key of the tail node.
GetTail(p) ==
  /\ Reply(OK, lru_cache_get_tail_node(p))
  /\ UNCHANGED <<order, val, size, bytes, phase>>

RemoveTail(p) ==
  \E r \in {OK, FAIL} : lru_cache_remove_tail(p, r) /\ Reply(r, NULL) /\ UNCHANGED phase

Destroy ==
  /\ phase' = "destroyed"
  /\ order' = [p \in Partitions |-> << >>]
  /\ val' = [k \in Keys |-> NULL]
  /\ size' = [k \in Keys |-> 0]
  /\ UNCHANGED <<bytes, reply>>

Call ==
  \/ \E k \in Keys : Get(k) \/ Evict(k) \/ \E v \in Contents : Put(k, v)
  \/ \E p \in Partitions : GetTail(p) \/ RemoveTail(p)
  \/ Destroy

Next == phase = "open" /\ Call

Spec == Init /\ [][Next]_vars
=============================================================================
