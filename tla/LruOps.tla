------------------------------ MODULE LruOps -------------------------------
(***************************************************************************)
(* The promise of one LRU partition (lru_cache.c), without its pointers:   *)
(* order[p] lists the resident keys of partition p, most recently used     *)
(* first.  Every public function is an action that takes its return code r *)
(* as a parameter, so that a caller's step can conjoin it and branch on r. *)
(*                                                                         *)
(* LruSpec closes these actions into a specification of their own, which   *)
(* the pointer-level LruCache implements; PodCache composes them with the  *)
(* disk store.                                                             *)
(***************************************************************************)
EXTENDS CacheData, Sequences, SequencesExt

CONSTANTS
  Partitions,  \* the partition indices
  PartOf,      \* PartOf[k]: the partition of key k
  Capacity     \* max_bytes_capacity of every partition

ASSUME LruAssumption ==
  /\ PartOf \in [Keys -> Partitions]
  /\ Capacity \in Nat

VARIABLES
  order,  \* order[p]: the resident keys of p, head first
  val,    \* val[k]: the value of k; NULL for a resident k after a failed update
  size,   \* size[k]: the size field of k's node, 0 when k is not resident
  bytes   \* bytes[p]: current_bytes_size

lruVars == <<order, val, size, bytes>>

LruTypeOK ==
  /\ order \in [Partitions -> Seq(Keys)]
  /\ val \in [Keys -> Contents \cup {NULL}]
  /\ size \in [Keys -> Nat]
  /\ bytes \in [Partitions -> Int]

\* lru_cache_create for every partition.
LruInit ==
  /\ order = [p \in Partitions |-> << >>]
  /\ val = [k \in Keys |-> NULL]
  /\ size = [k \in Keys |-> 0]
  /\ bytes = [p \in Partitions |-> 0]

\* Key k is the i-th node of its partition's list.
At(k, i) == i \in DOMAIN order[PartOf[k]] /\ order[PartOf[k]][i] = k

Resident(k) == \E i \in DOMAIN order[PartOf[k]] : At(k, i)

\* The list after its i-th node moves to the head.
ToHead(s, i) == Cons(s[i], RemoveAt(s, i))

MoveToHead(k) ==
  \E i \in DOMAIN order[PartOf[k]] :
    /\ At(k, i)
    /\ order' = [order EXCEPT ![PartOf[k]] = ToHead(@, i)]

\* The capacity test counts the new value in full, also when it replaces one.
NoRoom(k, v) == bytes[PartOf[k]] + SizeOf[v] >= Capacity

\* An update frees the old value before it allocates the new one.
PutUpdate(k, v, r) ==
  /\ Resident(k)
  /\ \/ /\ r = FAIL /\ MemMayFail
        /\ val' = [val EXCEPT ![k] = NULL]
        /\ UNCHANGED <<order, size, bytes>>
     \/ /\ r = OK
        /\ val' = [val EXCEPT ![k] = v]
        /\ size' = [size EXCEPT ![k] = SizeOf[v]]
        /\ bytes' = [bytes EXCEPT ![PartOf[k]] = @ + (SizeOf[v] - size[k])]
        /\ MoveToHead(k)

PutInsert(k, v, r) ==
  /\ ~ Resident(k)
  /\ \/ r = FAIL /\ MemMayFail /\ UNCHANGED lruVars
     \/ /\ r = OK
        /\ order' = [order EXCEPT ![PartOf[k]] = Cons(k, @)]
        /\ val' = [val EXCEPT ![k] = v]
        /\ size' = [size EXCEPT ![k] = SizeOf[v]]
        /\ bytes' = [bytes EXCEPT ![PartOf[k]] = @ + SizeOf[v]]

lru_cache_put(k, v, r) ==
  \/ NoRoom(k, v) /\ r = FULL /\ UNCHANGED lruVars
  \/ ~ NoRoom(k, v) /\ (PutUpdate(k, v, r) \/ PutInsert(k, v, r))

\* v is the copy handed to the caller.  Copying from a null value crashes
\* unless the node's size is 0.
lru_cache_get(k, r, v) ==
  \/ ~ Resident(k) /\ r = MISS /\ v = NULL /\ UNCHANGED lruVars
  \/ Resident(k) /\ MemMayFail /\ r = FAIL /\ v = NULL /\ UNCHANGED lruVars
  \/ /\ Resident(k) /\ val[k] = NULL /\ size[k] > 0
     /\ r = CRASH /\ v = NULL
     /\ UNCHANGED lruVars
  \/ /\ Resident(k) /\ (val[k] # NULL \/ size[k] = 0)
     /\ r = OK /\ v = val[k]
     /\ MoveToHead(k)
     /\ UNCHANGED <<val, size, bytes>>

\* The node of k leaves the list, the table and the byte count.
Unlink(k) ==
  /\ \E i \in DOMAIN order[PartOf[k]] :
       /\ At(k, i)
       /\ order' = [order EXCEPT ![PartOf[k]] = RemoveAt(@, i)]
  /\ val' = [val EXCEPT ![k] = NULL]
  /\ size' = [size EXCEPT ![k] = 0]
  /\ bytes' = [bytes EXCEPT ![PartOf[k]] = @ - size[k]]

lru_cache_evict(k, r) ==
  \/ ~ Resident(k) /\ r = MISS /\ UNCHANGED lruVars
  \/ r = OK /\ Unlink(k)

lru_cache_get_tail_node(p) ==
  IF order[p] = << >> THEN NULL ELSE order[p][Len(order[p])]

lru_cache_remove_tail(p, r) ==
  \/ order[p] = << >> /\ r = FAIL /\ UNCHANGED lruVars
  \/ order[p] # << >> /\ r = OK /\ Unlink(order[p][Len(order[p])])
=============================================================================
