----------------------------- MODULE LruCache ------------------------------
(***************************************************************************)
(* One memory partition as lru_cache.c builds it: a doubly linked list of  *)
(* heap nodes from head (most recently used) to tail, and a hash table     *)
(* with separate chaining whose entries point into the list.               *)
(*                                                                         *)
(* One action is one complete call, made by the only client of the cache   *)
(* (the public functions other than lru_cache_put take no lock; what two   *)
(* concurrent clients can do to each other is the subject of PodCache).    *)
(* Allocation may fail wherever the code checks for it.                    *)
(*                                                                         *)
(* mru is a history variable: no action reads it to decide anything else.  *)
(* It records which nodes are linked, in which order, and is what the      *)
(* pointers are compared with.                                             *)
(***************************************************************************)
EXTENDS CacheData, Sequences, SequencesExt, FiniteSets

CONSTANTS
  Nodes,       \* heap addresses of list nodes
  NumBuckets,  \* hash_table_size
  Hash,        \* Hash[k]: the bucket of key k
  Capacity     \* max_bytes_capacity

Buckets == 0 .. (NumBuckets - 1)

ASSUME CacheAssumption ==
  /\ NULL \notin Nodes /\ IsFiniteSet(Nodes)
  /\ NumBuckets \in Nat \ {0}
  /\ Hash \in [Keys -> Buckets]
  /\ Capacity \in Nat

VARIABLES
  head, tail,                       \* lru_cache_t
  buckets,                          \* buckets[h]: the chain of bucket h, first entry first
  current_bytes_size,
  key, value, size, next, prev,     \* the fields of lru_node_t, per address
  live,                             \* the addresses of allocated nodes
  reply,                            \* return code and value of the last call
  phase,                            \* "open", "crashed" or "destroyed"
  mru                               \* history: the linked nodes, head first

links  == <<head, tail, next, prev, mru>>
fields == <<key, value, size, live>>
vars   == <<head, tail, next, prev, mru, key, value, size, live,
            buckets, current_bytes_size, reply, phase>>

HashNode == [key : Keys, node : Nodes]

\* Types: every pointer is a node or NULL, and every bucket a chain of entries.
TypeOK ==
  /\ head \in Nodes \cup {NULL}
  /\ tail \in Nodes \cup {NULL}
  /\ next \in [Nodes -> Nodes \cup {NULL}]
  /\ prev \in [Nodes -> Nodes \cup {NULL}]
  /\ mru \in Seq(Nodes)
  /\ key \in [Nodes -> Keys \cup {NULL}]
  /\ value \in [Nodes -> Contents \cup {NULL}]
  /\ size \in [Nodes -> Nat]
  /\ live \in SUBSET Nodes
  /\ buckets \in [Buckets -> Seq(HashNode)]
  /\ current_bytes_size \in Int
  /\ reply \in [code : LruCodes, value : Contents \cup Keys \cup {NULL}]
  /\ phase \in {"open", "crashed", "destroyed"}

\* lru_cache_create
Init ==
  /\ head = NULL
  /\ tail = NULL
  /\ next = [n \in Nodes |-> NULL]
  /\ prev = [n \in Nodes |-> NULL]
  /\ mru = << >>
  /\ key = [n \in Nodes |-> NULL]
  /\ value = [n \in Nodes |-> NULL]
  /\ size = [n \in Nodes |-> 0]
  /\ live = {}
  /\ buckets = [h \in Buckets |-> << >>]
  /\ current_bytes_size = 0
  /\ reply = [code |-> OK, value |-> NULL]
  /\ phase = "open"

Reply(r, v) == reply' = [code |-> r, value |-> v]

-----------------------------------------------------------------------------
(* The static helpers on the list.                                         *)

\* A node linked at the head.
add_to_head(n) ==
  /\ head' = n
  /\ tail' = IF head = NULL THEN n ELSE tail
  /\ next' = [next EXCEPT ![n] = head]
  /\ prev' = IF head = NULL THEN [prev EXCEPT ![n] = NULL]
                            ELSE [prev EXCEPT ![n] = NULL, ![head] = n]
  /\ mru' = Cons(n, mru)

\* history: node n moves to the front of mru
MruToHead(n) ==
  \E i \in DOMAIN mru : mru[i] = n /\ mru' = Cons(n, RemoveAt(mru, i))

StayAtHead(n) ==
  /\ head = n \/ (prev[n] = NULL /\ next[n] = NULL)
  /\ UNCHANGED <<head, tail, next, prev>>

TailToHead(n) ==
  /\ tail' = prev[n]
  /\ next' = [next EXCEPT ![prev[n]] = NULL, ![n] = head]
  /\ prev' = [prev EXCEPT ![n] = NULL, ![head] = n]
  /\ head' = n

\* Mutant: the node behind n keeps pointing back to n.
MiddleToHeadKeepsBackPointer(n) ==
  /\ next' = [next EXCEPT ![prev[n]] = next[n], ![n] = head]
  /\ prev' = [prev EXCEPT ![n] = NULL, ![head] = n]
  /\ head' = n
  /\ UNCHANGED tail

MiddleToHead(n) ==
  /\ next' = [next EXCEPT ![prev[n]] = next[n], ![n] = head]
  /\ prev' = [prev EXCEPT ![next[n]] = prev[n], ![n] = NULL, ![head] = n]
  /\ head' = n
  /\ UNCHANGED tail

move_to_head(n) ==
  /\ \/ StayAtHead(n)
     \/ /\ head # n /\ ~ (prev[n] = NULL /\ next[n] = NULL)
        /\ \/ tail = n /\ TailToHead(n)
           \/ tail # n /\ MiddleToHead(n)
  /\ MruToHead(n)

-----------------------------------------------------------------------------
(* The hash table.                                                         *)

Chain(k) == buckets[Hash[k]]

\* The first entry of k's chain that holds key k is the i-th.
FoundAt(k, i) ==
  /\ i \in DOMAIN Chain(k)
  /\ Chain(k)[i].key = k
  /\ \A j \in 1 .. (i - 1) : Chain(k)[j].key # k

NotFound(k) == \A i \in DOMAIN Chain(k) : Chain(k)[i].key # k

-----------------------------------------------------------------------------
(* The public functions.                                                   *)

\* free(node), with its key and value.  The fields of a freed node are reset:
\* no pointer to one is left (ListWellFormed, TableMatchesList).
FreeNode(n) ==
  /\ live' = live \ {n}
  /\ key' = [key EXCEPT ![n] = NULL]
  /\ value' = [value EXCEPT ![n] = NULL]
  /\ size' = [size EXCEPT ![n] = 0]

\* Mutant: the node records by how much its value grew.
PutUpdateStoresDifference(n, v) ==
  /\ value' = [value EXCEPT ![n] = v]
  /\ size' = [size EXCEPT ![n] = SizeOf[v] - size[n]]
  /\ current_bytes_size' = current_bytes_size + (SizeOf[v] - size[n])
  /\ move_to_head(n)
  /\ Reply(OK, NULL)
  /\ UNCHANGED <<key, live, buckets, phase>>

\* An existing key: the old value is freed before the new one is allocated.
PutUpdate(n, v) ==
  \/ /\ MemMayFail
     /\ value' = [value EXCEPT ![n] = NULL]
     /\ Reply(FAIL, NULL)
     /\ UNCHANGED <<links, key, size, live, buckets, current_bytes_size, phase>>
  \/ /\ value' = [value EXCEPT ![n] = v]
     /\ size' = [size EXCEPT ![n] = SizeOf[v]]
     /\ current_bytes_size' = current_bytes_size + (SizeOf[v] - size[n])
     /\ move_to_head(n)
     /\ Reply(OK, NULL)
     /\ UNCHANGED <<key, live, buckets, phase>>

\* A free address becomes a node with copies of the key and the value.
create_node(n, k, v) ==
  /\ live' = live \cup {n}
  /\ key' = [key EXCEPT ![n] = k]
  /\ value' = [value EXCEPT ![n] = v]
  /\ size' = [size EXCEPT ![n] = SizeOf[v]]

create_hash_node(k, n) == [key |-> k, node |-> n]

\* A failure of either allocation frees what was built.
PutInsert(k, v) ==
  \/ /\ MemMayFail
     /\ Reply(FAIL, NULL)
     /\ UNCHANGED <<links, fields, buckets, current_bytes_size, phase>>
  \/ \E n \in Nodes \ live :
       /\ create_node(n, k, v)
       /\ buckets' = [buckets EXCEPT ![Hash[k]] = Cons(create_hash_node(k, n), @)]
       /\ current_bytes_size' = current_bytes_size + SizeOf[v]
       /\ add_to_head(n)
       /\ Reply(OK, NULL)
       /\ UNCHANGED phase

lru_cache_put(k, v) ==
  \/ /\ current_bytes_size + SizeOf[v] >= Capacity
     /\ Reply(FULL, NULL)
     /\ UNCHANGED <<links, fields, buckets, current_bytes_size, phase>>
  \/ /\ current_bytes_size + SizeOf[v] < Capacity
     /\ \/ \E i \in DOMAIN Chain(k) : FoundAt(k, i) /\ PutUpdate(Chain(k)[i].node, v)
        \/ NotFound(k) /\ PutInsert(k, v)

\* Mutant: a hit does not refresh the node.
GetFoundStays(n) ==
  /\ value[n] # NULL \/ size[n] = 0
  /\ Reply(OK, value[n])
  /\ UNCHANGED <<links, phase>>

\* Copying size bytes from a null value crashes unless size is 0.
GetFound(n) ==
  \/ /\ MemMayFail
     /\ Reply(FAIL, NULL)
     /\ UNCHANGED <<links, phase>>
  \/ /\ value[n] = NULL /\ size[n] > 0
     /\ phase' = "crashed"
     /\ Reply(CRASH, NULL)
     /\ UNCHANGED links
  \/ /\ value[n] # NULL \/ size[n] = 0
     /\ move_to_head(n)
     /\ Reply(OK, value[n])
     /\ UNCHANGED phase

lru_cache_get(k) ==
  /\ \/ \E i \in DOMAIN Chain(k) : FoundAt(k, i) /\ GetFound(Chain(k)[i].node)
     \/ NotFound(k) /\ Reply(MISS, NULL) /\ UNCHANGED <<links, phase>>
  /\ UNCHANGED <<fields, buckets, current_bytes_size>>

\* Take node n out of the list: the four cases of lru_cache_evict.
UnlinkNode(n) ==
  /\ \/ /\ head = tail
        /\ head' = NULL /\ tail' = NULL
        /\ UNCHANGED <<next, prev>>
     \/ /\ head # tail /\ n = head
        /\ head' = next[n]
        /\ prev' = [prev EXCEPT ![next[n]] = NULL]
        /\ UNCHANGED <<tail, next>>
     \/ /\ head # tail /\ n # head /\ n = tail
        /\ tail' = prev[n]
        /\ next' = [next EXCEPT ![prev[n]] = NULL]
        /\ UNCHANGED <<head, prev>>
     \/ /\ head # tail /\ n # head /\ n # tail
        /\ next' = [next EXCEPT ![prev[n]] = next[n]]
        /\ prev' = [prev EXCEPT ![next[n]] = prev[n]]
        /\ UNCHANGED <<head, tail>>
  /\ \E i \in DOMAIN mru : mru[i] = n /\ mru' = RemoveAt(mru, i)

\* Mutant: the bytes of the evicted node are not given back.
EvictFoundKeepsBytes(k, i) ==
  LET n == Chain(k)[i].node IN
  /\ buckets' = [buckets EXCEPT ![Hash[k]] = RemoveAt(@, i)]
  /\ UnlinkNode(n)
  /\ FreeNode(n)
  /\ Reply(OK, NULL)
  /\ UNCHANGED <<current_bytes_size, phase>>

EvictFound(k, i) ==
  LET n == Chain(k)[i].node IN
  /\ buckets' = [buckets EXCEPT ![Hash[k]] = RemoveAt(@, i)]
  /\ UnlinkNode(n)
  /\ current_bytes_size' = current_bytes_size - size[n]
  /\ FreeNode(n)
  /\ Reply(OK, NULL)
  /\ UNCHANGED phase

lru_cache_evict(k) ==
  \/ \E i \in DOMAIN Chain(k) : FoundAt(k, i) /\ EvictFound(k, i)
  \/ /\ NotFound(k)
     /\ Reply(MISS, NULL)
     /\ UNCHANGED <<links, fields, buckets, current_bytes_size, phase>>

\* The caller reads the key and value through the returned pointer.
lru_cache_get_tail_node ==
  /\ Reply(OK, IF tail = NULL THEN NULL ELSE key[tail])
  /\ UNCHANGED <<links, fields, buckets, current_bytes_size, phase>>

\* Mutant: only the first entry of the chain is examined.
DropTailEntryLooksAtFirst(n) ==
  LET h == Hash[key[n]] IN
  \/ /\ buckets[h] # << >> /\ buckets[h][1].node = n
     /\ buckets' = [buckets EXCEPT ![h] = RemoveAt(@, 1)]
  \/ /\ buckets[h] = << >> \/ buckets[h][1].node # n
     /\ UNCHANGED buckets

\* The chain entry of the tail is found by its node pointer.
DropTailEntry(n) ==
  LET h == Hash[key[n]] IN
  \/ \E i \in DOMAIN buckets[h] :
       /\ buckets[h][i].node = n
       /\ \A j \in 1 .. (i - 1) : buckets[h][j].node # n
       /\ buckets' = [buckets EXCEPT ![h] = RemoveAt(@, i)]
  \/ /\ \A i \in DOMAIN buckets[h] : buckets[h][i].node # n
     /\ UNCHANGED buckets

UnlinkTail ==
  /\ \/ head = tail /\ head' = NULL /\ tail' = NULL /\ UNCHANGED next
     \/ /\ head # tail
        /\ tail' = prev[tail]
        /\ next' = [next EXCEPT ![prev[tail]] = NULL]
        /\ UNCHANGED head
  /\ UNCHANGED prev
  /\ \E i \in DOMAIN mru : mru[i] = tail /\ mru' = RemoveAt(mru, i)

lru_cache_remove_tail ==
  \/ /\ tail = NULL
     /\ Reply(FAIL, NULL)
     /\ UNCHANGED <<links, fields, buckets, current_bytes_size, phase>>
  \/ /\ tail # NULL
     /\ UnlinkTail
     /\ DropTailEntry(tail)
     /\ current_bytes_size' = current_bytes_size - size[tail]
     /\ FreeNode(tail)
     /\ Reply(OK, NULL)
     /\ UNCHANGED phase

\* Walk[i]: the address reached from head by i next pointers.
Walk[i \in 0 .. Cardinality(Nodes)] ==
  IF i = 0 THEN head
  ELSE IF Walk[i - 1] = NULL THEN NULL ELSE next[Walk[i - 1]]

\* Mutant: the walk stops at the tail instead of behind it.
DestroyStopsAtTail ==
  LET freed == {Walk[i] : i \in 0 .. Cardinality(Nodes)} \ {NULL, tail} IN
  /\ live' = live \ freed
  /\ key' = [n \in Nodes |-> IF n \in freed THEN NULL ELSE key[n]]
  /\ value' = [n \in Nodes |-> IF n \in freed THEN NULL ELSE value[n]]
  /\ size' = [n \in Nodes |-> IF n \in freed THEN 0 ELSE size[n]]
  /\ buckets' = [h \in Buckets |-> << >>]
  /\ mru' = << >>
  /\ phase' = "destroyed"
  /\ UNCHANGED <<head, tail, next, prev, current_bytes_size, reply>>

\* Every node met on the walk is freed, then every chain.
lru_cache_destroy ==
  LET freed == {Walk[i] : i \in 0 .. Cardinality(Nodes)} \ {NULL} IN
  /\ live' = live \ freed
  /\ key' = [n \in Nodes |-> IF n \in freed THEN NULL ELSE key[n]]
  /\ value' = [n \in Nodes |-> IF n \in freed THEN NULL ELSE value[n]]
  /\ size' = [n \in Nodes |-> IF n \in freed THEN 0 ELSE size[n]]
  /\ buckets' = [h \in Buckets |-> << >>]
  /\ mru' = << >>
  /\ phase' = "destroyed"
  /\ UNCHANGED <<head, tail, next, prev, current_bytes_size, reply>>

-----------------------------------------------------------------------------

Call ==
  \/ \E k \in Keys : \/ lru_cache_get(k)
                     \/ lru_cache_evict(k)
                     \/ \E v \in Contents : lru_cache_put(k, v)
  \/ lru_cache_get_tail_node
  \/ lru_cache_remove_tail
  \/ lru_cache_destroy

\* A destroyed cache and a crashed process take no more calls.
Stopped == phase # "open" /\ UNCHANGED vars

Next == (phase = "open" /\ Call) \/ Stopped

Spec == Init /\ [][Next]_vars
-----------------------------------------------------------------------------
(* What must hold of the structure between calls.                          *)

\* The sequence s of nodes is what the pointers hd, tl, nx and pv link: no node
\* occurs twice, and each points to its two neighbours.
Linked(s, hd, tl, nx, pv) ==
  /\ \A i, j \in DOMAIN s : s[i] = s[j] => i = j
  /\ hd = IF Len(s) = 0 THEN NULL ELSE s[1]
  /\ tl = IF Len(s) = 0 THEN NULL ELSE s[Len(s)]
  /\ \A i \in DOMAIN s : /\ nx[s[i]] = IF i = Len(s) THEN NULL ELSE s[i + 1]
                         /\ pv[s[i]] = IF i = 1 THEN NULL ELSE s[i - 1]

\* The pointers of lru_cache.c always form one doubly linked list, without
\* sharing or cycles, from head to tail, of exactly the allocated nodes, in
\* order of last use: no sequence of put, get, evict and remove_tail (with
\* allocation failures) leaves a node unlinked, linked twice or out of order.
ListWellFormed ==
  phase # "destroyed" => live = Range(mru) /\ Linked(mru, head, tail, next, prev)

\* The chains b index the nodes lv by their keys ky: an entry sits in the bucket
\* of its key and points to an allocated node with that key, a chain has no
\* entry twice and no two entries of a key, and every node has an entry.
Indexed(b, ky, lv) ==
  /\ \A h \in Buckets : \A i, j \in DOMAIN b[h] : b[h][i] = b[h][j] => i = j
  /\ \A h \in Buckets : \A e \in Range(b[h]) :
       /\ Hash[e.key] = h
       /\ e.node \in lv
       /\ ky[e.node] = e.key
       /\ \A f \in Range(b[h]) : f.key = e.key => f = e
  /\ \A n \in lv : ky[n] \in Keys /\ \E e \in Range(b[Hash[ky[n]]]) : e.node = n

\* The table and the list agree: every chain entry is right, and every node of
\* the list can be found through its key.  So no key has two nodes, and no
\* entry points to freed memory.
TableMatchesList == phase # "destroyed" => Indexed(buckets, key, live)

\* current_bytes_size is the total size of the allocated nodes, which the
\* unsigned subtractions of evict, update and remove_tail rely on, and it
\* stays below the capacity.
ExactAccounting ==
  phase # "destroyed" =>
    /\ current_bytes_size = MapThenSumSet(LAMBDA n : size[n], live)
    /\ current_bytes_size > 0 => current_bytes_size < Capacity

\* lru_cache_destroy walks the list only; that frees every node.
NothingLeaks == phase = "destroyed" => live = {}

\* Refinement: seen through its keys, the linked structure is an LRU list that
\* answers every call as LruSpec says.
Holder(k) == {n \in live : key[n] = k}

\* A field of the nodes, as a function of the keys; none is its value for a key
\* that no node holds.
ByKey(field, none) ==
  [k \in Keys |-> IF Holder(k) = {} THEN none ELSE field[CHOOSE n \in Holder(k) : TRUE]]

\* The only partition, and what it holds.
OnePartition == [k \in Keys |-> 0]
lruOrder == [p \in {0} |-> [i \in DOMAIN mru |-> key[mru[i]]]]
lruVal   == ByKey(value, NULL)
lruSize  == ByKey(size, 0)
lruBytes == [p \in {0} |-> current_bytes_size]

Lru == INSTANCE LruSpec WITH
  Partitions <- {0},
  PartOf     <- OnePartition,
  order      <- lruOrder,
  val        <- lruVal,
  size       <- lruSize,
  bytes      <- lruBytes

\* Every behaviour of the pointer-level cache is one of the abstract LRU cache:
\* same replies, same recency order, same values, same byte count.
ImplementsLru == Lru!Spec
=============================================================================
