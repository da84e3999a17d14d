------------------------------ MODULE PodCache ------------------------------
(***************************************************************************)
(* The hybrid cache (pod_cache.c): LRU partitions in memory backed by the  *)
(* disk store.  Every connected client has a thread, and every thread runs *)
(* pod_cache_put, pod_cache_get and pod_cache_evict on the shared cache.   *)
(*                                                                         *)
(* A step of a thread is one call into lru_cache.c or cas.c; between two   *)
(* calls of the same operation the other threads may run, because no lock  *)
(* is held across them.  The calls themselves are atomic here.             *)
(*                                                                         *)
(* expect is a history variable: the last value a SET acknowledged for a   *)
(* key, NULL after a DEL that answered 1.                                  *)
(***************************************************************************)
EXTENDS LruOps, CasOps

CONSTANTS
  Threads,     \* client threads
  Operations   \* which of "put", "get" and "evict" the clients call

ASSUME PodAssumption ==
  /\ Partitions \subseteq Nat
  /\ Operations \subseteq {"put", "get", "evict"}

VARIABLES
  pc,       \* pc[t]: the next call of thread t's operation
  arg,      \* arg[t]: the key the operation is about
  data,     \* data[t]: the value to store, or the one read from disk
  victim,   \* victim[t]: the key of the node tail points to; Freed once freed
  path,     \* path[t]: output_path, the key just written to disk
  result,   \* result[t]: what the last operation of t returned
  crashed,  \* the process has dereferenced a null or freed pointer
  expect    \* history: the value a key should have

vars == <<order, val, size, bytes, depth, dat, timed, registry, capacity,
          allocated, pc, arg, data, victim, path, result, crashed, expect>>

Steps == {"idle", "get_tail", "spill", "register", "drop_tail", "retry",
          "read_disk", "promote", "unspill", "evict_disk"}

Results == Partitions \cup {-1, 0, 1}

\* Types of the two tiers and of the locals of every operation under way.
TypeOK ==
  /\ LruTypeOK
  /\ CasTypeOK
  /\ pc \in [Threads -> Steps]
  /\ arg \in [Threads -> Keys \cup {NULL}]
  /\ data \in [Threads -> Contents \cup {NULL}]
  /\ victim \in [Threads -> Keys \cup {NULL, Freed}]
  /\ path \in [Threads -> Keys \cup {NULL}]
  /\ result \in [Threads -> Results]
  /\ crashed \in BOOLEAN
  /\ expect \in [Keys -> Contents \cup {NULL}]

\* pod_cache_create
Init ==
  /\ LruInit
  /\ CasInit
  /\ pc = [t \in Threads |-> "idle"]
  /\ arg = [t \in Threads |-> NULL]
  /\ data = [t \in Threads |-> NULL]
  /\ victim = [t \in Threads |-> NULL]
  /\ path = [t \in Threads |-> NULL]
  /\ result = [t \in Threads |-> 0]
  /\ crashed = FALSE
  /\ expect = [k \in Keys |-> NULL]

-----------------------------------------------------------------------------

\* What a GET of k finds: the memory copy hides the one on disk.
Lookup(k) == IF Resident(k) THEN val[k] ELSE dat[k]

\* The operation of t goes on with its next call.
Goto(t, step) ==
  /\ pc' = [pc EXCEPT ![t] = step]
  /\ UNCHANGED <<result, crashed>>

\* The operation of t returns n; its locals are gone.
Return(t, n) ==
  /\ pc' = [pc EXCEPT ![t] = "idle"]
  /\ data' = [data EXCEPT ![t] = NULL]
  /\ result' = [result EXCEPT ![t] = n]
  /\ UNCHANGED crashed

Crash ==
  /\ crashed' = TRUE
  /\ UNCHANGED <<pc, data, result>>

Begin(t, op) == pc[t] = "idle" /\ op \in Operations

\* Freeing the node of k leaves every thread's tail pointer to it dangling.
FreesNode(k) ==
  victim' = [t \in Threads |-> IF victim[t] = k THEN Freed ELSE victim[t]]

-----------------------------------------------------------------------------
(* pod_cache_put                                                           *)

PutFirst(t, k, v) ==
  /\ Begin(t, "put")
  /\ arg' = [arg EXCEPT ![t] = k]
  /\ \E r \in {OK, FAIL, FULL} :
       /\ lru_cache_put(k, v, r)
       /\ \/ /\ r = OK
             /\ Return(t, PartOf[k])
             /\ expect' = [expect EXCEPT ![k] = v]
          \/ r = FAIL /\ Return(t, -1) /\ UNCHANGED expect
          \/ /\ r = FULL /\ Goto(t, "get_tail")
             /\ data' = [data EXCEPT ![t] = v]
             /\ UNCHANGED expect
  /\ UNCHANGED <<casVars, victim, path>>

\* Mutant: the tail is dropped without being written to disk.
GetTailDiscards(t) ==
  LET tail == lru_cache_get_tail_node(PartOf[arg[t]]) IN
  /\ pc[t] = "get_tail"
  /\ IF tail = NULL THEN Return(t, -1)
                    ELSE Goto(t, "drop_tail") /\ UNCHANGED data
  /\ UNCHANGED <<lruVars, casVars, arg, path, victim, expect>>

GetTail(t) ==
  LET tail == lru_cache_get_tail_node(PartOf[arg[t]]) IN
  /\ pc[t] = "get_tail"
  /\ victim' = [victim EXCEPT ![t] = tail]
  /\ IF tail = NULL THEN Return(t, -1)
                    ELSE Goto(t, "spill") /\ UNCHANGED data
  /\ UNCHANGED <<lruVars, casVars, arg, path, expect>>

\* The key and the value cas_put reads through the tail pointer: those of the
\* node, or anything if the node was freed meanwhile.
Pointee(t) ==
  IF victim[t] = Freed THEN Keys \X Contents ELSE {<<victim[t], val[victim[t]]>>}

\* Mutant: the result of cas_put is not looked at.
SpillIgnoresErrors(t) ==
  /\ pc[t] = "spill"
  /\ \E x \in Pointee(t), r \in {OK, FAIL, SHORT} :
       /\ cas_put(x[1], x[2], r)
       /\ path' = [path EXCEPT ![t] = x[1]]
  /\ Goto(t, "register")
  /\ victim' = [victim EXCEPT ![t] = NULL]
  /\ UNCHANGED <<lruVars, arg, data, expect>>

Spill(t) ==
  /\ pc[t] = "spill"
  /\ \/ victim[t] = Freed /\ Crash /\ UNCHANGED <<casVars, path>>
     \/ \E x \in Pointee(t), r \in CasCodes :
          /\ cas_put(x[1], x[2], r)
          /\ \/ r = CRASH /\ Crash /\ UNCHANGED path
             \/ /\ r = OK /\ Goto(t, "register")
                /\ path' = [path EXCEPT ![t] = x[1]]
                /\ UNCHANGED data
             \/ r \in {FAIL, SHORT} /\ Return(t, -1) /\ UNCHANGED path
  /\ victim' = [victim EXCEPT ![t] = NULL]
  /\ UNCHANGED <<lruVars, arg, expect>>

\* The result is ignored.
Register(t) ==
  /\ pc[t] = "register"
  /\ \E r \in {OK, FAIL} : cas_add_to_registry(path[t], r)
  /\ Goto(t, "drop_tail")
  /\ UNCHANGED <<lruVars, arg, data, victim, path, expect>>

\* Whatever node is the tail by now is removed; the result is ignored.
DropTail(t) ==
  LET p == PartOf[arg[t]] IN
  /\ pc[t] = "drop_tail"
  /\ \E r \in {OK, FAIL} : lru_cache_remove_tail(p, r)
  /\ IF order[p] = << >> THEN UNCHANGED victim
                         ELSE FreesNode(lru_cache_get_tail_node(p))
  /\ path' = [path EXCEPT ![t] = NULL]
  /\ Goto(t, "retry")
  /\ UNCHANGED <<casVars, arg, data, expect>>

\* Mutant: a failed retry returns the code of lru_cache_put.
PutRetryReturnsCode(t) ==
  LET k == arg[t] IN
  /\ pc[t] = "retry"
  /\ \E r \in {OK, FAIL, FULL} :
       /\ lru_cache_put(k, data[t], r)
       /\ \/ /\ r = OK
             /\ Return(t, PartOf[k])
             /\ expect' = [expect EXCEPT ![k] = data[t]]
          \/ r # OK /\ Return(t, r) /\ UNCHANGED expect
  /\ UNCHANGED <<casVars, arg, victim, path>>

\* Mutant: the result of the second put is not looked at.
PutRetryIgnoresResult(t) ==
  LET k == arg[t] IN
  /\ pc[t] = "retry"
  /\ \E r \in {OK, FAIL, FULL} : lru_cache_put(k, data[t], r)
  /\ Return(t, PartOf[k])
  /\ expect' = [expect EXCEPT ![k] = data[t]]
  /\ UNCHANGED <<casVars, arg, victim, path>>

PutRetry(t) ==
  LET k == arg[t] IN
  /\ pc[t] = "retry"
  /\ \E r \in {OK, FAIL, FULL} :
       /\ lru_cache_put(k, data[t], r)
       /\ \/ /\ r = OK
             /\ Return(t, PartOf[k])
             /\ expect' = [expect EXCEPT ![k] = data[t]]
          \/ r # OK /\ Return(t, -1) /\ UNCHANGED expect
  /\ UNCHANGED <<casVars, arg, victim, path>>

-----------------------------------------------------------------------------
(* pod_cache_get                                                           *)

GetMemory(t, k) ==
  /\ Begin(t, "get")
  /\ arg' = [arg EXCEPT ![t] = k]
  /\ \E r \in {OK, FAIL, MISS, CRASH}, v \in {val[k], NULL} :
       /\ lru_cache_get(k, r, v)
       /\ \/ r = OK /\ Return(t, PartOf[k])
          \/ r = FAIL /\ Return(t, -1)
          \/ r = MISS /\ Goto(t, "read_disk") /\ UNCHANGED data
          \/ r = CRASH /\ Crash
  /\ UNCHANGED <<casVars, victim, path, expect>>

ReadDisk(t) ==
  /\ pc[t] = "read_disk"
  /\ \E r \in {OK, FAIL, CRASH}, v \in {dat[arg[t]], NULL} :
       /\ cas_get(arg[t], r, v)
       /\ \/ r = OK /\ Goto(t, "promote") /\ data' = [data EXCEPT ![t] = v]
          \/ r = FAIL /\ Return(t, -1)
          \/ r = CRASH /\ Crash
  /\ UNCHANGED <<lruVars, arg, victim, path, expect>>

\* A failed promotion is only logged.
Promote(t) ==
  /\ pc[t] = "promote"
  /\ \E r \in {OK, FAIL, FULL} : lru_cache_put(arg[t], data[t], r)
  /\ Goto(t, "unspill")
  /\ UNCHANGED <<casVars, arg, data, victim, path, expect>>

\* Mutant: a promotion that failed is reported as a miss.
UnspillReportsPromotion(t) ==
  /\ pc[t] = "unspill"
  /\ \E r \in {OK, FAIL, CRASH} :
       /\ cas_evict(arg[t], r)
       /\ IF r = CRASH THEN Crash ELSE Return(t, IF Resident(arg[t]) THEN 0 ELSE -1)
  /\ UNCHANGED <<lruVars, arg, victim, path, expect>>

Unspill(t) ==
  /\ pc[t] = "unspill"
  /\ \E r \in {OK, FAIL, CRASH} :
       /\ cas_evict(arg[t], r)
       /\ IF r = CRASH THEN Crash ELSE Return(t, 0)
  /\ UNCHANGED <<lruVars, arg, victim, path, expect>>

-----------------------------------------------------------------------------
(* pod_cache_evict                                                         *)

\* history: a DEL that answers 1 deletes the key
EvictMemory(t, k) ==
  /\ Begin(t, "evict")
  /\ arg' = [arg EXCEPT ![t] = k]
  /\ \E r \in {OK, MISS} :
       /\ lru_cache_evict(k, r)
       /\ \/ /\ r = OK /\ Return(t, 1)
             /\ FreesNode(k)
             /\ expect' = [expect EXCEPT ![k] = NULL]
          \/ r = MISS /\ Goto(t, "evict_disk") /\ UNCHANGED <<data, victim, expect>>
  /\ UNCHANGED <<casVars, path>>

EvictDisk(t) ==
  /\ pc[t] = "evict_disk"
  /\ \E r \in {OK, FAIL, CRASH} :
       /\ cas_evict(arg[t], r)
       /\ \/ r = OK /\ Return(t, 1) /\ expect' = [expect EXCEPT ![arg[t]] = NULL]
          \/ r = FAIL /\ Return(t, 0) /\ UNCHANGED expect
          \/ r = CRASH /\ Crash /\ UNCHANGED expect
  /\ UNCHANGED <<lruVars, arg, victim, path>>

-----------------------------------------------------------------------------

Step(t) ==
  \/ \E k \in Keys : \/ \E v \in Values : PutFirst(t, k, v)
                     \/ GetMemory(t, k)
                     \/ EvictMemory(t, k)
  \/ GetTail(t) \/ Spill(t) \/ Register(t) \/ DropTail(t) \/ PutRetry(t)
  \/ ReadDisk(t) \/ Promote(t) \/ Unspill(t)
  \/ EvictDisk(t)

\* After a crash the process is gone.
Stopped == crashed /\ UNCHANGED vars

Next == (~ crashed /\ \E t \in Threads : Step(t)) \/ Stopped

Spec == Init /\ [][Next]_vars
-----------------------------------------------------------------------------
(* What must hold.                                                         *)

\* A step changes what a reader finds of no key but those that the threads'
\* operations are about, except that the disk may truncate a value unnoticed.
OtherKeysKept ==
  \A k \in Keys : Lookup(k)' # Lookup(k) =>
    \/ \E t \in Threads : arg'[t] = k
    \/ IoMayFail /\ Lookup(k)' = Torn

\* Once a SET is acknowledged, and until a DEL answers 1, a reader finds that
\* SET's value or nothing: the copies that spills, promotions and deletions left
\* on disk are always hidden by a newer one in memory, never read in its place.
ReadsLastWrite ==
  \A k \in Keys : expect[k] # NULL =>
    Lookup(k) \in {expect[k], NULL} \cup (IF IoMayFail THEN {Torn} ELSE {})

\* Without faults a readable key becomes unreadable only through a DEL of that
\* key, or through a GET of it that read the disk and found no room to promote
\* it: no SET, refused or not, loses a value, neither its own nor another.
LossOnlyByDelOrFailedPromotion ==
  [][\A k \in Keys : Lookup(k) # NULL /\ Lookup(k)' = NULL =>
       \E t \in Threads :
         /\ arg'[t] = k
         /\ \/ pc[t] = "idle" /\ result'[t] = 1 /\ expect'[k] = NULL
            \/ pc[t] = "evict_disk"
            \/ pc[t] = "unspill" /\ data[t] # NULL /\ NoRoom(k, data[t])]_vars

\* No path is registered twice, no slot of the registry holds a freed string
\* (cas_evict frees the wrong one when it removes any but the last entry), and
\* every registered path still has its directory and its time.dat.
RegistryIntact ==
  /\ \A i, j \in DOMAIN registry : registry[i] = registry[j] => i = j
  /\ \A i \in DOMAIN registry :
       registry[i] \in Keys /\ depth[registry[i]] = Levels /\ timed[registry[i]]

\* cas_add_to_registry never writes past the slots it has allocated.
RegistryInBounds == Len(registry) <= allocated

\* The node pod_cache_put is about to remove from the list is the one it wrote
\* to disk.
DropsWhatItSpilled ==
  \A t \in Threads : pc[t] \in {"register", "drop_tail"} =>
    /\ lru_cache_get_tail_node(PartOf[arg[t]]) = path[t]
    /\ dat[path[t]] \in Written(val[path[t]])

\* test_disk_swap.sh, "Verifying deletions": a key whose DEL answered 1 is not
\* found again until it is set again.
DeletedStaysDeleted == \A k \in Keys : expect[k] = NULL => Lookup(k) = NULL
=============================================================================
