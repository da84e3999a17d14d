------------------------------ MODULE LruRaces ------------------------------
(***************************************************************************)
(* The LRU list of one partition (lru_cache.c) when several client threads *)
(* work on it, one C statement per step.  Only lru_cache_put takes the     *)
(* mutex; lru_cache_get and lru_cache_remove_tail change the same list     *)
(* without it.  (lru_cache_evict, unlocked too, unlinks as remove_tail     *)
(* does and is not repeated here.)                                         *)
(*                                                                         *)
(* A node is named by its key.  The table lookup that finds it, the copy   *)
(* of the value and, in the other direction, leaving the table and being   *)
(* freed, are one step each: the races shown are those of the list alone.  *)
(* Whether a value fits and whether its allocations succeed is left open.  *)
(* An operation that waits for the mutex has not begun.                    *)
(***************************************************************************)
EXTENDS Naturals, FiniteSets

CONSTANTS
  Keys,
  Threads,
  NULL,         \* the null pointer, no thread and no operation
  Operations,   \* which of "get", "put", "drop" and "add" the threads call
  Overlapping   \* those that may be under way on several threads at once

ASSUME RacesAssumption ==
  /\ NULL \notin Keys \cup Threads \cup {"get", "put", "drop", "add"}
  /\ Operations \subseteq {"get", "put", "drop", "add"}
  /\ Overlapping \subseteq Operations

VARIABLES
  list,     \* head, tail and the next and prev pointers of every node
  live,     \* the nodes that are allocated and in the table
  mutex,    \* the thread that holds the partition's mutex, or NULL
  op,       \* op[t]: the operation thread t is in, or NULL
  pc,       \* pc[t]: its next statement
  node,     \* node[t]: the node it works on
  crashed   \* a thread has followed a null or freed pointer

threadVars == <<mutex, op, pc, node, crashed>>
listVars == <<list, live>>

Pointer == Keys \cup {NULL}

ListStatements == {"idle", "room", "unlock", "m_head", "m_alone", "m_tail", "t1", "t2", "u1", "u2",
                   "x1", "x2", "x3", "x4", "a1", "a2", "a3", "a4", "e2", "e3",
                   "r_head", "r_none", "r_tail", "r_next", "free"}

\* Types; and every way out of lru_cache_put gives the mutex back.
ListTypeOK ==
  /\ list \in [head : Pointer, tail : Pointer, next : [Keys -> Pointer], prev : [Keys -> Pointer]]
  /\ live \subseteq Keys
  /\ mutex \in {t \in Threads : pc[t] # "idle"} \cup {NULL}
  /\ op \in [Threads -> Operations \cup {NULL}]
  /\ node \in [Threads -> Pointer]
  /\ crashed \in BOOLEAN

\* lru_cache_create; no thread is at work.
ListInit ==
  /\ list = [head |-> NULL, tail |-> NULL,
             next |-> [k \in Keys |-> NULL], prev |-> [k \in Keys |-> NULL]]
  /\ live = {}
  /\ mutex = NULL
  /\ op = [t \in Threads |-> NULL]
  /\ pc = [t \in Threads |-> "idle"]
  /\ node = [t \in Threads |-> NULL]
  /\ crashed = FALSE

-----------------------------------------------------------------------------

Quiet == \A t \in Threads : pc[t] = "idle"

At(t, l) == ~ crashed /\ pc[t] = l

\* Thread t starts operation o on node n, at statement l.
Begin(t, o, n, l) ==
  /\ At(t, "idle") /\ o \in Operations
  /\ \A u \in Threads : op[u] # NULL => {o, op[u]} \subseteq Overlapping
  /\ op' = [op EXCEPT ![t] = o]
  /\ pc' = [pc EXCEPT ![t] = l]
  /\ node' = [node EXCEPT ![t] = n]
  /\ UNCHANGED crashed

\* On to statement l; after the last one, "idle", the operation is over.
Goto(t, l) ==
  /\ pc' = [pc EXCEPT ![t] = l]
  /\ op' = [op EXCEPT ![t] = IF l = "idle" THEN NULL ELSE @]
  /\ UNCHANGED <<mutex, node, crashed>>

\* Where move_to_head and add_to_head return to.
End(t) == IF op[t] = "put" THEN "unlock" ELSE "idle"

Crash == crashed' = TRUE /\ UNCHANGED <<mutex, op, pc, node>>

\* A statement that only looks.
Test(t, l, next) == At(t, l) /\ Goto(t, next) /\ UNCHANGED <<list, live>>

\* A statement that follows the pointers ps and, if they lead to nodes, leaves
\* the list as given.
Write(t, l, ps, after, next) ==
  /\ At(t, l)
  /\ IF ps \subseteq live THEN list' = after /\ Goto(t, next)
                          ELSE Crash /\ UNCHANGED list
  /\ UNCHANGED live

-----------------------------------------------------------------------------
(* move_to_head                                                            *)

MoveTests(t) ==
  LET n == node[t] IN
  \/ Test(t, "m_head", IF list.head = n THEN End(t) ELSE "m_alone")
  \/ Write(t, "m_alone", {n}, list,
           IF list.prev[n] = NULL /\ list.next[n] = NULL THEN End(t) ELSE "m_tail")
  \/ Test(t, "m_tail", IF list.tail = n THEN "t1" ELSE "u1")

\* caso in cui sono in coda
MoveTail(t) ==
  LET n == node[t] IN
  \/ Write(t, "t1", {n, list.prev[n]}, [list EXCEPT !.next[list.prev[n]] = NULL], "t2")
  \/ Write(t, "t2", {n}, [list EXCEPT !.tail = list.prev[n]], "x1")

\* caso in cui sono nel mezzo
MoveMiddle(t) ==
  LET n == node[t] IN
  \/ Write(t, "u1", {n, list.prev[n]}, [list EXCEPT !.next[list.prev[n]] = list.next[n]], "u2")
  \/ Write(t, "u2", {n, list.next[n]}, [list EXCEPT !.prev[list.next[n]] = list.prev[n]], "x1")

\* The statements both cases end with.
LinkFirst(t) ==
  LET n == node[t] IN
  \/ Write(t, "x1", {n}, [list EXCEPT !.prev[n] = NULL], "x2")
  \/ Write(t, "x2", {n}, [list EXCEPT !.next[n] = list.head], "x3")
  \/ Write(t, "x3", {list.head} \ {NULL},
           IF list.head = NULL THEN list ELSE [list EXCEPT !.prev[list.head] = n], "x4")
  \/ Write(t, "x4", {}, [list EXCEPT !.head = n], End(t))

move_to_head(t) == MoveTests(t) \/ MoveTail(t) \/ MoveMiddle(t) \/ LinkFirst(t)

\* The first node of a list is its tail too.
add_to_head(t) ==
  LET n == node[t] IN
  \/ Write(t, "a1", {n}, [list EXCEPT !.prev[n] = NULL], "a2")
  \/ list.head # NULL /\ Test(t, "a2", "a3")
  \/ list.head = NULL /\ Write(t, "a2", {}, [list EXCEPT !.head = n], "e2")
  \/ Write(t, "e2", {}, [list EXCEPT !.tail = n], "e3")
  \/ Write(t, "e3", {n}, [list EXCEPT !.next[n] = NULL], End(t))
  \/ Write(t, "a3", {n}, [list EXCEPT !.next[n] = list.head], "a4")
  \/ Write(t, "a4", {list.head}, [list EXCEPT !.prev[list.head] = n], "x4")

-----------------------------------------------------------------------------

(* lru_cache_put: lock, look for room and for the key, change the list,    *)
(* unlock.                                                                 *)

PutLocks(t, k) ==
  /\ mutex = NULL /\ mutex' = t
  /\ Begin(t, "put", k, "room")
  /\ UNCHANGED listVars

\* Mutant: the early return forgets to unlock.
PutReturnsLocked(t) == Test(t, "room", "idle")

\* There is no room, or an allocation fails: the list stays as it is.
PutReturnsEarly(t) == Test(t, "room", "unlock")

\* Mutant: the mutex only guards the test of the capacity.
PutStoresUnlocked(t) ==
  LET n == node[t] IN
  /\ At(t, "room") /\ mutex' = NULL
  /\ pc' = [pc EXCEPT ![t] = IF n \in live THEN "m_head" ELSE "a1"]
  /\ live' = live \cup {n}
  /\ list' = IF n \in live THEN list ELSE [list EXCEPT !.next[n] = NULL, !.prev[n] = NULL]
  /\ UNCHANGED <<op, node, crashed>>

\* A key that is not there gets a node from calloc and enters the table.
PutStores(t) ==
  LET n == node[t] IN
  /\ At(t, "room")
  /\ Goto(t, IF n \in live THEN "m_head" ELSE "a1")
  /\ live' = live \cup {n}
  /\ list' = IF n \in live THEN list ELSE [list EXCEPT !.next[n] = NULL, !.prev[n] = NULL]

PutUnlocks(t) ==
  /\ At(t, "unlock") /\ mutex' = NULL
  /\ pc' = [pc EXCEPT ![t] = "idle"]
  /\ op' = [op EXCEPT ![t] = NULL]
  /\ UNCHANGED <<listVars, node, crashed>>

lru_cache_put(t) ==
  (\E k \in Keys : PutLocks(t, k)) \/ PutReturnsEarly(t) \/ PutStores(t) \/ PutUnlocks(t)

lru_cache_get(t, k) ==
  /\ k \in live
  /\ Begin(t, "get", k, "m_head")
  /\ UNCHANGED <<listVars, mutex>>

lru_cache_remove_tail(t) ==
  LET n == node[t] IN
  \/ /\ list.tail # NULL
     /\ Begin(t, "drop", list.tail, "r_head")
     /\ UNCHANGED <<listVars, mutex>>
  \/ list.head # list.tail /\ Test(t, "r_head", "r_tail")
  \/ /\ list.head = list.tail /\ At(t, "r_head")
     /\ list' = [list EXCEPT !.head = NULL]
     /\ Goto(t, "r_none") /\ UNCHANGED live
  \/ /\ At(t, "r_none")
     /\ list' = [list EXCEPT !.tail = NULL]
     /\ Goto(t, "free") /\ UNCHANGED live
  \/ Write(t, "r_tail", {n}, [list EXCEPT !.tail = list.prev[n]], "r_next")
  \/ Write(t, "r_next", {list.tail}, [list EXCEPT !.next[list.tail] = NULL], "free")
  \/ /\ At(t, "free")
     /\ live' = live \ {n}
     /\ IF n \in live THEN Goto(t, "idle") ELSE Crash
     /\ UNCHANGED list

ListStep(t) ==
  \/ \E k \in Keys : lru_cache_get(t, k)
  \/ lru_cache_put(t) \/ lru_cache_remove_tail(t) \/ move_to_head(t) \/ add_to_head(t)
-----------------------------------------------------------------------------
(* What must hold.                                                         *)

\* The list, followed either way, holds exactly the nodes of the table.
WellFormed ==
  \E s \in [1 .. Cardinality(live) -> live] :
    LET n == Cardinality(live) IN
    /\ \A i, j \in 1 .. n : s[i] = s[j] => i = j
    /\ list.head = (IF n = 0 THEN NULL ELSE s[1])
    /\ list.tail = (IF n = 0 THEN NULL ELSE s[n])
    /\ \A i \in 1 .. n : list.next[s[i]] = (IF i = n THEN NULL ELSE s[i + 1])
    /\ \A i \in 1 .. n : list.prev[s[i]] = (IF i = 1 THEN NULL ELSE s[i - 1])

\* README: "Thread Safety: Fine-grained locking per partition".  No thread
\* follows a null or freed pointer, and whenever no operation is under way the
\* list is whole: no node lost between two threads' pointer updates, no cycle.
ListSurvivesThreads == ~ crashed /\ (Quiet => WellFormed)
=============================================================================
