----------------------------- MODULE CacheRaces -----------------------------
(***************************************************************************)
(* What several client threads do at once to the structures they share:    *)
(* the list of a partition (LruRaces), and the registry of the paths on    *)
(* disk (cas_add_to_registry in cas.c), one memory access per step.        *)
(* Nothing locks the registry.  Allocations succeed here; CasOps has their *)
(* failures.  A path, named by its key, is added once, as pod_cache_put    *)
(* does: a key cannot be spilled a second time.                            *)
(***************************************************************************)
EXTENDS LruRaces

CONSTANTS
  Nothing,          \* no path: an unset slot
  Blank,            \* a slot with an allocated string nothing was copied to
  InitialCapacity   \* CAS_REGISTRY_INITIAL_CAPACITY

ASSUME RegistryAssumption ==
  /\ IsFiniteSet(Keys)
  /\ Blank \notin Keys /\ Nothing \notin Keys \cup {Blank}
  /\ InitialCapacity \in Nat \ {0}

VARIABLES
  slots,          \* the entries array, by index
  entries_count,
  capacity,
  allocated,      \* the number of slots the array really has
  moved,          \* realloc has freed the array registry->entries points to
  local,          \* local[t]: entries_count as thread t read it to count up
  added           \* history: the paths whose addition returned 0

registryVars == <<slots, entries_count, capacity, allocated, moved, local, added>>
vars == <<listVars, threadVars, registryVars>>

\* Bound: no slot behind the one for the last path is looked at.
MaxSlots == Cardinality(Keys)

\* Types; and one slot is always left when no addition is under way.
TypeOK ==
  /\ ListTypeOK
  /\ pc \in [Threads -> ListStatements \cup {"test", "double", "realloc", "store", "malloc",
                                             "copy", "count", "count_up"}]
  /\ slots \in [0 .. MaxSlots -> Keys \cup {Nothing, Blank}]
  /\ added \subseteq Keys
  /\ moved \in BOOLEAN
  /\ {entries_count, capacity, allocated} \subseteq Nat
  /\ Quiet => entries_count < allocated \/ crashed

\* cas_create_registry
Init ==
  /\ ListInit
  /\ slots = [i \in 0 .. MaxSlots |-> Nothing]
  /\ entries_count = 0
  /\ capacity = InitialCapacity
  /\ allocated = InitialCapacity
  /\ moved = FALSE
  /\ local = [t \in Threads |-> 0]
  /\ added = {}

-----------------------------------------------------------------------------
(* cas_add_to_registry                                                     *)

Add(t, p) ==
  /\ p \notin added /\ \A u \in Threads : op[u] = "add" => node[u] # p
  /\ Begin(t, "add", p, "test")
  /\ UNCHANGED <<mutex, registryVars>>

TestRoom(t) ==
  /\ At(t, "test")
  /\ Goto(t, IF entries_count + 1 >= capacity THEN "double" ELSE "malloc")
  /\ UNCHANGED registryVars

Double(t) ==
  /\ At(t, "double")
  /\ capacity' = 2 * capacity
  /\ Goto(t, "realloc")
  /\ UNCHANGED <<slots, entries_count, allocated, moved, local, added>>

\* The old array is gone from here on.
Realloc(t) ==
  /\ At(t, "realloc")
  /\ IF moved THEN Crash ELSE Goto(t, "store")
  /\ moved' = TRUE
  /\ allocated' = capacity
  /\ UNCHANGED <<slots, entries_count, capacity, local, added>>

StoreEntries(t) ==
  /\ At(t, "store")
  /\ moved' = FALSE
  /\ Goto(t, "malloc")
  /\ UNCHANGED <<slots, entries_count, capacity, allocated, local, added>>

\* The slot entries_count now points to gets x, unless it is not there.
StoreSlot(t, x, bad, next) ==
  /\ IF moved \/ bad
       THEN Crash /\ UNCHANGED slots
       ELSE slots' = [slots EXCEPT ![entries_count] = x] /\ Goto(t, next)
  /\ UNCHANGED <<entries_count, capacity, allocated, moved, local, added>>

\* a new string,
Malloc(t) == At(t, "malloc") /\ StoreSlot(t, Blank, entries_count >= allocated, "copy")

\* and in it the path
Copy(t) == At(t, "copy") /\ StoreSlot(t, node[t], slots[entries_count] = Nothing, "count")

ReadCount(t) ==
  /\ At(t, "count")
  /\ local' = [local EXCEPT ![t] = entries_count]
  /\ Goto(t, "count_up")
  /\ UNCHANGED <<slots, entries_count, capacity, allocated, moved, added>>

CountUp(t) ==
  /\ At(t, "count_up")
  /\ entries_count' = local[t] + 1
  /\ added' = added \cup {node[t]}
  /\ local' = [local EXCEPT ![t] = 0]
  /\ Goto(t, "idle")
  /\ UNCHANGED <<slots, capacity, allocated, moved>>

RegistryStep(t) ==
  \/ \E p \in Keys : Add(t, p)
  \/ TestRoom(t) \/ Double(t) \/ Realloc(t) \/ StoreEntries(t)
  \/ Malloc(t) \/ Copy(t) \/ ReadCount(t) \/ CountUp(t)

Next ==
  \E t \in Threads : \/ ListStep(t) /\ UNCHANGED registryVars
                     \/ RegistryStep(t) /\ UNCHANGED listVars

Spec == Init /\ [][Next]_vars
=============================================================================
