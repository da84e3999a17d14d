------------------------------- MODULE CasOps -------------------------------
(***************************************************************************)
(* The disk tier (cas.c).  A key's path is Levels directory levels taken   *)
(* from its SHA-256, below which value.dat and time.dat live; two keys     *)
(* never share a level.  Per key the state is how many levels exist, what  *)
(* value.dat holds and whether time.dat exists.  The registry is the       *)
(* dynamic array of the paths that were written, a path standing for its   *)
(* key.                                                                    *)
(*                                                                         *)
(* As in LruOps, every function takes its return code r as a parameter.    *)
(* A removal succeeds on an empty directory or an existing file; with      *)
(* IoMayFail every system call may also fail for reasons of its own, and   *)
(* with MemMayFail the unchecked result of create_fs_path may be null.     *)
(***************************************************************************)
EXTENDS CacheData, Sequences, SequencesExt

CONSTANTS
  Freed,            \* a registry slot whose string has been freed
  InitialCapacity,  \* CAS_REGISTRY_INITIAL_CAPACITY
  Levels            \* directory levels of a path (four in cas.c)

ASSUME CasAssumption ==
  /\ Freed \notin Keys
  /\ InitialCapacity \in Nat \ {0}
  /\ Levels \in Nat \ {0}

VARIABLES
  depth,      \* depth[k]: how many of the directory levels of k exist
  dat,        \* dat[k]: the contents of value.dat, NULL when there is none
  timed,      \* timed[k]: time.dat exists
  registry,   \* entries[0 .. entries_count - 1]
  capacity,   \* the capacity field
  allocated   \* the number of slots the entries array really has

files   == <<depth, dat, timed>>
slots   == <<registry, capacity, allocated>>
casVars == <<depth, dat, timed, registry, capacity, allocated>>

CasTypeOK ==
  /\ depth \in [Keys -> 0 .. Levels]
  /\ dat \in [Keys -> Contents \cup {NULL}]
  /\ timed \in [Keys -> BOOLEAN]
  /\ registry \in Seq(Keys \cup {Freed})
  /\ capacity \in Nat
  /\ allocated \in Nat

\* cas_create_registry
CasInit ==
  /\ depth = [k \in Keys |-> 0]
  /\ dat = [k \in Keys |-> NULL]
  /\ timed = [k \in Keys |-> FALSE]
  /\ registry = << >>
  /\ capacity = InitialCapacity
  /\ allocated = InitialCapacity

\* The outcomes of removing value.dat.
RemovedDat(k) == {NULL} \cup (IF IoMayFail THEN {dat[k]} ELSE {})

\* The path of k exists down to its leaf.  It is removed bottom up, stopping
\* at the first directory that cannot be removed: d levels and contents x are
\* left.  The leaf only goes if value.dat and time.dat are both gone.
cas_remove(k, d, x, ok) ==
  /\ x \in RemovedDat(k)
  /\ IF x # NULL \/ timed[k]
       THEN ~ ok /\ d = Levels
       ELSE \/ ok /\ d = 0
            \/ IoMayFail /\ ~ ok /\ d \in 1 .. Levels

\* An existing leaf is removed first; then the levels are created top down.
cas_create_directory(k, d, x, ok) ==
  \E d0 \in 0 .. Levels, removed \in BOOLEAN :
    /\ IF depth[k] = Levels
         THEN cas_remove(k, d0, x, removed)
         ELSE d0 = depth[k] /\ x = dat[k] /\ removed
    /\ \/ ~ removed /\ ~ ok /\ d = d0
       \/ removed /\ ok /\ d = Levels
       \/ removed /\ IoMayFail /\ ~ ok /\ d \in d0 .. (Levels - 1)

\* What a complete fwrite leaves in the file: the result of fclose, where
\* buffered bytes reach the disk, is ignored.
Written(v) == {v} \cup (IF IoMayFail THEN {Torn} ELSE {})

\* value.dat is written first, time.dat second.
WriteFiles(k, v, r) ==
  \/ /\ IoMayFail /\ r = FAIL                      \* fopen value.dat
     /\ dat' = [dat EXCEPT ![k] = NULL]
     /\ UNCHANGED timed
  \/ /\ IoMayFail /\ r = SHORT                     \* fwrite
     /\ dat' = [dat EXCEPT ![k] = Torn]
     /\ UNCHANGED timed
  \/ \E w \in Written(v) :
       /\ dat' = [dat EXCEPT ![k] = w]
       /\ \/ IoMayFail /\ r = FAIL /\ UNCHANGED timed     \* fopen time.dat
          \/ r = OK /\ timed' = [timed EXCEPT ![k] = TRUE]

\* Mutant: a path that exists is taken to hold the value already.
PutTrustsExistingPath(k, v, r) ==
  /\ UNCHANGED slots
  /\ IF v = NULL \/ (depth[k] = Levels /\ dat[k] # NULL)
       THEN r = OK /\ UNCHANGED files
       ELSE depth' = [depth EXCEPT ![k] = Levels] /\ WriteFiles(k, v, r)

cas_put(k, v, r) ==
  /\ UNCHANGED slots
  /\ \/ v = NULL /\ r = FAIL /\ UNCHANGED files
     \/ v # NULL /\ MemMayFail /\ r = CRASH /\ UNCHANGED files
     \/ /\ v # NULL
        /\ \E d \in 0 .. Levels, x \in {dat[k], NULL}, ok \in BOOLEAN :
             /\ cas_create_directory(k, d, x, ok)
             /\ depth' = [depth EXCEPT ![k] = d]
             /\ IF ok THEN WriteFiles(k, v, r)
                      ELSE r = FAIL /\ dat' = [dat EXCEPT ![k] = x] /\ UNCHANGED timed

\* buffer receives the whole file.
cas_get(k, r, v) ==
  /\ UNCHANGED casVars
  /\ \/ dat[k] # NULL /\ r = OK /\ v = dat[k]
     \/ (dat[k] = NULL \/ MemMayFail \/ IoMayFail) /\ r = FAIL /\ v = NULL
     \/ MemMayFail /\ r = CRASH /\ v = NULL

\* The registry loop of cas_evict.  The entries behind the match shift down and
\* the string freed is the one in the last slot, which by then is also the one
\* before it; a freed string compares as it may.
Unregister(k) ==
  /\ UNCHANGED <<capacity, allocated>>
  /\ \/ \E i \in DOMAIN registry :
          /\ registry[i] \in {k, Freed}
          /\ \A j \in 1 .. (i - 1) : registry[j] # k
          /\ registry' = IF i = Len(registry)
                           THEN RemoveAt(registry, i)
                           ELSE [RemoveAt(registry, i) EXCEPT ![Len(registry) - 1] = Freed]
     \/ /\ \A i \in DOMAIN registry : registry[i] # k
        /\ UNCHANGED registry

\* Mutant: time.dat is removed too, so that the registry loop is reached.
EvictRemovesTime(k, r) ==
  IF dat[k] # NULL
    THEN /\ dat' = [dat EXCEPT ![k] = NULL]
         /\ timed' = [timed EXCEPT ![k] = FALSE]
         /\ depth' = [depth EXCEPT ![k] = 0]
         /\ r = OK /\ Unregister(k)
    ELSE r = FAIL /\ UNCHANGED casVars

\* All five removals are tried, bottom up.  The registry is only touched if
\* every one of them found something and removed it.
\* (Its path is freed without the strings in it: CacheLife counts them.)
cas_evict(k, r) ==
  \/ MemMayFail /\ r = CRASH /\ UNCHANGED casVars
  \/ \E x \in RemovedDat(k), d \in 0 .. depth[k] :
       /\ (x # NULL \/ timed[k]) => d = depth[k]
       /\ ~ IoMayFail /\ x = NULL /\ ~ timed[k] => d = 0
       /\ dat' = [dat EXCEPT ![k] = x]
       /\ depth' = [depth EXCEPT ![k] = d]
       /\ UNCHANGED timed
       /\ IF depth[k] = Levels /\ dat[k] # NULL /\ x = NULL /\ d = 0
            THEN r = OK /\ Unregister(k)
            ELSE r = FAIL /\ UNCHANGED slots

\* Mutant: the array grows one entry too late.
AddGrowsLate(k, r) ==
  LET grow == Len(registry) > capacity
      cap  == IF grow THEN 2 * capacity ELSE capacity
  IN
  /\ UNCHANGED files
  /\ capacity' = cap
  /\ allocated' = IF grow THEN cap ELSE allocated
  /\ r = OK
  /\ registry' = Append(registry, k)

\* The capacity is doubled before realloc is known to have succeeded.
cas_add_to_registry(k, r) ==
  LET grow == Len(registry) + 1 >= capacity
      cap  == IF grow THEN 2 * capacity ELSE capacity
  IN
  /\ UNCHANGED files
  /\ capacity' = cap
  /\ \/ /\ grow /\ MemMayFail /\ r = FAIL            \* realloc
        /\ UNCHANGED <<registry, allocated>>
     \/ /\ allocated' = IF grow THEN cap ELSE allocated
        /\ \/ MemMayFail /\ r = FAIL /\ UNCHANGED registry     \* malloc
           \/ r = OK /\ registry' = Append(registry, k)
=============================================================================
