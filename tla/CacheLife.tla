----------------------------- MODULE CacheLife ------------------------------
(***************************************************************************)
(* The life of a pod cache (pod_cache.c): pod_cache_create with every      *)
(* allocation it makes, the operations of PodCache while it is live, and   *)
(* pod_cache_destroy with the removal of the directory tree (cas.c).       *)
(*                                                                         *)
(* Each call that allocates or frees is one step.  heap and parts say      *)
(* what is allocated for the cache.  The removal of the tree is a walk     *)
(* whose steps are the readdir, opendir, remove and rmdir of the code; any *)
(* of them may fail.                                                       *)
(* Destruction starts when no operation is under way; what a thread would  *)
(* meet that is still at work then is a question of Server.                *)
(***************************************************************************)
EXTENDS PodCache

VARIABLES
  phase,  \* "create", "live", "cleanup", "destroy", "undo" or "over"
  heap,   \* which of "cache", "registry" and "array" are allocated, and
          \* "strings", the path strings cas_evict has not freed
  parts,  \* which partitions are allocated
  walk,   \* where cleanup is in the tree
  failed  \* history: the keys on whose path a call of cleanup has failed

lifeVars == <<vars, phase, heap, parts, walk, failed>>

\* at: the key whose directories cleanup is in, NULL in the base directory;
\* level: how many of them it has entered; entries: what readdir has still to
\* return in the innermost; rest: and in the base directory.
Walks == [at : Keys \cup {NULL}, level : 0 .. Levels,
          entries : SUBSET {"directory", "value.dat", "time.dat"}, rest : SUBSET Keys]

InBase(rest) == [at |-> NULL, level |-> 0, entries |-> {}, rest |-> rest]

\* Types, in every phase of the cache.
LifeTypeOK ==
  /\ TypeOK
  /\ phase \in {"create", "live", "cleanup", "destroy", "undo", "over"}
  /\ heap \subseteq {"cache", "registry", "array", "strings"}
  /\ parts \subseteq Partitions
  /\ walk \in Walks
  /\ failed \subseteq Keys

LifeInit ==
  /\ Init
  /\ phase = "create" /\ heap = {} /\ parts = {}
  /\ walk = InBase({}) /\ failed = {}

Allocate(x) == phase = "create" /\ x \notin heap /\ heap' = heap \cup {x}

\* The partitions are built in the order of their index.
NextPartition(p) == p \notin parts /\ \A q \in Partitions : q < p => q \in parts

-----------------------------------------------------------------------------
(* pod_cache_create                                                        *)

CreateCache ==
  /\ heap = {}
  /\ \/ Allocate("cache") /\ UNCHANGED phase
     \/ phase = "create" /\ MemMayFail /\ phase' = "over" /\ UNCHANGED heap
  /\ UNCHANGED <<vars, parts, walk, failed>>

\* On failure cas_create_registry has freed what it had; the cache is freed.
CreateRegistry ==
  /\ heap = {"cache"}
  /\ \/ Allocate("registry") /\ UNCHANGED phase
     \/ phase = "create" /\ MemMayFail /\ phase' = "over" /\ heap' = {}
  /\ UNCHANGED <<vars, parts, walk, failed>>

CreateArray ==
  /\ "registry" \in heap
  /\ \/ Allocate("array") /\ UNCHANGED phase
     \/ /\ phase = "create" /\ "array" \notin heap
        /\ MemMayFail /\ phase' = "undo" /\ UNCHANGED heap
  /\ UNCHANGED <<vars, parts, walk, failed>>

\* The structure, its mutex and its buckets, or none of them.
CreatePartition(p) ==
  /\ "array" \in heap /\ NextPartition(p)
  /\ phase = "create"
  /\ \/ parts' = parts \cup {p} /\ UNCHANGED phase
     \/ MemMayFail /\ phase' = "undo" /\ UNCHANGED parts
  /\ UNCHANGED <<vars, heap, walk, failed>>

Created ==
  /\ phase = "create" /\ "array" \in heap /\ parts = Partitions
  /\ phase' = "live"
  /\ UNCHANGED <<vars, heap, parts, walk, failed>>

\* Mutant: the clean-up after a failure starts with partition 1.
UndoSkipsFirst ==
  /\ phase = "undo"
  /\ heap' = heap \ {"cache", "registry", "array"}
  /\ parts' = parts \cap {0}
  /\ phase' = "over"
  /\ UNCHANGED <<vars, walk, failed>>

\* The partitions already created, the array, the registry (whose directory
\* does not exist yet) and the cache are freed.
UndoCreate ==
  /\ phase = "undo"
  /\ parts' = {p \in parts : \A q \in Partitions : NextPartition(q) => p >= q}
  /\ heap' = heap \ {"cache", "registry", "array"}
  /\ phase' = "over"
  /\ UNCHANGED <<vars, walk, failed>>

-----------------------------------------------------------------------------

\* cas_evict frees the array of its path and not the four strings in it.
EvictReturns ==
  \E t \in Threads : pc[t] \in {"unspill", "evict_disk"} /\ pc'[t] # pc[t]

Operate ==
  /\ phase = "live"
  /\ Next
  /\ heap' = IF EvictReturns THEN heap \cup {"strings"} ELSE heap
  /\ UNCHANGED <<phase, parts, walk, failed>>

-----------------------------------------------------------------------------
(* pod_cache_destroy                                                       *)

\* The strings of the registry are freed, which crashes if one has been freed
\* before; then cleanup opens the base directory, or fails to and returns.
cas_registry_destroy ==
  /\ phase = "live" /\ ~ crashed /\ \A t \in Threads : pc[t] = "idle"
  /\ crashed' = (Freed \in Range(registry))
  /\ registry' = << >>
  /\ phase' = "cleanup"
  /\ \/ walk' = InBase({k \in Keys : depth[k] > 0}) /\ UNCHANGED failed
     \/ IoMayFail /\ failed' = Keys /\ UNCHANGED walk
  /\ UNCHANGED <<lruVars, files, capacity, allocated, pc, arg, data, victim, path, result,
                 expect, heap, parts>>

\* What the directory of k at level l holds.
DirectoryOf(k, l) ==
  (IF depth[k] > l THEN {"directory"} ELSE {}) \cup
  (IF l = Levels /\ dat[k] # NULL THEN {"value.dat"} ELSE {}) \cup
  (IF l = Levels /\ timed[k] THEN {"time.dat"} ELSE {})

\* A step of cleanup, which changes nothing but files and directories.
Cleaning ==
  /\ phase = "cleanup" /\ ~ crashed
  /\ UNCHANGED <<lruVars, slots, pc, arg, data, victim, path, result, crashed, expect,
                 phase, heap, parts>>

\* Mutant: a directory that cannot be opened ends the loop of the one above.
EnterOrStop(k) ==
  LET l == walk.level + 1 IN
  /\ Cleaning
  /\ \/ walk.at = NULL /\ k \in walk.rest
     \/ walk.at = k /\ "directory" \in walk.entries
  /\ \/ /\ walk' = [at |-> k, level |-> l, entries |-> DirectoryOf(k, l), rest |-> walk.rest \ {k}]
        /\ UNCHANGED failed
     \/ /\ IoMayFail
        /\ walk' = [walk EXCEPT !.entries = {}, !.rest = {}]
        /\ failed' = failed \cup {k}
  /\ UNCHANGED files

\* readdir returns a directory, in any order: cleanup calls itself on it, unless
\* stat or opendir fails.
EnterDirectory(k) ==
  LET l == walk.level + 1 IN
  /\ Cleaning
  /\ \/ walk.at = NULL /\ k \in walk.rest
     \/ walk.at = k /\ "directory" \in walk.entries
  /\ \/ /\ walk' = [at |-> k, level |-> l, entries |-> DirectoryOf(k, l), rest |-> walk.rest \ {k}]
        /\ UNCHANGED failed
     \/ /\ IoMayFail
        /\ walk' = [walk EXCEPT !.entries = @ \ {"directory"}, !.rest = @ \ {k}]
        /\ failed' = failed \cup {k}
  /\ UNCHANGED files

\* readdir returns a file: it is removed, unless stat or remove fails.
RemoveFile(k, f) ==
  /\ Cleaning
  /\ walk.at = k /\ f \in walk.entries \ {"directory"}
  /\ walk' = [walk EXCEPT !.entries = @ \ {f}]
  /\ \/ /\ dat' = IF f = "value.dat" THEN [dat EXCEPT ![k] = NULL] ELSE dat
        /\ timed' = IF f = "time.dat" THEN [timed EXCEPT ![k] = FALSE] ELSE timed
        /\ UNCHANGED <<depth, failed>>
     \/ IoMayFail /\ failed' = failed \cup {k} /\ UNCHANGED files

\* readdir has returned everything: rmdir, which fails on a directory that is
\* not empty, and back to the directory above.
LeaveDirectory(k) ==
  LET l == walk.level IN
  /\ Cleaning
  /\ walk.at = k /\ walk.entries = {}
  /\ walk' = IF l = 1 THEN InBase(walk.rest) ELSE [walk EXCEPT !.level = l - 1]
  /\ \/ /\ DirectoryOf(k, l) = {}
        /\ depth' = [depth EXCEPT ![k] = l - 1]
        /\ UNCHANGED <<dat, timed, failed>>
     \/ DirectoryOf(k, l) # {} /\ UNCHANGED <<files, failed>>
     \/ IoMayFail /\ failed' = failed \cup {k} /\ UNCHANGED files

\* rmdir of the base directory; the array of the registry and the registry
\* are freed.
FreeRegistry ==
  /\ phase = "cleanup" /\ ~ crashed
  /\ walk.at = NULL /\ walk.rest = {}
  /\ phase' = "destroy"
  /\ heap' = heap \ {"registry"}
  /\ capacity' = 0 /\ allocated' = 0
  /\ UNCHANGED <<lruVars, files, registry, pc, arg, data, victim, path, result, crashed,
                 expect, parts, walk, failed>>

\* lru_cache_destroy
DestroyPartition(p) ==
  /\ phase = "destroy" /\ ~ crashed /\ p \in parts
  /\ parts' = parts \ {p}
  /\ order' = [order EXCEPT ![p] = << >>]
  /\ val' = [k \in Keys |-> IF PartOf[k] = p THEN NULL ELSE val[k]]
  /\ size' = [k \in Keys |-> IF PartOf[k] = p THEN 0 ELSE size[k]]
  /\ bytes' = [bytes EXCEPT ![p] = 0]
  /\ UNCHANGED <<casVars, pc, arg, data, victim, path, result, crashed, expect, phase, heap,
                 walk, failed>>

FreeCache ==
  /\ phase = "destroy" /\ ~ crashed /\ parts = {}
  /\ heap' = heap \ {"array", "cache"}
  /\ phase' = "over"
  /\ UNCHANGED <<vars, parts, walk, failed>>

Gone == (phase = "over" \/ crashed) /\ UNCHANGED lifeVars

LifeNext ==
  \/ CreateCache \/ CreateRegistry \/ CreateArray \/ Created \/ UndoCreate
  \/ \E p \in Partitions : CreatePartition(p) \/ DestroyPartition(p)
  \/ Operate
  \/ cas_registry_destroy \/ FreeRegistry \/ FreeCache
  \/ \E k \in Keys : \/ EnterDirectory(k) \/ LeaveDirectory(k)
                     \/ \E f \in {"value.dat", "time.dat"} : RemoveFile(k, f)
  \/ Gone

LifeSpec == LifeInit /\ [][LifeNext]_lifeVars
-----------------------------------------------------------------------------
(* What must hold.                                                         *)

\* While the cache is live, an operation on one key never changes what a reader
\* of another key finds: the tail that pod_cache_put moves to disk to make room
\* is readable before, during and after the move, whichever call of the move
\* fails.  (A write the disk truncates without an error from fwrite is the
\* exception.)
NonInterference == [][phase' = "live" => OtherKeysKept]_lifeVars

\* Until the partitions are freed, also while the tree is being removed: a reader
\* finds the last acknowledged value of a key or nothing, never a copy left on disk.
ReadersSeeLastWrite == phase \in {"live", "cleanup"} => ReadsLastWrite

\* Whichever allocation of pod_cache_create fails, and whatever was done with
\* the cache before it is destroyed: in the end nothing of it is allocated but
\* the path strings that cas_evict does not free.
OnlyPathStringsLeak == phase = "over" => parts = {} /\ heap \subseteq {"strings"}

\* What is left on disk when the tree has been removed lies on the path of a key
\* of which a call of cleanup itself failed.  Nothing else is left, whether or not
\* the registry lists it: not of keys whose registration failed, that were
\* promoted, that DEL reported as not found or whose spill failed half way, and
\* not of keys that cleanup came to after a failure.
FailuresKeepOnlyTheirOwn ==
  phase \in {"destroy", "over"} =>
    \A k \in Keys \ failed : depth[k] = 0 /\ dat[k] = NULL /\ ~ timed[k]
=============================================================================
