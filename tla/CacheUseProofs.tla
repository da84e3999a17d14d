--------------------------- MODULE CacheUseProofs ---------------------------
(***************************************************************************)
(* What is proved of the two specifications that use PodCache, for any     *)
(* keys, values, threads and partitions.                                   *)
(*                                                                         *)
(* CacheLife: the theorems of PodCache carried through pod_cache_create    *)
(* and pod_cache_destroy.  LifeInv adds to CacheInv what is allocated in   *)
(* each phase: the clean-up of a failed creation frees every partition     *)
(* only because they are created from the first one on (FirstOnes); and    *)
(* where the removal of the tree is (WalkOK): a key on whose path no call  *)
(* has failed is gone, is still to come, or is the one whose directories   *)
(* the walk is in, and readdir has still to return all that is left there. *)
(*                                                                         *)
(* Commands: the handlers of server_tcp.c only make the calls of PodCache, *)
(* so its theorems hold under them, and what they answer follows from what *)
(* the calls did.  CommandsInv adds to CacheInv that a command under way   *)
(* has its key.  For one client, SetsHeld says what its SET has kept so    *)
(* far, and ReadsFound what its GET or INCR has in hand at each call: the  *)
(* cache may lose that value while the copy is promoted, so the invariant  *)
(* has to carry it.                                                        *)
(***************************************************************************)
EXTENDS CacheLife, Commands, PodCacheProofs

-----------------------------------------------------------------------------
(* The life of the cache.                                                  *)

\* No directory and no file is left.
DiskEmpty == \A k \in Keys : depth[k] = 0 /\ dat[k] = NULL /\ ~ timed[k]

\* The partitions that exist are the first ones.
FirstOnes == \A p \in parts, q \in Partitions : q < p => q \in parts

\* What is allocated in each phase.
Allocations ==
  /\ "array" \notin heap => parts = {}
  /\ phase \in {"create", "undo"} => FirstOnes
  /\ phase = "undo" => parts = {} \/ \E q \in Partitions : NextPartition(q)
  /\ phase = "destroy" => "registry" \notin heap
  /\ phase = "over" => heap \subseteq {"strings"} /\ parts = {}

\* Where cleanup is: what it has still to read is there, and is all that is left
\* of the keys on whose path nothing has failed.
WalkOK ==
  /\ registry = << >>
  /\ walk.at = NULL => walk.level = 0
  /\ walk.at # NULL =>
       /\ walk.level \in 1 .. Levels /\ walk.at \notin walk.rest
       /\ walk.entries \subseteq DirectoryOf(walk.at, walk.level)
       /\ walk.at \notin failed => walk.entries = DirectoryOf(walk.at, walk.level)
  /\ \A k \in Keys \ failed : depth[k] > 0 => k \in walk.rest \/ k = walk.at

\* Only of keys on whose path something has failed is anything left.
Removed == \A k \in Keys \ failed : depth[k] = 0

\* The inductive invariant.
LifeInv ==
  /\ CacheInv
  /\ phase \in {"create", "live", "cleanup", "destroy", "undo", "over"}
  /\ heap \subseteq {"cache", "registry", "array", "strings"}
  /\ parts \subseteq Partitions
  /\ walk \in Walks
  /\ failed \subseteq Keys
  /\ phase # "live" => ~ crashed /\ \A t \in Threads : pc[t] = "idle"
  /\ phase \in {"create", "undo"} => DiskEmpty
  /\ phase \in {"create", "undo", "live"} => walk = InBase({}) /\ failed = {}
  /\ phase = "cleanup" => WalkOK
  /\ phase \in {"destroy", "over"} => Removed
  /\ Allocations

\* What follows from it.
LEMMA LifeInvImplies ==
  LifeInv =>
    LifeTypeOK /\ RegistryIntact /\ OnlyPathStringsLeak /\ FailuresKeepOnlyTheirOwn
<1> SUFFICES ASSUME LifeInv
             PROVE  LifeTypeOK /\ RegistryIntact /\ OnlyPathStringsLeak /\ FailuresKeepOnlyTheirOwn
  OBVIOUS
<1>1. LifeTypeOK /\ RegistryIntact /\ OnlyPathStringsLeak
  BY CacheInvImplies DEF LifeInv, LifeTypeOK, Allocations, OnlyPathStringsLeak
<1>2. FailuresKeepOnlyTheirOwn
  <2> SUFFICES ASSUME phase \in {"destroy", "over"}, NEW k \in Keys \ failed
               PROVE  depth[k] = 0 /\ dat[k] = NULL /\ ~ timed[k]
    BY DEF FailuresKeepOnlyTheirOwn
  <2>1. depth[k] = 0
    BY DEF LifeInv, Removed
  <2> QED BY <2>1, CasAssumption DEF LifeInv, CacheInv, DiskOK
<1> QED BY <1>1, <1>2

\* Before pod_cache_create there is nothing.
LEMMA InitLifeInv == LifeInit => LifeInv
<1> SUFFICES ASSUME LifeInit PROVE LifeInv
  OBVIOUS
<1>1. CacheInv
  BY InitCacheInv DEF LifeInit
<1>2. DiskEmpty
  BY DEF LifeInit, Init, CasInit, DiskEmpty
<1>3. Allocations
  BY DEF LifeInit, Allocations, FirstOnes
<1>4. walk \in Walks
  BY CasAssumption DEF LifeInit, InBase, Walks
<1> QED BY <1>1, <1>2, <1>3, <1>4 DEF LifeInit, Init, LifeInv

\* A step of the creation leaves the cache itself alone.
LEMMA CacheUntouched ==
  ASSUME LifeInv, UNCHANGED vars
  PROVE  /\ CacheInv' /\ UNCHANGED <<crashed, pc>>
         /\ DiskEmpty => DiskEmpty'
<1>1. CacheInv'
  BY NextCacheInv DEF LifeInv
<1> QED BY <1>1 DEF vars, DiskEmpty

\* A step that touches the disk alone, while every thread is idle.
LEMMA DiskStep ==
  ASSUME LifeInv, \A t \in Threads : pc[t] = "idle", DiskOK', crashed' = FALSE,
         UNCHANGED <<lruVars, pc, arg, data, victim, path, result, expect>>
  PROVE  CacheInv'
<1>1. CacheInv
  BY DEF LifeInv
<1>2. LruTypeOK' /\ Sorted(order')
  BY <1>1, StutterLists DEF CacheInv
<1>3. ControlTyped'
  BY <1>1 DEF CacheInv, ControlTyped
<1>4. Registering' /\ \A t \in Threads : Local(t)'
  BY DEF Registering, Local
<1> QED BY <1>2, <1>3, <1>4 DEF CacheInv

\* No freed string is in the registry when it is destroyed, and the walk starts
\* with everything there is.
LEMMA DestroyRegistryInv ==
  ASSUME LifeInv, cas_registry_destroy PROVE LifeInv'
<1>1. /\ phase = "live" /\ ~ crashed /\ \A t \in Threads : pc[t] = "idle"
      /\ crashed' = (Freed \in Range(registry))
      /\ registry' = << >> /\ phase' = "cleanup"
      /\ \/ walk' = InBase({k \in Keys : depth[k] > 0}) /\ failed' = failed
         \/ failed' = Keys /\ walk' = walk
      /\ UNCHANGED <<lruVars, files, capacity, allocated, pc, arg, data, victim, path, result,
                     expect, heap, parts>>
  BY DEF cas_registry_destroy
<1>2. CacheInv /\ DiskOK /\ walk = InBase({})
  BY <1>1 DEF LifeInv, CacheInv
<1>3. crashed' = FALSE
  <2>1. (Freed \in Range(registry)) = FALSE
    BY <1>2, CasAssumption DEF DiskOK, RegistryIntact, Range
  <2> QED BY <1>1, <2>1
<1>4. DiskOK'
  BY <1>1, <1>2 DEF DiskOK, CasTypeOK, RegistryIntact, files
<1>5. CacheInv'
  BY <1>1, <1>3, <1>4, DiskStep
<1>6. walk' \in Walks /\ walk'.at = NULL /\ walk'.level = 0
  BY <1>1, <1>2, CasAssumption DEF InBase, Walks
<1>7. WalkOK'
  <2>1. CASE walk' = InBase({k \in Keys : depth[k] > 0})
    BY <1>1, <1>6, <2>1 DEF WalkOK, InBase, files
  <2>2. CASE failed' = Keys
    BY <1>1, <1>6, <2>2 DEF WalkOK
  <2> QED BY <1>1, <2>1, <2>2
<1>8. Allocations'
  BY <1>1 DEF LifeInv, Allocations
<1>9. failed' \subseteq Keys /\ \A t \in Threads : pc'[t] = "idle"
  BY <1>1 DEF LifeInv
<1> QED BY <1>1, <1>3, <1>5, <1>6, <1>7, <1>8, <1>9 DEF LifeInv

\* What holds of a step of the walk, whatever it does to the disk.
LEMMA CleaningInv ==
  ASSUME LifeInv, Cleaning, DiskOK', walk' \in Walks, failed' \subseteq Keys, WalkOK'
  PROVE  LifeInv'
<1>1. /\ phase = "cleanup" /\ ~ crashed
      /\ UNCHANGED <<lruVars, slots, pc, arg, data, victim, path, result, crashed, expect,
                     phase, heap, parts>>
  BY DEF Cleaning
<1>2. \A t \in Threads : pc[t] = "idle"
  BY <1>1 DEF LifeInv
<1>3. crashed' = FALSE
  BY <1>1 DEF LifeInv, CacheInv, ControlTyped
<1>4. CacheInv'
  BY <1>1, <1>2, <1>3, DiskStep
<1>5. Allocations'
  BY <1>1 DEF LifeInv, Allocations
<1>6. \A t \in Threads : pc'[t] = "idle"
  BY <1>1, <1>2
<1> QED BY <1>1, <1>4, <1>5, <1>6 DEF LifeInv

\* The walk goes down one level, or passes by.
LEMMA EnterDirectoryInv ==
  ASSUME LifeInv, NEW k \in Keys, EnterDirectory(k) PROVE LifeInv'
<1> DEFINE l == walk.level + 1
<1>1. /\ Cleaning /\ files' = files
      /\ \/ walk.at = NULL /\ k \in walk.rest
         \/ walk.at = k /\ "directory" \in walk.entries
      /\ \/ /\ walk' = [at |-> k, level |-> l, entries |-> DirectoryOf(k, l), rest |-> walk.rest \ {k}]
            /\ failed' = failed
         \/ /\ walk' = [walk EXCEPT !.entries = @ \ {"directory"}, !.rest = @ \ {k}]
            /\ failed' = failed \cup {k}
  BY DEF EnterDirectory
<1>2. /\ WalkOK /\ DiskOK /\ walk \in Walks /\ failed \subseteq Keys
      /\ registry' = registry /\ capacity' = capacity /\ allocated' = allocated
  BY <1>1 DEF LifeInv, CacheInv, Cleaning, slots
<1>3. DiskOK'
  BY <1>1, <1>2 DEF DiskOK, CasTypeOK, RegistryIntact, files
<1>4. /\ walk.at \in Keys \cup {NULL} /\ walk.level \in 0 .. Levels
      /\ walk.entries \subseteq {"directory", "value.dat", "time.dat"} /\ walk.rest \subseteq Keys
      /\ depth[k] \in 0 .. Levels /\ Levels \in Nat \ {0} /\ k # NULL
  BY <1>2, CasAssumption, DataAssumption DEF Walks, DiskOK, CasTypeOK
<1>5. \A j \in Keys : \A m : DirectoryOf(j, m)' = DirectoryOf(j, m)
  BY <1>1 DEF DirectoryOf, files
<1>6. CASE /\ walk' = [at |-> k, level |-> l, entries |-> DirectoryOf(k, l), rest |-> walk.rest \ {k}]
           /\ failed' = failed
  <2>1. l \in 1 .. Levels
    <3>1. CASE walk.at = NULL
      BY <1>2, <1>4, <3>1 DEF WalkOK
    <3>2. CASE walk.at = k /\ "directory" \in walk.entries
      <4>1. "directory" \in DirectoryOf(k, walk.level)
        BY <1>2, <1>4, <3>2 DEF WalkOK
      <4>2. depth[k] > walk.level
        BY <4>1 DEF DirectoryOf
      <4> QED BY <1>4, <4>2
    <3> QED BY <1>1, <3>1, <3>2
  <2>2. DirectoryOf(k, l) \subseteq {"directory", "value.dat", "time.dat"}
    BY DEF DirectoryOf
  <2>3. walk'.at = k /\ walk'.level = l /\ walk'.entries = DirectoryOf(k, l) /\ walk'.rest = walk.rest \ {k}
    BY <1>6
  <2>4. walk' \in Walks
    <3> HIDE DEF l
    <3> QED BY <1>4, <1>6, <2>1, <2>2 DEF Walks
  <2>5. WalkOK'
    <3>1. ASSUME NEW j \in Keys \ failed', depth'[j] > 0 PROVE j \in walk'.rest \/ j = walk'.at
      <4>1. j \in walk.rest \/ j = walk.at
        BY <1>1, <1>2, <1>6, <3>1 DEF WalkOK, files
      <4>2. walk.at \in {NULL, k} /\ j # NULL
        BY <1>1, DataAssumption
      <4> QED BY <2>3, <4>1, <4>2
    <3> QED BY <1>2, <1>4, <1>5, <2>1, <2>3, <3>1 DEF WalkOK
  <2> QED BY <1>1, <1>2, <1>3, <1>6, <2>4, <2>5, CleaningInv
<1>7. CASE /\ walk' = [walk EXCEPT !.entries = @ \ {"directory"}, !.rest = @ \ {k}]
           /\ failed' = failed \cup {k}
  <2>1. /\ walk'.at = walk.at /\ walk'.level = walk.level /\ walk' \in Walks
        /\ walk'.entries = walk.entries \ {"directory"} /\ walk'.rest = walk.rest \ {k}
    BY <1>2, <1>4, <1>7 DEF Walks
  <2>2. WalkOK'
    <3>1. ASSUME NEW j \in Keys \ failed', depth'[j] > 0 PROVE j \in walk'.rest \/ j = walk'.at
      BY <1>1, <1>2, <1>7, <2>1, <3>1 DEF WalkOK, files
    <3>2. ASSUME walk.at # NULL
          PROVE  /\ walk'.entries \subseteq DirectoryOf(walk.at, walk.level)
                 /\ walk.at \in failed'
      BY <1>1, <1>2, <1>7, <2>1, <3>2 DEF WalkOK
    <3> QED BY <1>2, <1>4, <1>5, <2>1, <3>1, <3>2 DEF WalkOK
  <2> QED BY <1>1, <1>2, <1>3, <1>7, <2>1, <2>2, CleaningInv
<1> QED BY <1>1, <1>6, <1>7

\* A file goes, or is left.
LEMMA RemoveFileInv ==
  ASSUME LifeInv, NEW k \in Keys, NEW f \in {"value.dat", "time.dat"}, RemoveFile(k, f)
  PROVE  LifeInv'
<1>1. /\ Cleaning /\ walk.at = k /\ f \in walk.entries
      /\ walk' = [walk EXCEPT !.entries = @ \ {f}]
      /\ \/ /\ dat' = IF f = "value.dat" THEN [dat EXCEPT ![k] = NULL] ELSE dat
            /\ timed' = IF f = "time.dat" THEN [timed EXCEPT ![k] = FALSE] ELSE timed
            /\ UNCHANGED <<depth, failed>>
         \/ failed' = failed \cup {k} /\ UNCHANGED files
  BY DEF RemoveFile
<1>2. /\ WalkOK /\ DiskOK /\ walk \in Walks /\ failed \subseteq Keys
      /\ registry' = registry /\ capacity' = capacity /\ allocated' = allocated /\ registry = << >>
  BY <1>1 DEF LifeInv, CacheInv, Cleaning, slots, WalkOK
<1>3. /\ walk'.at = k /\ walk'.level = walk.level /\ walk' \in Walks
      /\ walk'.entries = walk.entries \ {f} /\ walk'.rest = walk.rest
  BY <1>1, <1>2 DEF Walks
<1>4. k # NULL /\ failed' \subseteq Keys
  BY <1>1, <1>2, DataAssumption
<1>5. CASE /\ dat' = IF f = "value.dat" THEN [dat EXCEPT ![k] = NULL] ELSE dat
           /\ timed' = IF f = "time.dat" THEN [timed EXCEPT ![k] = FALSE] ELSE timed
           /\ UNCHANGED <<depth, failed>>
  <2>1. /\ dat' \in [Keys -> Contents \cup {NULL}] /\ timed' \in [Keys -> BOOLEAN]
        /\ \A j \in Keys : dat'[j] \in {dat[j], NULL} /\ timed'[j] \in {timed[j], FALSE}
        /\ dat'[k] = IF f = "value.dat" THEN NULL ELSE dat[k]
        /\ timed'[k] = IF f = "time.dat" THEN FALSE ELSE timed[k]
    BY <1>2, <1>5 DEF DiskOK, CasTypeOK
  <2>2. DiskOK'
    BY <1>2, <1>5, <2>1 DEF DiskOK, CasTypeOK, RegistryIntact
  <2>3. DirectoryOf(k, walk.level)' = DirectoryOf(k, walk.level) \ {f}
    BY <1>3, <1>5, <2>1, SMTT(30) DEF DirectoryOf
  <2>4. WalkOK'
    BY <1>1, <1>2, <1>3, <1>4, <1>5, <2>3 DEF WalkOK
  <2> QED BY <1>1, <1>3, <1>4, <2>2, <2>4, CleaningInv
<1>6. CASE failed' = failed \cup {k} /\ UNCHANGED files
  <2>1. DiskOK'
    BY <1>2, <1>6 DEF DiskOK, CasTypeOK, RegistryIntact, files
  <2>2. DirectoryOf(k, walk.level)' = DirectoryOf(k, walk.level)
    BY <1>3, <1>6 DEF DirectoryOf, files
  <2>3. WalkOK'
    BY <1>1, <1>2, <1>3, <1>4, <1>6, <2>2 DEF WalkOK, files
  <2> QED BY <1>1, <1>3, <1>4, <2>1, <2>3, CleaningInv
<1> QED BY <1>1, <1>5, <1>6

\* A directory goes if nothing is left in it, which is so unless something below
\* it has failed.
LEMMA LeaveDirectoryInv ==
  ASSUME LifeInv, NEW k \in Keys, LeaveDirectory(k) PROVE LifeInv'
<1> DEFINE l == walk.level
<1>1. /\ Cleaning /\ walk.at = k /\ walk.entries = {}
      /\ walk' = IF l = 1 THEN InBase(walk.rest) ELSE [walk EXCEPT !.level = l - 1]
      /\ \/ /\ DirectoryOf(k, l) = {}
            /\ depth' = [depth EXCEPT ![k] = l - 1]
            /\ UNCHANGED <<dat, timed, failed>>
         \/ DirectoryOf(k, l) # {} /\ UNCHANGED <<files, failed>>
         \/ failed' = failed \cup {k} /\ UNCHANGED files
  BY DEF LeaveDirectory
<1>2. /\ WalkOK /\ DiskOK /\ walk \in Walks /\ failed \subseteq Keys
      /\ registry' = registry /\ capacity' = capacity /\ allocated' = allocated /\ registry = << >>
  BY <1>1 DEF LifeInv, CacheInv, Cleaning, slots, WalkOK
<1>3. k # NULL /\ failed' \subseteq Keys /\ l \in 1 .. Levels /\ Levels \in Nat \ {0} /\ k \notin walk.rest
  BY <1>1, <1>2, CasAssumption, DataAssumption DEF WalkOK
<1>4. /\ walk' \in Walks /\ walk'.rest = walk.rest /\ walk'.entries = {} /\ walk'.level = l - 1
      /\ walk'.at = IF l = 1 THEN NULL ELSE k
  <2>1. CASE l = 1
    BY <1>1, <1>2, <1>3, <2>1 DEF InBase, Walks
  <2>2. CASE l # 1
    BY <1>1, <1>2, <1>3, <2>2 DEF Walks
  <2> QED BY <2>1, <2>2
<1>5. CASE /\ DirectoryOf(k, l) = {}
           /\ depth' = [depth EXCEPT ![k] = l - 1]
           /\ UNCHANGED <<dat, timed, failed>>
  <2>1. /\ depth' \in [Keys -> 0 .. Levels] /\ depth'[k] = l - 1
        /\ \A j \in Keys : j # k => depth'[j] = depth[j]
    BY <1>2, <1>3, <1>5 DEF DiskOK, CasTypeOK
  <2>2. ~ timed[k] /\ dat[k] = NULL
    <3>1. ~ (depth[k] > l) /\ (l = Levels => dat[k] = NULL /\ ~ timed[k])
      BY <1>5 DEF DirectoryOf
    <3> QED BY <1>2, <1>3, <3>1 DEF DiskOK
  <2>3. DiskOK'
    BY <1>2, <1>5, <2>1, <2>2 DEF DiskOK, CasTypeOK, RegistryIntact
  <2>4. DirectoryOf(k, walk.level)' = {}
    BY <1>3, <1>4, <1>5, <2>1 DEF DirectoryOf
  <2>5. ASSUME NEW j \in Keys \ failed', depth'[j] > 0 PROVE j \in walk'.rest \/ j = walk'.at
    BY <1>1, <1>2, <1>3, <1>4, <1>5, <2>1, <2>5 DEF WalkOK
  <2>6. WalkOK'
    BY <1>2, <1>3, <1>4, <2>4, <2>5 DEF WalkOK
  <2> QED BY <1>1, <1>3, <1>4, <2>3, <2>6, CleaningInv
<1>6. CASE /\ UNCHANGED files
           /\ (DirectoryOf(k, l) # {} /\ failed' = failed) \/ failed' = failed \cup {k}
  <2>1. k \in failed' /\ \A j \in Keys : j \notin failed' => j \notin failed
    BY <1>1, <1>2, <1>3, <1>6 DEF WalkOK
  <2>2. DiskOK'
    BY <1>2, <1>6 DEF DiskOK, CasTypeOK, RegistryIntact, files
  <2>3. ASSUME NEW j \in Keys \ failed', depth'[j] > 0 PROVE j \in walk'.rest \/ j = walk'.at
    <3>1. depth[j] > 0 /\ j \in Keys \ failed /\ j # k
      BY <1>6, <2>1, <2>3 DEF files
    <3> QED BY <1>1, <1>2, <1>4, <3>1 DEF WalkOK
  <2>4. l # 1 => l - 1 \in 1 .. Levels
    BY <1>3
  <2>5. WalkOK'
    BY <1>2, <1>3, <1>4, <2>1, <2>3, <2>4 DEF WalkOK
  <2> QED BY <1>1, <1>3, <1>4, <2>2, <2>5, CleaningInv
<1> QED BY <1>1, <1>5, <1>6

\* The walk is over: nothing is left to come.
LEMMA FreeRegistryInv ==
  ASSUME LifeInv, FreeRegistry PROVE LifeInv'
<1>1. /\ phase = "cleanup" /\ ~ crashed /\ walk.at = NULL /\ walk.rest = {}
      /\ phase' = "destroy" /\ heap' = heap \ {"registry"} /\ capacity' = 0 /\ allocated' = 0
      /\ UNCHANGED <<lruVars, files, registry, pc, arg, data, victim, path, result, crashed,
                     expect, parts, walk, failed>>
  BY DEF FreeRegistry
<1>2. WalkOK /\ DiskOK /\ \A t \in Threads : pc[t] = "idle"
  BY <1>1 DEF LifeInv, CacheInv
<1>3. DiskOK'
  BY <1>1, <1>2 DEF DiskOK, CasTypeOK, RegistryIntact, files
<1>4. crashed' = FALSE
  BY <1>1 DEF LifeInv, CacheInv, ControlTyped
<1>5. CacheInv'
  BY <1>1, <1>2, <1>3, <1>4, DiskStep
<1>6. Removed'
  <2> SUFFICES ASSUME NEW k \in Keys \ failed PROVE depth[k] = 0
    BY <1>1 DEF Removed, files
  <2>1. ~ (depth[k] > 0)
    BY <1>1, <1>2, DataAssumption DEF WalkOK
  <2> QED BY <1>2, <2>1, CasAssumption DEF DiskOK, CasTypeOK
<1>7. Allocations'
  BY <1>1 DEF LifeInv, Allocations
<1> QED BY <1>1, <1>2, <1>4, <1>5, <1>6, <1>7 DEF LifeInv

\* lru_cache_destroy of one partition leaves the others sorted.
LEMMA DestroyPartitionInv ==
  ASSUME LifeInv, NEW p \in Partitions, DestroyPartition(p) PROVE LifeInv'
<1>1. /\ phase = "destroy" /\ ~ crashed /\ p \in parts /\ parts' = parts \ {p}
      /\ order' = [order EXCEPT ![p] = << >>]
      /\ val' = [k \in Keys |-> IF PartOf[k] = p THEN NULL ELSE val[k]]
      /\ size' = [k \in Keys |-> IF PartOf[k] = p THEN 0 ELSE size[k]]
      /\ bytes' = [bytes EXCEPT ![p] = 0]
      /\ UNCHANGED <<casVars, pc, arg, data, victim, path, result, crashed, expect, phase, heap,
                     walk, failed>>
  BY DEF DestroyPartition
<1>2. CacheInv /\ \A t \in Threads : pc[t] = "idle"
  BY <1>1 DEF LifeInv
<1>3. LruTypeOK'
  <2>1. order' \in [Partitions -> Seq(Keys)] /\ bytes' \in [Partitions -> Int]
    BY <1>1, <1>2 DEF CacheInv, LruTypeOK
  <2>2. val' \in [Keys -> Contents \cup {NULL}] /\ size' \in [Keys -> Nat]
    BY <1>1, <1>2 DEF CacheInv, LruTypeOK
  <2> QED BY <2>1, <2>2 DEF LruTypeOK
<1>4. Sorted(order')
  <2>1. order'[p] = << >> /\ \A q \in Partitions : q # p => order'[q] = order[q]
    BY <1>1, <1>2 DEF CacheInv, LruTypeOK
  <2> QED BY <1>2, <2>1 DEF CacheInv, Sorted
<1>5. DiskOK'
  BY <1>1, <1>2, StutterDisk DEF CacheInv
<1>6. ControlTyped' /\ Registering' /\ \A t \in Threads : Local(t)'
  BY <1>1, <1>2 DEF CacheInv, ControlTyped, Registering, Local
<1>7. CacheInv'
  BY <1>3, <1>4, <1>5, <1>6 DEF CacheInv
<1>8. Removed'
  BY <1>1 DEF LifeInv, Removed, casVars
<1>9. Allocations'
  BY <1>1 DEF LifeInv, Allocations
<1> QED BY <1>1, <1>2, <1>7, <1>8, <1>9 DEF LifeInv

\* The cache, the registry, the array: an allocation that fails leads to the
\* clean-up, or to the end.
LEMMA CreateInv ==
  ASSUME LifeInv, CreateCache \/ CreateRegistry \/ CreateArray PROVE LifeInv'
<1>1. CacheInv' /\ UNCHANGED <<crashed, pc>> /\ (DiskEmpty => DiskEmpty')
  BY CacheUntouched DEF CreateCache, CreateRegistry, CreateArray
<1>2. phase = "create" /\ parts' = parts
  BY DEF CreateCache, CreateRegistry, CreateArray, Allocate
<1>3. /\ phase' \in {"create", "undo", "over"} /\ walk' = walk /\ failed' = failed
      /\ heap' \subseteq {"cache", "registry", "array", "strings"}
  BY <1>2 DEF CreateCache, CreateRegistry, CreateArray, Allocate, LifeInv
<1>4. Allocations'
  BY <1>2 DEF CreateCache, CreateRegistry, CreateArray, Allocate, LifeInv, Allocations, FirstOnes
<1>5. Removed'
  BY <1>1, <1>2 DEF LifeInv, DiskEmpty, Removed
<1> QED BY <1>1, <1>2, <1>3, <1>4, <1>5 DEF LifeInv

\* The partitions, from the first one on.
LEMMA CreatePartitionInv ==
  ASSUME LifeInv, NEW p \in Partitions, CreatePartition(p) PROVE LifeInv'
<1>1. CacheInv' /\ UNCHANGED <<crashed, pc>> /\ (DiskEmpty => DiskEmpty')
  BY CacheUntouched DEF CreatePartition
<1>2. /\ phase = "create" /\ heap' = heap /\ "array" \in heap /\ NextPartition(p)
      /\ \/ parts' = parts \cup {p} /\ phase' = phase
         \/ phase' = "undo" /\ parts' = parts
      /\ UNCHANGED <<walk, failed>>
  BY DEF CreatePartition
<1>3. FirstOnes'
  BY <1>2 DEF LifeInv, Allocations, FirstOnes, NextPartition
<1>4. Allocations'
  BY <1>2, <1>3 DEF Allocations, NextPartition
<1> QED BY <1>1, <1>2, <1>4 DEF LifeInv

\* The clean-up after a failed creation frees every partition created so far.
LEMMA UndoInv ==
  ASSUME LifeInv, UndoCreate PROVE LifeInv'
<1>1. CacheInv' /\ UNCHANGED <<crashed, pc>> /\ (DiskEmpty => DiskEmpty')
  BY CacheUntouched DEF UndoCreate
<1>2. /\ phase = "undo" /\ phase' = "over" /\ heap' \subseteq {"strings"}
      /\ UNCHANGED <<walk, failed>>
      /\ parts' = {p \in parts : \A q \in Partitions : NextPartition(q) => p >= q}
  BY DEF UndoCreate, LifeInv
<1>3. parts' = {}
  <2>1. CASE parts = {}
    BY <1>2, <2>1
  <2>2. CASE \E q \in Partitions : NextPartition(q)
    <3>1. PICK q \in Partitions : NextPartition(q)
      BY <2>2
    <3>2. ASSUME NEW p \in parts, p >= q PROVE FALSE
      <4>1. p \in Nat /\ q \in Nat /\ p \in Partitions
        BY PodAssumption DEF LifeInv
      <4>2. p # q
        BY <3>1 DEF NextPartition
      <4>3. q < p
        BY <3>2, <4>1, <4>2
      <4> QED BY <1>2, <3>1, <4>3 DEF LifeInv, Allocations, FirstOnes, NextPartition
    <3> QED BY <1>2, <3>1, <3>2
  <2> QED BY <1>2, <2>1, <2>2 DEF LifeInv, Allocations
<1>4. Allocations'
  BY <1>2, <1>3 DEF Allocations
<1>5. Removed'
  BY <1>1, <1>2 DEF LifeInv, DiskEmpty, Removed
<1> QED BY <1>1, <1>2, <1>3, <1>4, <1>5 DEF LifeInv

\* Every step of a life keeps the invariant.
LEMMA NextLifeInv == LifeInv /\ [LifeNext]_lifeVars => LifeInv'
<1> SUFFICES ASSUME LifeInv, [LifeNext]_lifeVars PROVE LifeInv'
  OBVIOUS
<1>1. ASSUME UNCHANGED vars, heap' = heap, parts' = parts, walk' = walk, failed' = failed,
             \/ phase' = phase
             \/ phase = "create" /\ phase' = "live"
      PROVE  LifeInv'
  <2>1. CacheInv' /\ UNCHANGED <<crashed, pc>> /\ (DiskEmpty => DiskEmpty')
    BY <1>1, CacheUntouched
  <2>2. Allocations'
    BY <1>1 DEF LifeInv, Allocations, FirstOnes, NextPartition
  <2>3. (phase = "cleanup" => WalkOK') /\ (Removed => Removed')
    BY <1>1 DEF LifeInv, WalkOK, DirectoryOf, Removed, vars
  <2> QED BY <1>1, <2>1, <2>2, <2>3 DEF LifeInv
<1>2. CASE Operate
  <2>1. CacheInv'
    BY <1>2, NextCacheInv DEF Operate, LifeInv
  <2>2. /\ phase = "live" /\ UNCHANGED <<phase, parts, walk, failed>>
        /\ heap' \in {heap, heap \cup {"strings"}}
    BY <1>2 DEF Operate
  <2> QED BY <2>1, <2>2 DEF LifeInv, Allocations
<1>3. CASE FreeCache
  <2>1. CacheInv' /\ UNCHANGED <<crashed, pc>> /\ (DiskEmpty => DiskEmpty')
    BY <1>3, CacheUntouched DEF FreeCache
  <2>2. /\ phase = "destroy" /\ phase' = "over" /\ parts' = {} /\ heap' \subseteq {"strings"}
        /\ UNCHANGED <<walk, failed>>
    BY <1>3 DEF FreeCache, LifeInv, Allocations
  <2>3. Allocations'
    BY <2>2 DEF Allocations
  <2>4. Removed'
    BY <1>3, <2>2 DEF FreeCache, LifeInv, Removed, vars
  <2> QED BY <2>1, <2>2, <2>3, <2>4 DEF LifeInv
<1>4. CASE Created
  BY <1>1, <1>4 DEF Created
<1>5. CASE UNCHANGED lifeVars
  BY <1>1, <1>5 DEF lifeVars
<1>6. CASE Gone
  BY <1>5, <1>6 DEF Gone
<1> QED BY <1>2, <1>3, <1>4, <1>5, <1>6, CreateInv, CreatePartitionInv, UndoInv,
           DestroyRegistryInv, EnterDirectoryInv, RemoveFileInv, LeaveDirectoryInv,
           FreeRegistryInv, DestroyPartitionInv
        DEF LifeNext

\* The invariant holds always.
LEMMA AlwaysLifeInv == LifeSpec => []LifeInv
BY InitLifeInv, NextLifeInv, PTL DEF LifeSpec

\* From creation to destruction, with any number of threads and any fault, every
\* variable keeps its type.
THEOREM LifeTypes == LifeSpec => []LifeTypeOK
BY AlwaysLifeInv, LifeInvImplies, PTL

\* The same for the registry of cas.c: no path twice, no freed string.
THEOREM LifeRegistryIntact == LifeSpec => []RegistryIntact
BY AlwaysLifeInv, LifeInvImplies, PTL

\* Whichever allocation of pod_cache_create fails, and whatever the threads did
\* before pod_cache_destroy: nothing of the cache stays allocated but the path
\* strings of cas_evict.
THEOREM PathStringsAreTheOnlyLeak == LifeSpec => []OnlyPathStringsLeak
BY AlwaysLifeInv, LifeInvImplies, PTL

\* pod_cache_destroy leaves nothing on disk of any key, registered or not, but of
\* those on whose own path a call of cleanup failed.
THEOREM TheTreeIsRemoved == LifeSpec => []FailuresKeepOnlyTheirOwn
BY AlwaysLifeInv, LifeInvImplies, PTL

-----------------------------------------------------------------------------
(* The life of the cache with one thread.                                  *)

\* The steps of creation and destruction find every thread idle.
LEMMA IdleSolo ==
  ASSUME \A t \in Threads : pc'[t] = "idle" PROVE SoloLocals'
BY DEF SoloLocals, SoloLocal

\* What the only thread knows is kept while the cache lives.
LEMMA LifeNextSolo ==
  ASSUME Alone PROVE LifeInv /\ LifeInv' /\ SoloLocals /\ [LifeNext]_lifeVars => SoloLocals'
<1> SUFFICES ASSUME LifeInv, LifeInv', SoloLocals, [LifeNext]_lifeVars PROVE SoloLocals'
  OBVIOUS
<1>1. CASE [Next]_vars
  BY <1>1, NextSoloLocals DEF LifeInv
<1>2. CASE phase' # "live"
  BY <1>2, IdleSolo DEF LifeInv
<1>3. [Next]_vars \/ phase' # "live"
  BY DEF LifeNext, lifeVars, CreateCache, CreateRegistry, CreateArray, Created, UndoCreate,
         CreatePartition, DestroyPartition, Operate, cas_registry_destroy, EnterDirectory,
         RemoveFile, LeaveDirectory, Cleaning, FreeRegistry, FreeCache, Gone
<1> QED BY <1>1, <1>2, <1>3

\* A step that leaves the cache live is one of PodCache.
LEMMA LiveSteps ==
  ASSUME [LifeNext]_lifeVars, phase' = "live" PROVE [Next]_vars
BY DEF LifeNext, lifeVars, CreateCache, CreateRegistry, CreateArray, Created, UndoCreate,
       CreatePartition, DestroyPartition, Operate, cas_registry_destroy, EnterDirectory,
       RemoveFile, LeaveDirectory, Cleaning, FreeRegistry, FreeCache, Gone

\* Until the partitions are freed.
Reading == phase \notin {"destroy", "over"} => ReadsLastWrite

\* The removal of the tree takes copies away and never uncovers an older one.
LEMMA LifeReads ==
  LifeInv /\ LifeInv' /\ SoloLocals /\ Reading /\ [LifeNext]_lifeVars => Reading'
<1> SUFFICES ASSUME LifeInv, LifeInv', SoloLocals, Reading, [LifeNext]_lifeVars,
                    phase' \notin {"destroy", "over"}
             PROVE  ReadsLastWrite'
  BY DEF Reading
<1>1. ASSUME [Next]_vars, phase \notin {"destroy", "over"} PROVE ReadsLastWrite'
  BY <1>1, NextReads DEF LifeInv, Reading
<1>2. ASSUME expect' = expect, UNCHANGED lruVars, phase \notin {"destroy", "over"},
             \A k \in Keys : dat'[k] \in {dat[k], NULL}
      PROVE  ReadsLastWrite'
  <2>1. \A k \in Keys : Lookup(k)' \in {Lookup(k), NULL}
    BY <1>2 DEF Lookup, lruVars, Resident, At
  <2> QED BY <1>2, <2>1 DEF Reading, ReadsLastWrite
<1>3. CASE cas_registry_destroy
  BY <1>2, <1>3 DEF cas_registry_destroy, files
<1>4. ASSUME NEW k \in Keys, EnterDirectory(k) \/ LeaveDirectory(k) PROVE ReadsLastWrite'
  BY <1>2, <1>4 DEF EnterDirectory, LeaveDirectory, Cleaning, files
<1>5. ASSUME NEW k \in Keys, NEW f, RemoveFile(k, f) PROVE ReadsLastWrite'
  <2>1. \A j \in Keys : dat'[j] \in {dat[j], NULL}
    BY <1>5 DEF RemoveFile, files, LifeInv, CacheInv, DiskOK, CasTypeOK
  <2> QED BY <1>2, <1>5, <2>1 DEF RemoveFile, Cleaning
<1>6. CASE FreeRegistry \/ FreeCache \/ \E p \in Partitions : DestroyPartition(p)
  BY <1>6 DEF FreeRegistry, FreeCache, DestroyPartition
<1>7. CASE CreateCache \/ CreateRegistry \/ CreateArray \/ Created \/ UndoCreate \/ Operate
           \/ \E p \in Partitions : CreatePartition(p)
  BY <1>1, <1>7 DEF CreateCache, CreateRegistry, CreateArray, Allocate, Created, UndoCreate,
         CreatePartition, Operate
<1>8. CASE UNCHANGED lifeVars \/ Gone
  BY <1>1, <1>8 DEF lifeVars, Gone
<1> QED BY <1>3, <1>4, <1>5, <1>6, <1>7, <1>8 DEF LifeNext

\* Both invariants hold always.
LEMMA AlwaysLifeSolo ==
  ASSUME Alone PROVE LifeSpec => []LifeInv /\ []SoloLocals
<1>1. LifeInit => SoloLocals
  BY InitSolo DEF LifeInit
<1> QED BY <1>1, LifeNextSolo, AlwaysLifeInv, PTL DEF LifeSpec

\* One thread, any fault: the node pod_cache_put removes is the one it spilled.
THEOREM LifeSpilledIsDropped ==
  ASSUME Alone PROVE LifeSpec => []DropsWhatItSpilled
BY AlwaysLifeSolo, SoloImplies, PTL

\* One thread, any fault: no copy left on disk is read in place of a newer value,
\* not even while the tree is being removed.
THEOREM LifeNoStaleReads ==
  ASSUME Alone PROVE LifeSpec => []ReadersSeeLastWrite
<1>1. LifeInit => Reading
  BY InitSolo DEF LifeInit, Reading
<1>2. Reading => ReadersSeeLastWrite
  BY DEF Reading, ReadersSeeLastWrite
<1> QED BY <1>1, <1>2, LifeReads, AlwaysLifeSolo, PTL DEF LifeSpec

\* One thread, any fault: an operation of a live cache changes what a reader finds
\* of no other key, at none of its calls.
THEOREM KeysDoNotInterfere ==
  ASSUME Alone PROVE LifeSpec => NonInterference
<1>1. OtherKeysKept \/ ~ (UNCHANGED vars)
  <2> SUFFICES ASSUME UNCHANGED vars PROVE OtherKeysKept
    OBVIOUS
  <2> QED BY ReadersAlike DEF vars, OtherKeysKept
<1>2. LifeInv /\ SoloLocals /\ [LifeNext]_lifeVars => [phase' = "live" => OtherKeysKept]_lifeVars
  <2> SUFFICES ASSUME LifeInv, SoloLocals, [LifeNext]_lifeVars, phase' = "live" PROVE OtherKeysKept
    OBVIOUS
  <2> QED BY <1>1, LiveSteps, NextSoloStep, KeyStepOtherKeys DEF LifeInv
<1> QED BY <1>2, AlwaysLifeSolo, PTL DEF LifeSpec, NonInterference

-----------------------------------------------------------------------------
(* The handlers and the cache.                                             *)

\* The types of what the handlers keep.
HandlersTyped ==
  /\ handler \in [Threads -> Handlers]
  /\ out_value \in [Threads -> Contents \cup {NULL}]
  /\ ended \in [Threads -> BOOLEAN]
  /\ number \in [Threads -> Numerals]
  /\ reply \in [Threads -> Replies]
  /\ connected \in [Threads -> BOOLEAN]
  /\ before \in [Threads -> Contents \cup {NULL}]

\* A command that uses the cache is about a key.
Called == \A t \in Threads : handler[t] # "ready" => arg[t] \in Keys

\* The inductive invariant, for any number of threads and any fault.
CommandsInv == CacheInv /\ HandlersTyped /\ Called

\* The type invariant is part of it.
LEMMA CommandsInvImplies == CommandsInv => CommandsTypeOK
BY CacheInvImplies DEF CommandsInv, HandlersTyped, CommandsTypeOK

\* What long arithmetic gives, in the numbers a long can hold.
LEMMA LongArithmetic ==
  /\ 0 \in Numerals /\ 1 \in Numerals
  /\ \A n \in Numerals : Increment(n) \in Numerals /\ AsUnsigned(n) \in Nat
  /\ \A n \in Nat : AsUnsigned(n) = n
<1>1. LONG_MAX \in Int /\ LONG_MAX >= 1
  BY CommandsAssumption
<1> QED BY <1>1 DEF Numerals, LONG_MIN, Increment, AsUnsigned

\* Every reply a handler may send.
LEMMA ReplyKinds ==
  /\ NoReply \in Replies /\ Nil \in Replies /\ Status \in Replies /\ Error \in Replies
  /\ \A v \in Contents \cup {NULL} : Bulk(v) \in Replies /\ Overread(v) \in Replies
  /\ \A n \in Nat : Integer(n) \in Replies
BY DEF Replies, NoReply, Nil, Status, Error, Bulk, Overread, Integer

\* What a reader finds is contents or nothing.
LEMMA LookupTyped ==
  ASSUME CacheInv, NEW k \in Keys PROVE Lookup(k) \in Contents \cup {NULL}
BY DEF CacheInv, LruTypeOK, DiskOK, CasTypeOK, Lookup

\* A handler that has replied.
LEMMA ReplyTyped ==
  ASSUME HandlersTyped, NEW t \in Threads, NEW r \in Replies, Reply(t, r)
  PROVE  /\ handler' \in [Threads -> Handlers] /\ handler'[t] = "ready"
         /\ \A s \in Threads : s # t => handler'[s] = handler[s]
         /\ out_value' \in [Threads -> Contents \cup {NULL}]
         /\ ended' \in [Threads -> BOOLEAN]
         /\ number' \in [Threads -> Numerals]
         /\ reply' \in [Threads -> Replies] /\ reply'[t] = r
         /\ before' \in [Threads -> Contents \cup {NULL}]
<1>1. handler' = [handler EXCEPT ![t] = "ready"] /\ "ready" \in Handlers
  BY DEF Reply, Handlers
<1>2. reply' = [reply EXCEPT ![t] = r]
  BY DEF Reply
<1>3. number' = [number EXCEPT ![t] = 0] /\ 0 \in Numerals
  BY LongArithmetic DEF Reply
<1>4. /\ out_value' = [out_value EXCEPT ![t] = NULL]
      /\ ended' = [ended EXCEPT ![t] = TRUE]
      /\ before' = [before EXCEPT ![t] = NULL]
  BY DEF Reply
<1> QED BY <1>1, <1>2, <1>3, <1>4 DEF HandlersTyped

\* A reply closes a step that leaves the cache alone.
LEMMA ReplyInv ==
  ASSUME CommandsInv, NEW t \in Threads, NEW r \in Replies, Reply(t, r),
         connected' \in [Threads -> BOOLEAN], UNCHANGED vars
  PROVE  CommandsInv'
<1>1. CacheInv'
  BY NextCacheInv DEF CommandsInv
<1>2. HandlersTyped'
  BY ReplyTyped DEF CommandsInv, HandlersTyped
<1>3. arg' = arg
  BY DEF vars
<1>4. handler'[t] = "ready" /\ \A s \in Threads : s # t => handler'[s] = handler[s]
  BY ReplyTyped DEF CommandsInv
<1>5. Called'
  BY <1>3, <1>4 DEF CommandsInv, Called
<1> QED BY <1>1, <1>2, <1>5 DEF CommandsInv

\* The calls a handler makes, and the ones they go on with, are steps of PodCache.
LEMMA InCallStep ==
  ASSUME NEW t \in Threads, InCall(t) PROVE Step(t) /\ arg' = arg
<1>1. Step(t)
  BY DEF InCall, Step
<1>2. arg' = arg
  BY DEF InCall, GetTail, Spill, Register, DropTail, PutRetry, ReadDisk, Promote, Unspill,
         EvictDisk
<1> QED BY <1>1, <1>2

\* A handler that begins to store, to read or to delete k.
LEMMA EnterInv ==
  ASSUME CommandsInv, NEW t \in Threads, NEW k \in Keys, NEW h \in Handlers, Enter(t, h, k),
         out_value' \in [Threads -> Contents \cup {NULL}], ended' \in [Threads -> BOOLEAN],
         arg' = [arg EXCEPT ![t] = k], CacheInv'
  PROVE  CommandsInv'
<1>1. handler' = [handler EXCEPT ![t] = h] /\ UNCHANGED <<number, connected>>
  BY DEF Enter
<1>2. before' = [before EXCEPT ![t] = Lookup(k)] /\ Lookup(k) \in Contents \cup {NULL}
  BY LookupTyped DEF Enter, CommandsInv
<1>3. reply' = [reply EXCEPT ![t] = NoReply] /\ NoReply \in Replies
  BY ReplyKinds DEF Enter
<1>4. HandlersTyped'
  BY <1>1, <1>2, <1>3 DEF CommandsInv, HandlersTyped
<1>5. arg'[t] = k /\ \A s \in Threads : s # t => arg'[s] = arg[s] /\ handler'[s] = handler[s]
  BY <1>1 DEF CommandsInv, HandlersTyped, CacheInv, ControlTyped
<1>6. Called'
  BY <1>5 DEF CommandsInv, Called
<1> QED BY <1>4, <1>6 DEF CommandsInv

\* What follows the copy t is handed is a zero, or is not.
LEMMA CopiedTyped ==
  ASSUME HandlersTyped, NEW t \in Threads, Copied(t) PROVE ended' \in [Threads -> BOOLEAN]
<1>1. PICK z \in BOOLEAN : ended' = [ended EXCEPT ![t] = z]
  BY DEF Copied
<1> QED BY <1>1 DEF HandlersTyped

\* pod_cache_get for GET and INCR.
LEMMA CallGetInv ==
  ASSUME CommandsInv, ~ crashed, NEW t \in Threads, NEW k \in Keys, NEW h \in Handlers,
         CallGet(t, k, h)
  PROVE  CommandsInv' /\ Step(t)
<1>1. Enter(t, h, k) /\ GetMemory(t, k)
  BY DEF CallGet
<1>2. Step(t)
  BY <1>1 DEF Step
<1>3. CacheInv'
  BY <1>1, GetMemoryInv DEF CommandsInv
<1>4. arg' = [arg EXCEPT ![t] = k]
  BY <1>1 DEF GetMemory
<1>5. out_value' \in [Threads -> Contents \cup {NULL}]
  <2>1. PICK v \in Contents \cup {NULL} : out_value' = [out_value EXCEPT ![t] = v]
    BY DEF CallGet, CommandsInv, CacheInv, LruTypeOK
  <2> QED BY <2>1 DEF CommandsInv, HandlersTyped
<1>6. ended' \in [Threads -> BOOLEAN]
  BY CopiedTyped DEF CallGet, CommandsInv, HandlersTyped
<1> QED BY <1>1, <1>2, <1>3, <1>4, <1>5, <1>6, EnterInv

\* The second call of handle_incr.
LEMMA IncrStoreInv ==
  ASSUME CommandsInv, ~ crashed, NEW t \in Threads, handler[t] = "incr_get",
         NEW n \in Numerals, IncrStore(t, n)
  PROVE  CommandsInv' /\ Step(t)
<1>1. PICK k \in Keys : k = arg[t]
  BY DEF CommandsInv, Called
<1>2. PutFirst(t, k, n) /\ n \in Values
  BY <1>1, CommandsAssumption DEF IncrStore
<1>3. Step(t) /\ CacheInv'
  BY <1>2, PutFirstInv DEF Step, CommandsInv
<1>4. arg' = arg
  BY <1>1, <1>2 DEF PutFirst, CommandsInv, CacheInv, ControlTyped
<1>5. /\ number' = [number EXCEPT ![t] = n]
      /\ handler' = [handler EXCEPT ![t] = "incr_put"] /\ "incr_put" \in Handlers
      /\ UNCHANGED <<out_value, ended, reply, connected, before>>
  BY DEF IncrStore, Handlers
<1>6. HandlersTyped'
  BY <1>5 DEF CommandsInv, HandlersTyped
<1>7. Called'
  BY <1>1, <1>4, <1>5 DEF CommandsInv, HandlersTyped, Called
<1> QED BY <1>3, <1>6, <1>7 DEF CommandsInv

\* What the operations of pod_cache.c return: -1, or a natural number.
LEMMA ResultsAre == \A n \in Results : n # -1 => n \in Nat
<1>1. Partitions \subseteq Nat
  BY PodAssumption
<1> QED BY <1>1 DEF Results

\* What strtol may read is a number of a long.
LEMMA StrtolReads == \A v, z : strtol(v, z) \subseteq Numerals
BY LongArithmetic DEF strtol

\* Every step of a handler is a call of PodCache, or leaves the cache alone.
LEMMA HandlerStepInv ==
  ASSUME CommandsInv, ~ crashed, NEW t \in Threads, HandlerStep(t)
  PROVE  CommandsInv' /\ (Step(t) \/ UNCHANGED vars)
<1> USE DEF OK, FAIL
<1>0. /\ handler \in [Threads -> Handlers] /\ connected \in [Threads -> BOOLEAN]
      /\ result[t] \in Results
  BY DEF CommandsInv, HandlersTyped, CacheInv, ControlTyped
<1>1. CASE Simple(t)
  <2>1. PICK r \in Replies : Reply(t, r)
    BY <1>1, ReplyKinds DEF Simple
  <2>2. UNCHANGED vars /\ connected' \in [Threads -> BOOLEAN]
    BY <1>0, <1>1 DEF Simple
  <2> QED BY <2>1, <2>2, ReplyInv
<1>2. ASSUME NEW k \in Keys, NEW v \in ClientValues[k], handle_set(t, k, v)
      PROVE  CommandsInv' /\ Step(t)
  <2>1. Enter(t, "set", k) /\ PutFirst(t, k, v) /\ UNCHANGED <<out_value, ended>>
    BY <1>2 DEF handle_set
  <2>2. v \in Values /\ "set" \in Handlers
    BY CommandsAssumption DEF Handlers
  <2>3. Step(t) /\ CacheInv'
    BY <2>1, <2>2, PutFirstInv DEF Step, CommandsInv
  <2>4. /\ arg' = [arg EXCEPT ![t] = k] /\ out_value' \in [Threads -> Contents \cup {NULL}]
        /\ ended' \in [Threads -> BOOLEAN]
    BY <2>1 DEF PutFirst, CommandsInv, HandlersTyped
  <2> QED BY <2>1, <2>2, <2>3, <2>4, EnterInv
<1>3. ASSUME NEW k \in Keys, handle_get(t, k) \/ handle_incr(t, k)
      PROVE  CommandsInv' /\ Step(t)
  BY <1>3, CallGetInv DEF handle_get, handle_incr, Handlers
<1>4. ASSUME NEW k \in Keys, handle_del(t, k)
      PROVE  CommandsInv' /\ Step(t)
  <2>1. /\ Enter(t, "del", k) /\ EvictMemory(t, k) /\ "del" \in Handlers
        /\ UNCHANGED <<out_value, ended>>
    BY <1>4 DEF handle_del, Handlers
  <2>2. Step(t) /\ CacheInv'
    BY <2>1, EvictMemoryInv DEF Step, CommandsInv
  <2>3. /\ arg' = [arg EXCEPT ![t] = k] /\ out_value' \in [Threads -> Contents \cup {NULL}]
        /\ ended' \in [Threads -> BOOLEAN]
    BY <2>1 DEF EvictMemory, CommandsInv, HandlersTyped
  <2> QED BY <2>1, <2>2, <2>3, EnterInv
<1>5. CASE EndSet(t)
  <2>1. PICK r \in Replies : Reply(t, r)
    BY <1>5, ReplyKinds DEF EndSet
  <2> QED BY <1>0, <1>5, <2>1, ReplyInv DEF EndSet
<1>6. CASE EndGet(t)
  <2>1. out_value[t] \in Contents \cup {NULL}
    BY DEF CommandsInv, HandlersTyped
  <2>2. PICK r \in Replies : Reply(t, r)
    BY <1>6, <2>1, ReplyKinds DEF EndGet
  <2>3. UNCHANGED vars /\ connected' \in [Threads -> BOOLEAN]
    BY <1>0, <1>6 DEF EndGet
  <2> QED BY <2>2, <2>3, ReplyInv
<1>7. CASE EndDel(t)
  <2>1. result[t] # FAIL => result[t] \in Nat
    BY <1>0, ResultsAre
  <2>2. result[t] # FAIL => AsUnsigned(result[t]) \in Nat
    BY <2>1, LongArithmetic
  <2>3. PICK r \in Replies : Reply(t, r)
    BY <1>7, <2>2, ReplyKinds DEF EndDel
  <2> QED BY <1>0, <1>7, <2>3, ReplyInv DEF EndDel
<1>8. CASE EndIncrGet(t)
  <2>1. handler[t] = "incr_get"
    BY <1>8 DEF EndIncrGet, Returned
  <2>2. CASE \E n \in Numerals : IncrStore(t, n)
    BY <2>1, <2>2, IncrStoreInv
  <2>3. CASE Reply(t, Error) /\ UNCHANGED <<vars, connected>>
    BY <1>0, <2>3, ReplyKinds, ReplyInv
  <2>4. (\E n \in Numerals : IncrStore(t, n)) \/ (Reply(t, Error) /\ UNCHANGED <<vars, connected>>)
    BY <1>8, LongArithmetic, StrtolReads DEF EndIncrGet
  <2> QED BY <2>2, <2>3, <2>4
<1>9. CASE EndIncr(t)
  <2>1. AsUnsigned(number[t]) \in Nat
    BY LongArithmetic DEF CommandsInv, HandlersTyped
  <2>2. PICK r \in Replies : Reply(t, r)
    BY <1>9, <2>1, ReplyKinds DEF EndIncr
  <2> QED BY <1>0, <1>9, <2>2, ReplyInv DEF EndIncr
<1>10. CASE InCall(t)
  <2>1. Step(t) /\ arg' = arg
    BY <1>10, InCallStep
  <2>2. CacheInv'
    BY <2>1, NextCacheInv DEF Next, CommandsInv
  <2>3. UNCHANGED <<handler, number, reply, connected, before>>
    BY <1>10 DEF InCall
  <2>4. out_value' \in [Threads -> Contents \cup {NULL}]
    <3>1. data'[t] \in Contents \cup {NULL}
      BY <2>2 DEF CacheInv, ControlTyped
    <3> QED BY <1>10, <3>1 DEF InCall, CommandsInv, HandlersTyped
  <2>5. ended' \in [Threads -> BOOLEAN]
    BY <1>10, CopiedTyped DEF InCall, CommandsInv, HandlersTyped
  <2>6. HandlersTyped' /\ Called'
    BY <2>1, <2>3, <2>4, <2>5 DEF CommandsInv, HandlersTyped, Called
  <2> QED BY <2>1, <2>2, <2>6 DEF CommandsInv
<1> QED BY <1>1, <1>2, <1>3, <1>4, <1>5, <1>6, <1>7, <1>8, <1>9, <1>10 DEF HandlerStep

\* The clients connect to an empty cache.
LEMMA InitCommandsInv == CommandsInit => CommandsInv
<1> SUFFICES ASSUME CommandsInit PROVE CommandsInv
  OBVIOUS
<1>1. CacheInv
  BY InitCacheInv DEF CommandsInit
<1>2. HandlersTyped
  BY LongArithmetic, ReplyKinds DEF CommandsInit, HandlersTyped, Handlers
<1>3. Called
  BY DEF CommandsInit, Called
<1> QED BY <1>1, <1>2, <1>3 DEF CommandsInv

\* Every step of the composition keeps the invariant, and is a step of PodCache
\* or of a handler alone.
LEMMA NextCommandsInv ==
  CommandsInv /\ [CommandsNext]_allVars => CommandsInv' /\ [Next]_vars
<1> SUFFICES ASSUME CommandsInv, [CommandsNext]_allVars PROVE CommandsInv' /\ [Next]_vars
  OBVIOUS
<1>1. CASE UNCHANGED allVars
  <2>1. UNCHANGED vars /\ UNCHANGED <<handler, out_value, ended, number, reply, connected, before>>
    BY <1>1 DEF allVars, handlerVars
  <2>2. CacheInv' /\ arg' = arg
    BY <2>1, NextCacheInv DEF CommandsInv, vars
  <2> QED BY <2>1, <2>2 DEF CommandsInv, HandlersTyped, Called
<1>2. CASE ~ crashed /\ \E t \in Threads : HandlerStep(t)
  <2>1. PICK t \in Threads : HandlerStep(t)
    BY <1>2
  <2>2. CommandsInv' /\ (Step(t) \/ UNCHANGED vars)
    BY <1>2, <2>1, HandlerStepInv
  <2> QED BY <1>2, <2>2 DEF Next
<1> QED BY <1>1, <1>2 DEF CommandsNext, Over

\* The invariant holds always.
LEMMA AlwaysCommandsInv == CommandsSpec => []CommandsInv
BY InitCommandsInv, NextCommandsInv, PTL DEF CommandsSpec

\* Whatever the clients send and however their threads interleave, with any fault:
\* the variables of the handlers and of the cache keep their types, and every
\* answer is one of the kinds of the protocol, an integer never a negative one.
THEOREM CommandTypes == CommandsSpec => []CommandsTypeOK
BY AlwaysCommandsInv, CommandsInvImplies, PTL

\* The handlers of server_tcp.c use the cache only as PodCache allows: every
\* behaviour of the composition is one of PodCache, so that what is proved of
\* every client holds of these.
THEOREM HandlersImplementCacheClients == CommandsSpec => Spec
<1>1. CommandsInit => Init
  BY DEF CommandsInit
<1> QED BY <1>1, AlwaysCommandsInv, NextCommandsInv, PTL DEF CommandsSpec, Spec

\* The registry of cas.c under the commands: never written past its end while
\* allocations succeed.
THEOREM CommandsStayInRegistry ==
  ASSUME ~ MemMayFail PROVE CommandsSpec => []RegistryInBounds
BY HandlersImplementCacheClients, RegistryStaysInBounds, PTL

\* One client, no faults: only a DEL, or a GET or INCR of that key that finds no
\* room to promote it, loses a value.
THEOREM CommandsLoseNothingElse ==
  ASSUME Alone, ~ MemMayFail, ~ IoMayFail
  PROVE  CommandsSpec => LossOnlyByDelOrFailedPromotion
BY HandlersImplementCacheClients, NothingElseLost, PTL

-----------------------------------------------------------------------------
(* One client: what it is answered.                                        *)

\* While SET is making room, or once it has been refused, its key holds what it
\* held when the command began, or what the disk truncated.
SetHeld(t) ==
  handler[t] = "set" /\ (pc[t] # "idle" \/ result[t] = -1) =>
    /\ pc[t] \in {"idle", "get_tail", "spill", "register", "drop_tail", "retry"}
    /\ Lookup(arg[t]) \in {before[t]} \cup (IF IoMayFail THEN {Torn} ELSE {})

\* The same for all threads of a running process.
SetsHeld == ~ crashed => \A t \in Threads : SetHeld(t)

\* A step that ends with t in no SET.
LEMMA NotInSet ==
  ASSUME Alone, NEW t \in Threads, handler'[t] # "set" PROVE SetsHeld'
BY DEF Alone, SetsHeld, SetHeld

\* Every step of t keeps what its SET promises.
LEMMA HandlerStepSet ==
  ASSUME Alone, ~ MemMayFail, CommandsInv, SoloLocals, SetsHeld, ~ crashed,
         NEW t \in Threads, HandlerStep(t)
  PROVE  SetsHeld'
<1> USE DEF OK, FAIL, FULL
<1>0. /\ handler \in [Threads -> Handlers] /\ before \in [Threads -> Contents \cup {NULL}]
      /\ CacheInv /\ ControlTyped
  BY DEF CommandsInv, HandlersTyped, CacheInv
<1>1. ASSUME NEW k \in Keys, NEW v \in ClientValues[k], handle_set(t, k, v)
      PROVE  SetsHeld'
  <2>1. PutFirst(t, k, v) /\ v \in Contents
    BY <1>1, CommandsAssumption DEF handle_set, Contents
  <2>2. /\ before' = [before EXCEPT ![t] = Lookup(k)]
        /\ arg' = [arg EXCEPT ![t] = k] /\ dat' = dat
    BY <1>1, <2>1 DEF handle_set, Enter, PutFirst, casVars
  <2>3. before'[t] = Lookup(k) /\ arg'[t] = k
    BY <1>0, <2>2 DEF ControlTyped
  <2>4. PICK r \in {OK, FAIL, FULL} :
          /\ lru_cache_put(k, v, r)
          /\ r = OK => Return(t, PartOf[k])
          /\ r = FULL => Goto(t, "get_tail")
    BY <2>1 DEF PutFirst
  <2>5. /\ r \in {OK, FULL}
        /\ r = FULL => UNCHANGED lruVars
    BY <1>0, <2>1, <2>4, PutMemory DEF CacheInv
  <2>6. CASE r = OK
    <3>1. pc'[t] = "idle" /\ result'[t] = PartOf[k]
      BY <1>0, <2>4, <2>6 DEF Return, ControlTyped
    <3>2. PartOf[k] # -1
      BY LruAssumption, PodAssumption
    <3> QED BY <3>1, <3>2 DEF Alone, SetsHeld, SetHeld
  <2>7. CASE r = FULL
    <3>1. pc'[t] = "get_tail"
      BY <1>0, <2>4, <2>7 DEF Goto, ControlTyped
    <3>2. Lookup(k)' = Lookup(k)
      BY <2>2, <2>5, <2>7, ReadersAlike DEF lruVars
    <3>3. Lookup(arg[t])' = before'[t]
      BY <2>3, <3>2
    <3> QED BY <3>1, <3>3 DEF Alone, SetsHeld, SetHeld
  <2> QED BY <2>5, <2>6, <2>7
<1>2. CASE InCall(t) /\ handler[t] = "set"
  <2>1. Step(t) /\ arg' = arg /\ before' = before /\ handler' = handler
    BY <1>2, InCallStep DEF InCall
  <2>2. pc[t] # "idle"
    BY <1>2 DEF InCall, GetTail, Spill, Register, DropTail, PutRetry, ReadDisk, Promote,
                Unspill, EvictDisk
  <2>3. /\ pc[t] \in {"get_tail", "spill", "register", "drop_tail", "retry"}
        /\ Lookup(arg[t]) \in {before[t]} \cup (IF IoMayFail THEN {Torn} ELSE {})
    BY <1>2, <2>2 DEF SetsHeld, SetHeld
  <2>4. PICK k \in Keys : k = arg[t]
    BY <1>2 DEF CommandsInv, Called
  <2>5. SoloStep(t)
    BY <1>0, <2>1, StepSolo DEF SoloLocals
  <2>6. CASE pc[t] # "retry"
    <3>1. Kept(k)
      BY <2>3, <2>5, <2>6 DEF SoloStep, RoomStep
    <3>2. Lookup(arg[t])' \in {before'[t]} \cup (IF IoMayFail THEN {Torn} ELSE {})
      BY <2>1, <2>3, <2>4, <3>1 DEF Kept
    <3>3. crashed' \/ pc'[t] \in {"idle", "spill", "register", "drop_tail", "retry"}
      BY <1>0, <1>2, <2>3, <2>6
         DEF InCall, GetTail, Spill, Register, DropTail, PutRetry, ReadDisk, Promote, Unspill,
             EvictDisk, Goto, Return, Crash, ControlTyped
    <3> QED BY <3>2, <3>3 DEF Alone, SetsHeld, SetHeld
  <2>7. CASE pc[t] = "retry"
    <3>1. PutRetry(t)
      BY <1>2, <2>7 DEF InCall, GetTail, Spill, Register, DropTail, ReadDisk, Promote, Unspill,
                        EvictDisk
    <3>2. PICK v \in Contents : v = data[t]
      BY <1>0, <2>7 DEF CacheInv, Local
    <3>3. PICK r \in {OK, FAIL, FULL} :
            /\ lru_cache_put(k, v, r)
            /\ r = OK => Return(t, PartOf[k])
            /\ r # OK => Return(t, -1)
      BY <2>4, <3>1, <3>2 DEF PutRetry
    <3>4. r \in {OK, FULL} /\ (r = FULL => UNCHANGED lruVars)
      BY <1>0, <3>3, PutMemory DEF CacheInv
    <3>5. pc'[t] = "idle" /\ (r = OK => result'[t] = PartOf[k])
      BY <1>0, <3>3 DEF Return, ControlTyped
    <3>6. PartOf[k] # -1
      BY LruAssumption, PodAssumption
    <3>7. r = FULL => Lookup(k)' = Lookup(k)
      BY <3>1, <3>4, ReadersAlike DEF PutRetry, casVars, lruVars
    <3>8. r = FULL => Lookup(arg[t])' \in {before'[t]} \cup (IF IoMayFail THEN {Torn} ELSE {})
      BY <2>1, <2>3, <2>4, <3>7
    <3> QED BY <3>4, <3>5, <3>6, <3>8 DEF Alone, SetsHeld, SetHeld
  <2> QED BY <2>6, <2>7
<1>3. (InCall(t) /\ handler[t] = "set") \/ handler'[t] # "set"
      \/ \E k \in Keys : \E v \in ClientValues[k] : handle_set(t, k, v)
  BY <1>0 DEF HandlerStep, Simple, handle_get, handle_incr, handle_del, CallGet, Enter, Reply,
              EndSet, EndGet, EndDel, EndIncrGet, IncrStore, EndIncr, InCall
<1> QED BY <1>1, <1>2, <1>3, NotInSet

\* The step of the only thread.
LEMMA NextSetsHeld ==
  ASSUME Alone, ~ MemMayFail
  PROVE  CommandsInv /\ SoloLocals /\ SetsHeld /\ [CommandsNext]_allVars => SetsHeld'
<1> SUFFICES ASSUME CommandsInv, SoloLocals, SetsHeld, [CommandsNext]_allVars PROVE SetsHeld'
  OBVIOUS
<1>1. CASE UNCHANGED allVars
  <2>1. /\ UNCHANGED <<handler, before, pc, result, arg, crashed>>
        /\ UNCHANGED <<order, val, dat>>
    BY <1>1 DEF allVars, handlerVars, vars
  <2>2. \A k \in Keys : Lookup(k)' = Lookup(k)
    BY <2>1, ReadersAlike
  <2>3. \A t \in Threads : handler[t] = "set" => Lookup(arg[t])' = Lookup(arg[t])
    BY <2>1, <2>2 DEF CommandsInv, Called
  <2> QED BY <2>1, <2>3 DEF SetsHeld, SetHeld
<1>2. CASE ~ crashed /\ \E t \in Threads : HandlerStep(t)
  BY <1>2, HandlerStepSet
<1> QED BY <1>1, <1>2 DEF CommandsNext, Over

\* The three invariants hold always.
LEMMA AlwaysSetsHeld ==
  ASSUME Alone, ~ MemMayFail
  PROVE  CommandsSpec => []CommandsInv /\ []SoloLocals /\ []SetsHeld
<1>1. CommandsInit => SoloLocals /\ SetsHeld
  BY InitSolo DEF CommandsInit, SetsHeld, SetHeld
<1>2. CommandsInv /\ SoloLocals /\ [CommandsNext]_allVars => SoloLocals'
  BY NextCommandsInv, NextSoloLocals DEF CommandsInv
<1> QED BY <1>1, <1>2, AlwaysCommandsInv, NextSetsHeld, PTL DEF CommandsSpec

\* One client whose allocations succeed, any fault of the disk: a SET that answers
\* an error leaves its key as it was, also when making room moved the old value of
\* that very key to disk.
THEOREM RefusedSetsChangeNothing ==
  ASSUME Alone, ~ MemMayFail PROVE CommandsSpec => RefusedSetChangesNothing
<1>1. ASSUME CommandsInv, SetsHeld, [CommandsNext]_allVars, NEW t \in Threads,
             handler[t] = "set", Done(t), reply'[t][1] = "error"
      PROVE  Lookup(arg[t]) \in {before[t]} \cup (IF IoMayFail THEN {Torn} ELSE {})
  <2>1. handler'[t] = "ready"
    BY <1>1 DEF Done
  <2>2. ~ crashed /\ HandlerStep(t)
    BY <1>1, <2>1 DEF CommandsNext, Over, Alone, allVars, handlerVars
  <2>3. EndSet(t)
    BY <1>1, <2>1, <2>2
       DEF HandlerStep, Simple, handle_set, handle_get, handle_incr, handle_del, CallGet, Enter,
           EndGet, EndDel, EndIncrGet, EndIncr, InCall, Returned
  <2>4. reply' = [reply EXCEPT ![t] = IF result[t] < 0 THEN Error ELSE Status]
    BY <2>3 DEF EndSet, Reply
  <2>5. reply'[t] = IF result[t] < 0 THEN Error ELSE Status
    BY <1>1, <2>4 DEF CommandsInv, HandlersTyped
  <2>6. result[t] < 0
    BY <1>1, <2>5 DEF Status
  <2>7. result[t] \in Results
    BY <1>1 DEF CommandsInv, CacheInv, ControlTyped
  <2>8. result[t] = -1
    BY <2>6, <2>7, ResultsAre
  <2> QED BY <1>1, <2>2, <2>8 DEF SetsHeld, SetHeld
<1>2. CommandsInv /\ SetsHeld /\ [CommandsNext]_allVars =>
        [\A t \in Threads : handler[t] = "set" /\ Done(t) /\ reply'[t][1] = "error" =>
           Lookup(arg[t]) \in {before[t]} \cup (IF IoMayFail THEN {Torn} ELSE {})]_allVars
  BY <1>1
<1> QED BY <1>2, AlwaysSetsHeld, PTL DEF CommandsSpec, RefusedSetChangesNothing

\* Without failing allocations every node in memory has its value.
Whole == \A k \in Keys : Resident(k) => val[k] # NULL

\* Storing a value, or finding no room for it, leaves no node without one.
LEMMA PutWhole ==
  ASSUME ~ MemMayFail, CacheInv, Whole, NEW k \in Keys, NEW v \in Contents, NEW r,
         lru_cache_put(k, v, r)
  PROVE  Whole'
<1> USE DEF OK, FULL
<1>1. /\ MemoryKept(k) /\ (r = OK => val'[k] = v)
      /\ r \in {OK, FULL} /\ (r = FULL => UNCHANGED lruVars)
  BY PutMemory DEF CacheInv
<1>2. CASE UNCHANGED lruVars
  BY <1>2 DEF Whole, Resident, At, lruVars
<1>3. CASE r = OK
  BY <1>1, <1>3, DataAssumption DEF Whole, MemoryKept
<1> QED BY <1>1, <1>2, <1>3

\* Neither does taking a node out.
LEMMA UnlinkWhole ==
  ASSUME CacheInv, Whole, NEW k \in Keys, Unlink(k) PROVE Whole'
<1>1. MemoryKept(k) /\ ~ Resident(k)'
  BY UnlinkMemory DEF CacheInv
<1> QED BY <1>1 DEF Whole, MemoryKept

\* Every step of the cache keeps it.
LEMMA NextWhole ==
  ASSUME ~ MemMayFail PROVE CacheInv /\ Whole /\ [Next]_vars => Whole'
<1> SUFFICES ASSUME CacheInv, Whole, [Next]_vars PROVE Whole'
  OBVIOUS
<1>1. CASE UNCHANGED lruVars
  BY <1>1 DEF Whole, Resident, At, lruVars
<1>2. ASSUME ~ crashed, NEW t \in Threads, Step(t) PROVE Whole'
  <2>0. Local(t)
    BY <1>2 DEF CacheInv
  <2>1. ASSUME NEW k \in Keys, NEW v \in Values, PutFirst(t, k, v) PROVE Whole'
    BY <2>1, PutWhole DEF PutFirst, Contents
  <2>2. CASE PutRetry(t) \/ Promote(t)
    <3>1. arg[t] \in Keys /\ data[t] \in Contents
      BY <2>0, <2>2 DEF PutRetry, Promote, Local
    <3> QED BY <2>2, <3>1, PutWhole DEF PutRetry, Promote
  <2>3. ASSUME NEW k \in Keys, GetMemory(t, k) PROVE Whole'
    <3>1. val' = val /\ \A j \in Keys : Resident(j)' <=> Resident(j)
      BY <2>3, GetKeepsMemory DEF GetMemory, CacheInv
    <3> QED BY <3>1 DEF Whole
  <2>4. ASSUME NEW k \in Keys, EvictMemory(t, k) PROVE Whole'
    BY <1>1, <2>4, UnlinkWhole DEF EvictMemory, lru_cache_evict
  <2>5. CASE DropTail(t)
    <3>1. PICK p \in Partitions : p = PartOf[arg[t]]
      BY <2>0, <2>5, LruAssumption DEF DropTail, Local
    <3>2. order[p] # << >> => order[p][Len(order[p])] \in Keys
      BY TailResident DEF CacheInv
    <3> QED BY <1>1, <2>5, <3>1, <3>2, UnlinkWhole DEF DropTail, lru_cache_remove_tail
  <2>6. CASE GetTail(t) \/ Spill(t) \/ Register(t) \/ ReadDisk(t) \/ Unspill(t) \/ EvictDisk(t)
    BY <1>1, <2>6 DEF GetTail, Spill, Register, ReadDisk, Unspill, EvictDisk
  <2> QED BY <1>2, <2>1, <2>2, <2>3, <2>4, <2>5, <2>6 DEF Step
<1> QED BY <1>1, <1>2 DEF Next, Stopped, vars, lruVars

\* What a GET, or the reading half of an INCR, has found: the value the key had
\* when the command began.  A hit in memory of a partition other than 0 returns
\* that partition's number.
GetFound(t) ==
  handler[t] \in {"get", "incr_get"} =>
    /\ pc[t] \in {"idle", "read_disk", "promote", "unspill"}
    /\ pc[t] = "read_disk" => Lookup(arg[t]) = before[t]
    /\ pc[t] \in {"promote", "unspill"} => data[t] = before[t] /\ out_value[t] = before[t]
    /\ pc[t] = "idle" /\ result[t] = 0 => out_value[t] = before[t] /\ before[t] # NULL
    /\ pc[t] = "idle" /\ result[t] # 0 => before[t] = NULL \/ PartOf[arg[t]] # 0

\* Where pod_cache_put may be.
Putting == {"idle", "get_tail", "spill", "register", "drop_tail", "retry"}

\* What the storing half of an INCR stores.
Counted(t) ==
  \/ before[t] \in {NULL, Empty} /\ number[t] = 1
  \/ PartOf[arg[t]] # 0 /\ number[t] = 1
  \/ before[t] # NULL /\ (~ ended[t] \/ before[t] = Torn)
  \/ before[t] \in Numerals /\ number[t] = Increment(before[t])

\* It stays so until the store is over.
IncrCounts(t) == handler[t] = "incr_put" => pc[t] \in Putting /\ Counted(t)

\* The same for all threads of a running process.
ReadsFound == ~ crashed => \A t \in Threads : GetFound(t) /\ IncrCounts(t)

\* A step that ends with t neither in a GET nor in an INCR.
LEMMA NotReading ==
  ASSUME Alone, NEW t \in Threads, handler'[t] \notin {"get", "incr_get", "incr_put"}
  PROVE  ReadsFound'
BY DEF Alone, ReadsFound, GetFound, IncrCounts

\* pod_cache_put goes on within itself.
LEMMA PuttingGoesOn ==
  ASSUME ControlTyped, NEW t \in Threads, InCall(t), pc[t] \in Putting
  PROVE  crashed' \/ pc'[t] \in Putting
BY DEF InCall, GetTail, Spill, Register, DropTail, PutRetry, ReadDisk, Promote, Unspill,
       EvictDisk, Goto, Return, Crash, ControlTyped, Putting

\* pod_cache_get begins: a hit in memory is what a reader finds.
LEMMA CallGetFound ==
  ASSUME Alone, ~ MemMayFail, CommandsInv, Whole, ~ crashed, NEW t \in Threads,
         NEW k \in Keys, NEW h \in {"get", "incr_get"}, CallGet(t, k, h)
  PROVE  ReadsFound'
<1> USE DEF OK, FAIL, MISS, CRASH
<1>0. HandlersTyped /\ ControlTyped /\ CacheInv
  BY DEF CommandsInv, CacheInv
<1>1. /\ GetMemory(t, k)
      /\ before' = [before EXCEPT ![t] = Lookup(k)]
      /\ handler' = [handler EXCEPT ![t] = h]
      /\ out_value' = [out_value EXCEPT ![t] = IF Resident(k) THEN val[k] ELSE NULL]
  BY DEF CallGet, Enter
<1>2. /\ before'[t] = Lookup(k) /\ handler'[t] = h
      /\ out_value'[t] = IF Resident(k) THEN val[k] ELSE NULL
  BY <1>0, <1>1 DEF HandlersTyped
<1>3. arg'[t] = k /\ dat' = dat
  BY <1>0, <1>1 DEF GetMemory, casVars, ControlTyped
<1>4. PICK r, v :
        /\ lru_cache_get(k, r, v)
        /\ \/ r = OK /\ Return(t, PartOf[k])
           \/ r = FAIL /\ Return(t, -1)
           \/ r = MISS /\ Goto(t, "read_disk")
           \/ r = CRASH /\ Crash
  BY <1>1 DEF GetMemory
<1>5. /\ val' = val /\ \A j \in Keys : Resident(j)' <=> Resident(j)
      /\ r = OK => Resident(k)
  BY <1>0, <1>4, GetKeepsMemory DEF CacheInv
<1>6. r # FAIL
  BY <1>4 DEF lru_cache_get
<1>7. CASE r = OK
  <2>1. pc'[t] = "idle" /\ result'[t] = PartOf[k]
    BY <1>0, <1>4, <1>7 DEF Return, ControlTyped
  <2>2. out_value'[t] = before'[t] /\ before'[t] # NULL
    BY <1>2, <1>5, <1>7 DEF Lookup, Whole
  <2>3. result'[t] # 0 => PartOf[arg'[t]] # 0
    BY <1>3, <2>1
  <2> QED BY <1>2, <2>1, <2>2, <2>3 DEF Alone, ReadsFound, GetFound, IncrCounts
<1>8. CASE r = MISS
  <2>1. pc'[t] = "read_disk"
    BY <1>0, <1>4, <1>8 DEF Goto, ControlTyped
  <2>2. Lookup(k)' = Lookup(k)
    BY <1>3, <1>5 DEF Lookup
  <2>3. Lookup(arg[t])' = before'[t]
    BY <1>2, <1>3, <2>2
  <2> QED BY <1>2, <2>1, <2>3 DEF Alone, ReadsFound, GetFound, IncrCounts
<1>9. CASE r = CRASH
  BY <1>4, <1>9 DEF Crash, ReadsFound
<1> QED BY <1>4, <1>6, <1>7, <1>8, <1>9

\* pod_cache_get goes on: the disk has what a reader finds, and the copy in hand
\* stays what it is through the promotion.
LEMMA InCallFound ==
  ASSUME Alone, ~ MemMayFail, ~ IoMayFail, CommandsInv, SoloLocals, ReadsFound, ~ crashed,
         NEW t \in Threads, InCall(t)
  PROVE  ReadsFound'
<1> USE DEF OK, FAIL, CRASH
<1>0. HandlersTyped /\ ControlTyped /\ CacheInv /\ Local(t) /\ SoloLocal(t)
  BY DEF CommandsInv, CacheInv, SoloLocals
<1>1. /\ arg' = arg /\ UNCHANGED <<handler, number, before>>
      /\ out_value' = IF pc[t] = "read_disk" THEN [out_value EXCEPT ![t] = data'[t]] ELSE out_value
  BY InCallStep DEF InCall
<1>2. crashed' \/ IncrCounts(t)'
  <2> SUFFICES ASSUME handler[t] = "incr_put", ~ crashed' PROVE pc'[t] \in Putting /\ Counted(t)'
    BY <1>1 DEF IncrCounts
  <2>1. pc[t] \in Putting /\ Counted(t)
    BY DEF ReadsFound, IncrCounts
  <2>2. pc'[t] \in Putting
    BY <1>0, <2>1, PuttingGoesOn
  <2>3. ended' = ended
    BY <2>1 DEF InCall, Putting
  <2> QED BY <1>1, <2>1, <2>2, <2>3 DEF Counted
<1>3. CASE handler[t] \notin {"get", "incr_get"}
  BY <1>1, <1>2, <1>3 DEF Alone, ReadsFound, GetFound
<1>4. CASE handler[t] \in {"get", "incr_get"}
  <2>0. /\ pc[t] \in {"idle", "read_disk", "promote", "unspill"}
        /\ pc[t] = "read_disk" => Lookup(arg[t]) = before[t]
        /\ pc[t] \in {"promote", "unspill"} => data[t] = before[t] /\ out_value[t] = before[t]
    BY <1>4 DEF ReadsFound, GetFound
  <2>1. ReadDisk(t) \/ Promote(t) \/ Unspill(t)
    BY <2>0 DEF InCall, GetTail, Spill, Register, DropTail, PutRetry, EvictDisk
  <2>2. PICK k \in Keys : k = arg[t]
    BY <1>4 DEF CommandsInv, Called
  <2>3. CASE ReadDisk(t)
    <3>1. pc[t] = "read_disk" /\ ~ Resident(k)
      BY <1>0, <2>2, <2>3 DEF ReadDisk, SoloLocal
    <3>2. dat[k] = before[t]
      BY <2>0, <2>2, <3>1 DEF Lookup
    <3>3. PICK r, v :
            /\ cas_get(k, r, v)
            /\ \/ r = OK /\ Goto(t, "promote") /\ data' = [data EXCEPT ![t] = v]
               \/ r = FAIL /\ Return(t, -1)
               \/ r = CRASH /\ Crash
      BY <2>2, <2>3 DEF ReadDisk
    <3>4. (r = OK => v = dat[k]) /\ (r = FAIL => dat[k] = NULL) /\ r # CRASH
      BY <3>3 DEF cas_get
    <3>5. CASE r = OK
      <4>1. pc'[t] = "promote" /\ data'[t] = before[t]
        BY <1>0, <3>2, <3>3, <3>4, <3>5 DEF Goto, ControlTyped
      <4>2. out_value'[t] = before[t]
        BY <1>0, <1>1, <3>1, <4>1 DEF HandlersTyped
      <4> QED BY <1>1, <1>2, <4>1, <4>2 DEF Alone, ReadsFound, GetFound
    <3>6. CASE r = FAIL
      <4>1. pc'[t] = "idle" /\ result'[t] = -1 /\ before[t] = NULL
        BY <1>0, <3>2, <3>3, <3>4, <3>6 DEF Return, ControlTyped
      <4> QED BY <1>1, <1>2, <4>1 DEF Alone, ReadsFound, GetFound
    <3> QED BY <3>3, <3>4, <3>5, <3>6
  <2>4. CASE Promote(t)
    <3>1. pc[t] = "promote" /\ pc'[t] = "unspill" /\ data' = data
      BY <1>0, <2>4 DEF Promote, Goto, ControlTyped
    <3> QED BY <1>1, <1>2, <2>0, <3>1 DEF Alone, ReadsFound, GetFound
  <2>5. CASE Unspill(t)
    <3>1. pc[t] = "unspill" /\ (Crash \/ Return(t, 0))
      BY <2>5 DEF Unspill
    <3>2. before[t] # NULL
      BY <1>0, <2>0, <3>1, DataAssumption DEF Local
    <3>3. crashed' \/ (pc'[t] = "idle" /\ result'[t] = 0)
      BY <1>0, <3>1 DEF Crash, Return, ControlTyped
    <3> QED BY <1>1, <1>2, <2>0, <3>1, <3>2, <3>3 DEF Alone, ReadsFound, GetFound
  <2> QED BY <2>1, <2>3, <2>4, <2>5
<1> QED BY <1>3, <1>4

\* INCR has read its number: it stores one more than the key held.
LEMMA EndIncrGetFound ==
  ASSUME Alone, CommandsInv, ReadsFound, ~ crashed, NEW t \in Threads, EndIncrGet(t)
  PROVE  ReadsFound'
<1>0. HandlersTyped /\ ControlTyped
  BY DEF CommandsInv, CacheInv
<1>1. handler[t] = "incr_get" /\ pc[t] = "idle" /\ arg[t] \in Keys
  BY DEF EndIncrGet, Returned, CommandsInv, Called
<1>2. /\ result[t] = 0 => out_value[t] = before[t] /\ before[t] # NULL
      /\ result[t] # 0 => before[t] = NULL \/ PartOf[arg[t]] # 0
  BY <1>1 DEF ReadsFound, GetFound
<1>3. ASSUME NEW n, IncrStore(t, n)
      PROVE  /\ handler'[t] = "incr_put" /\ number'[t] = n /\ pc'[t] \in Putting
             /\ before' = before /\ ended' = ended /\ arg'[t] = arg[t]
  <2>1. /\ handler' = [handler EXCEPT ![t] = "incr_put"] /\ number' = [number EXCEPT ![t] = n]
        /\ before' = before /\ ended' = ended /\ PutFirst(t, arg[t], n)
    BY <1>3 DEF IncrStore
  <2>2. arg'[t] = arg[t] /\ pc'[t] \in Putting
    BY <1>0, <2>1 DEF PutFirst, Return, Goto, ControlTyped, Putting
  <2> QED BY <1>0, <2>1, <2>2 DEF HandlersTyped
<1>4. ASSUME NEW n, IncrStore(t, n), Counted(t)' PROVE ReadsFound'
  BY <1>3, <1>4 DEF Alone, ReadsFound, GetFound, IncrCounts
<1>5. CASE result[t] # 0 /\ IncrStore(t, 1)
  BY <1>2, <1>3, <1>4, <1>5 DEF Counted
<1>6. CASE Reply(t, Error)
  <2>1. handler'[t] = "ready"
    BY <1>0, <1>6 DEF Reply, HandlersTyped
  <2> QED BY <2>1, NotReading
<1>7. ASSUME NEW n \in strtol(out_value[t], ended[t]), result[t] = 0, IncrStore(t, Increment(n))
      PROVE  ReadsFound'
  <2>1. number'[t] = Increment(n) /\ before' = before /\ ended' = ended
    BY <1>3, <1>7
  <2>2. Increment(0) = 1
    BY CommandsAssumption DEF Increment
  <2>3. Counted(t)'
    BY <1>2, <1>7, <2>1, <2>2 DEF Counted, strtol
  <2> QED BY <1>4, <1>7, <2>3
<1> QED BY <1>5, <1>6, <1>7 DEF EndIncrGet

\* Every step of the only thread.
LEMMA NextReadsFound ==
  ASSUME Alone, ~ MemMayFail, ~ IoMayFail
  PROVE  CommandsInv /\ SoloLocals /\ Whole /\ ReadsFound /\ [CommandsNext]_allVars =>
           ReadsFound'
<1> SUFFICES ASSUME CommandsInv, SoloLocals, Whole, ReadsFound, [CommandsNext]_allVars
             PROVE  ReadsFound'
  OBVIOUS
<1>1. CASE UNCHANGED allVars
  <2>1. /\ UNCHANGED <<handler, before, out_value, ended, number, pc, result, arg, data, crashed>>
        /\ UNCHANGED <<order, val, dat>>
    BY <1>1 DEF allVars, handlerVars, vars
  <2>2. \A k \in Keys : Lookup(k)' = Lookup(k)
    BY <2>1, ReadersAlike
  <2>3. \A t \in Threads : handler[t] # "ready" => Lookup(arg[t])' = Lookup(arg[t])
    BY <2>1, <2>2 DEF CommandsInv, Called
  <2> QED BY <2>1, <2>3 DEF ReadsFound, GetFound, IncrCounts, Counted
<1>2. ASSUME ~ crashed, NEW t \in Threads, HandlerStep(t) PROVE ReadsFound'
  <2>1. ASSUME NEW k \in Keys, handle_get(t, k) \/ handle_incr(t, k) PROVE ReadsFound'
    BY <1>2, <2>1, CallGetFound DEF handle_get, handle_incr
  <2>2. CASE InCall(t)
    BY <1>2, <2>2, InCallFound
  <2>3. CASE EndIncrGet(t)
    BY <1>2, <2>3, EndIncrGetFound
  <2>4. handler \in [Threads -> Handlers]
    BY DEF CommandsInv, HandlersTyped
  <2>5. \/ \E k \in Keys : handle_get(t, k) \/ handle_incr(t, k)
        \/ InCall(t) \/ EndIncrGet(t)
        \/ handler'[t] \notin {"get", "incr_get", "incr_put"}
    BY <1>2, <2>4 DEF HandlerStep, Simple, handle_set, handle_del, Enter, Reply, EndSet, EndGet,
                      EndDel, EndIncr
  <2> QED BY <2>1, <2>2, <2>3, <2>5, NotReading
<1> QED BY <1>1, <1>2 DEF CommandsNext, Over

\* The invariants hold always.
LEMMA AlwaysReadsFound ==
  ASSUME Alone, ~ MemMayFail, ~ IoMayFail
  PROVE  CommandsSpec => []CommandsInv /\ []ReadsFound
<1>1. CommandsInit => SoloLocals /\ Whole /\ ReadsFound
  <2> SUFFICES ASSUME CommandsInit PROVE SoloLocals /\ Whole /\ ReadsFound
    OBVIOUS
  <2>1. SoloLocals
    BY InitSolo DEF CommandsInit
  <2>2. ReadsFound
    BY DEF CommandsInit, ReadsFound, GetFound, IncrCounts
  <2>3. Whole
    BY LruAssumption DEF CommandsInit, Init, LruInit, Whole, Resident, At
  <2> QED BY <2>1, <2>2, <2>3
<1>2. CommandsInv /\ SoloLocals /\ Whole /\ [CommandsNext]_allVars => SoloLocals' /\ Whole'
  BY NextCommandsInv, NextSoloLocals, NextWhole DEF CommandsInv
<1> QED BY <1>1, <1>2, AlwaysCommandsInv, NextReadsFound, PTL DEF CommandsSpec

\* One client, no faults: a GET never answers another value than the one the key
\* had, in memory or on disk, when the command began, and nil only if it had none
\* or is a key of another partition than 0, through every spill and promotion; the
\* value is sent with what is behind it when no zero follows it, and a reply that
\* outgrows the buffer is not sent.
THEOREM GetsAnswerTheirKey ==
  ASSUME Alone, ~ MemMayFail, ~ IoMayFail
  PROVE  CommandsSpec => GetAnswersItsKey
<1> DEFINE Answered(t) ==
      \/ before[t] = NULL /\ reply'[t] = Nil
      \/ before[t] # NULL /\ PartOf[arg[t]] # 0 /\ reply'[t] = Nil
      \/ before[t] # NULL /\ ended[t] /\ reply'[t] = Bulk(before[t])
      \/ before[t] # NULL /\ ~ ended[t] /\ reply'[t] = Overread(before[t])
      \/ /\ before[t] # NULL /\ (SizeOf[before[t]] > ReplyLimit \/ ~ ended[t])
         /\ reply'[t] = NoReply
<1>1. ASSUME CommandsInv, ReadsFound, [CommandsNext]_allVars, NEW t \in Threads,
             handler[t] = "get", Done(t)
      PROVE  Answered(t)
  <2>1. handler'[t] = "ready"
    BY <1>1 DEF Done
  <2>2. ~ crashed /\ HandlerStep(t)
    BY <1>1, <2>1 DEF CommandsNext, Over, Alone, allVars, handlerVars
  <2>3. EndGet(t)
    BY <1>1, <2>1, <2>2
       DEF HandlerStep, Simple, handle_set, handle_get, handle_incr, handle_del, CallGet, Enter,
           EndSet, EndDel, EndIncrGet, EndIncr, InCall, Returned
  <2>4. pc[t] = "idle"
    BY <2>3 DEF EndGet, Returned
  <2>5. /\ result[t] = 0 => out_value[t] = before[t] /\ before[t] # NULL
        /\ result[t] # 0 => before[t] = NULL \/ PartOf[arg[t]] # 0
    BY <1>1, <2>2, <2>4 DEF ReadsFound, GetFound
  <2>6. ASSUME NEW r, Reply(t, r) PROVE reply'[t] = r
    BY <1>1, <2>6 DEF Reply, CommandsInv, HandlersTyped
  <2>7. CASE result[t] # 0
    BY <2>3, <2>5, <2>6, <2>7 DEF EndGet
  <2>8. CASE result[t] = 0
    BY <2>3, <2>5, <2>6, <2>8 DEF EndGet
  <2> QED BY <2>7, <2>8
<1>2. CommandsInv /\ ReadsFound /\ [CommandsNext]_allVars =>
        [\A t \in Threads : handler[t] = "get" /\ Done(t) => Answered(t)]_allVars
  BY <1>1
<1> QED BY <1>2, AlwaysReadsFound, PTL DEF CommandsSpec, GetAnswersItsKey

\* One client, no faults: INCR answers the successor of what the key held when the
\* command began, as a long wraps and as it is printed, 1 if it held nothing or the
\* empty string, and an error for other text; it starts again at 1 for a hit in
\* memory of a partition other than 0, and a copy that no zero follows may read as
\* anything.
THEOREM IncrementsCountTheirKey ==
  ASSUME Alone, ~ MemMayFail, ~ IoMayFail
  PROVE  CommandsSpec => IncrCountsItsKey
<1> DEFINE Answered(t) ==
      \/ before[t] \in {NULL, Empty} /\ reply'[t] = Integer(1)
      \/ PartOf[arg[t]] # 0 /\ reply'[t] = Integer(1)
      \/ before[t] # NULL /\ (~ ended[t] \/ before[t] = Torn)
      \/ before[t] \in Text /\ reply'[t] = Error
      \/ /\ before[t] \in Numerals
         /\ reply'[t] = Integer(AsUnsigned(Increment(before[t])))
<1>1. ASSUME CommandsInv, ReadsFound, [CommandsNext]_allVars, NEW t \in Threads,
             handler[t] \in {"incr_get", "incr_put"}, Done(t)
      PROVE  Answered(t)
  <2>1. handler'[t] = "ready"
    BY <1>1 DEF Done
  <2>2. ~ crashed /\ HandlerStep(t)
    BY <1>1, <2>1 DEF CommandsNext, Over, Alone, allVars, handlerVars
  <2>3. EndIncrGet(t) \/ EndIncr(t)
    BY <1>1, <2>1, <2>2
       DEF HandlerStep, Simple, handle_set, handle_get, handle_incr, handle_del, CallGet, Enter,
           EndSet, EndGet, EndDel, InCall, Returned
  <2>4. ASSUME NEW r, Reply(t, r) PROVE reply'[t] = r
    BY <1>1, <2>4 DEF Reply, CommandsInv, HandlersTyped
  <2>5. CASE EndIncrGet(t)
    <3>1. pc[t] = "idle" /\ handler[t] = "incr_get"
      BY <2>5 DEF EndIncrGet, Returned
    <3>2. handler \in [Threads -> Handlers]
      BY <1>1 DEF CommandsInv, HandlersTyped
    <3>3. ~ \E n : IncrStore(t, n)
      BY <2>1, <3>2 DEF IncrStore
    <3>4. /\ result[t] = 0 /\ Reply(t, Error)
          /\ out_value[t] \in Text \cup {Torn} \/ ~ ended[t]
      BY <2>5, <3>3 DEF EndIncrGet
    <3>5. out_value[t] = before[t] /\ before[t] # NULL
      BY <1>1, <2>2, <3>1, <3>4 DEF ReadsFound, GetFound
    <3>6. reply'[t] = Error
      BY <2>4, <3>4
    <3> QED BY <3>4, <3>5, <3>6
  <2>6. CASE EndIncr(t)
    <3>1. handler[t] = "incr_put" /\ Reply(t, Integer(AsUnsigned(number[t])))
      BY <2>6 DEF EndIncr, Returned
    <3>2. Counted(t)
      BY <1>1, <2>2, <3>1 DEF ReadsFound, IncrCounts
    <3>3. reply'[t] = Integer(AsUnsigned(number[t])) /\ AsUnsigned(1) = 1
      BY <2>4, <3>1, LongArithmetic
    <3> QED BY <3>2, <3>3 DEF Counted
  <2> QED BY <2>3, <2>5, <2>6
<1>2. CommandsInv /\ ReadsFound /\ [CommandsNext]_allVars =>
        [\A t \in Threads : handler[t] \in {"incr_get", "incr_put"} /\ Done(t) =>
           Answered(t)]_allVars
  BY <1>1
<1> QED BY <1>2, AlwaysReadsFound, PTL DEF CommandsSpec, IncrCountsItsKey

\* Until INCR has stored its number, its key holds what it held when the command
\* began, or nothing if it could not be promoted; then it holds the number.
IncrHeld(t) ==
  /\ handler[t] = "incr_get" => Lookup(arg[t]) \in {before[t], NULL}
  /\ handler[t] = "incr_put" /\ pc[t] # "idle" =>
       pc[t] \in Putting /\ data[t] = number[t] /\ Lookup(arg[t]) \in {before[t], NULL}
  /\ handler[t] = "incr_put" /\ pc[t] = "idle" =>
       IF result[t] = -1 THEN Lookup(arg[t]) \in {before[t], NULL}
                         ELSE Lookup(arg[t]) = number[t]

\* The same for all threads of a running process.
IncrsHeld == ~ crashed => \A t \in Threads : IncrHeld(t)

\* A put that is refused changes nothing; else its value is found.
LEMMA PutFinds ==
  ASSUME ~ MemMayFail, CacheInv, NEW k \in Keys, NEW v \in Contents, NEW r,
         lru_cache_put(k, v, r), dat' = dat
  PROVE  /\ r \in {OK, FULL}
         /\ r = OK => Lookup(k)' = v
         /\ r = FULL => Lookup(k)' = Lookup(k)
<1>1. /\ r \in {OK, FULL} /\ (r = OK => Resident(k)' /\ val'[k] = v)
      /\ r = FULL => UNCHANGED lruVars
  BY PutMemory DEF CacheInv
<1>2. r = OK => Lookup(k)' = v
  BY <1>1 DEF Lookup
<1>3. r = FULL => Lookup(k)' = Lookup(k)
  BY <1>1, ReadersAlike DEF lruVars
<1> QED BY <1>1, <1>2, <1>3

\* The reading half of an INCR begins: its key is as it was.
LEMMA CallGetHeld ==
  ASSUME Alone, CommandsInv, NEW t \in Threads, NEW k \in Keys, CallGet(t, k, "incr_get")
  PROVE  IncrsHeld'
<1>0. HandlersTyped /\ ControlTyped /\ CacheInv
  BY DEF CommandsInv, CacheInv
<1>1. /\ GetMemory(t, k)
      /\ before' = [before EXCEPT ![t] = Lookup(k)]
      /\ handler' = [handler EXCEPT ![t] = "incr_get"]
  BY DEF CallGet, Enter
<1>2. before'[t] = Lookup(k) /\ handler'[t] = "incr_get"
  BY <1>0, <1>1 DEF HandlersTyped
<1>3. arg'[t] = k /\ dat' = dat
  BY <1>0, <1>1 DEF GetMemory, casVars, ControlTyped
<1>4. val' = val /\ \A j \in Keys : Resident(j)' <=> Resident(j)
  BY <1>0, <1>1, GetKeepsMemory DEF GetMemory, CacheInv
<1>5. Lookup(k)' = Lookup(k)
  BY <1>3, <1>4 DEF Lookup
<1>6. Lookup(arg[t])' = before'[t]
  BY <1>2, <1>3, <1>5
<1> QED BY <1>2, <1>6 DEF Alone, IncrsHeld, IncrHeld

\* The storing half begins.
LEMMA EndIncrGetHeld ==
  ASSUME Alone, ~ MemMayFail, CommandsInv, IncrsHeld, ~ crashed, NEW t \in Threads,
         NEW n \in Numerals, handler[t] = "incr_get", IncrStore(t, n)
  PROVE  IncrsHeld'
<1> USE DEF OK, FAIL, FULL
<1>0. HandlersTyped /\ ControlTyped /\ CacheInv
  BY DEF CommandsInv, CacheInv
<1>1. PICK k \in Keys : k = arg[t]
  BY DEF CommandsInv, Called
<1>2. /\ handler' = [handler EXCEPT ![t] = "incr_put"] /\ number' = [number EXCEPT ![t] = n]
      /\ before' = before /\ PutFirst(t, k, n)
  BY <1>1 DEF IncrStore
<1>3. handler'[t] = "incr_put" /\ number'[t] = n
  BY <1>0, <1>2 DEF HandlersTyped
<1>4. arg'[t] = k /\ dat' = dat
  BY <1>0, <1>2 DEF PutFirst, casVars, ControlTyped
<1>5. PICK r \in {OK, FAIL, FULL} :
        /\ lru_cache_put(k, n, r)
        /\ r = OK => Return(t, PartOf[k])
        /\ r = FULL => Goto(t, "get_tail") /\ data' = [data EXCEPT ![t] = n]
  BY <1>2 DEF PutFirst
<1>6. n \in Contents
  BY CommandsAssumption DEF Contents
<1>7. r \in {OK, FULL} /\ (r = OK => Lookup(k)' = n) /\ (r = FULL => Lookup(k)' = Lookup(k))
  BY <1>0, <1>4, <1>5, <1>6, PutFinds
<1>8. CASE r = OK
  <2>1. pc'[t] = "idle" /\ result'[t] = PartOf[k]
    BY <1>0, <1>5, <1>8 DEF Return, ControlTyped
  <2>2. PartOf[k] # -1
    BY LruAssumption, PodAssumption
  <2>3. Lookup(arg[t])' = n
    BY <1>4, <1>7, <1>8
  <2> QED BY <1>3, <2>1, <2>2, <2>3 DEF Alone, IncrsHeld, IncrHeld
<1>9. CASE r = FULL
  <2>1. pc'[t] = "get_tail" /\ data'[t] = n
    BY <1>0, <1>5, <1>9 DEF Goto, ControlTyped
  <2>2. Lookup(k) \in {before[t], NULL}
    BY <1>1 DEF IncrsHeld, IncrHeld
  <2>3. Lookup(arg[t])' \in {before'[t], NULL}
    BY <1>2, <1>4, <1>7, <1>9, <2>2
  <2> QED BY <1>3, <2>1, <2>3 DEF Alone, IncrsHeld, IncrHeld, Putting
<1> QED BY <1>7, <1>8, <1>9

\* pod_cache_get goes on: a promotion moves the value, the removal that follows
\* can only take it away.
LEMMA ReadingHeld ==
  ASSUME Alone, ~ MemMayFail, CommandsInv, SoloLocals, ReadsFound, IncrsHeld, ~ crashed,
         NEW t \in Threads, InCall(t), handler[t] = "incr_get"
  PROVE  IncrsHeld'
<1> USE DEF OK, FAIL, FULL
<1>0. ControlTyped /\ CacheInv /\ Local(t) /\ SoloLocal(t)
  BY DEF CommandsInv, CacheInv, SoloLocals
<1>1. arg' = arg /\ UNCHANGED <<handler, before>>
  BY InCallStep DEF InCall
<1>2. PICK k \in Keys : k = arg[t]
  BY DEF CommandsInv, Called
<1>3. Lookup(k) \in {before[t], NULL}
  BY <1>2 DEF IncrsHeld, IncrHeld
<1>4. pc[t] \in {"idle", "read_disk", "promote", "unspill"}
  BY DEF ReadsFound, GetFound
<1>5. ReadDisk(t) \/ Promote(t) \/ Unspill(t)
  BY <1>4 DEF InCall, GetTail, Spill, Register, DropTail, PutRetry, EvictDisk
<1>6. Lookup(k)' \in {Lookup(k), NULL}
  <2>1. CASE ReadDisk(t)
    BY <2>1, ReadersAlike DEF ReadDisk, cas_get, casVars, lruVars
  <2>2. CASE Promote(t)
    <3>1. ~ Resident(k) /\ data[t] = dat[k] /\ data[t] \in Contents /\ dat' = dat
      BY <1>0, <1>2, <2>2 DEF Promote, SoloLocal, Local, casVars
    <3>2. PICK r \in {OK, FAIL, FULL} : lru_cache_put(k, data[t], r)
      BY <1>2, <2>2 DEF Promote
    <3>3. Lookup(k) = data[t]
      BY <3>1 DEF Lookup
    <3> QED BY <1>0, <3>1, <3>2, <3>3, PutFinds
  <2>3. CASE Unspill(t)
    <3>1. PICK r : cas_evict(k, r) /\ UNCHANGED lruVars
      BY <1>2, <2>3 DEF Unspill
    <3>2. dat'[k] \in {NULL, dat[k]}
      BY <1>0, <3>1, CasEvictDisk DEF CacheInv
    <3> QED BY <3>1, <3>2 DEF Lookup, Resident, At, lruVars
  <2> QED BY <1>5, <2>1, <2>2, <2>3
<1>7. Lookup(arg[t])' \in {before'[t], NULL}
  BY <1>1, <1>2, <1>3, <1>6
<1> QED BY <1>1, <1>7 DEF Alone, IncrsHeld, IncrHeld

\* pod_cache_put goes on: making room changes nothing for a reader of the key, and
\* the second attempt stores the number or nothing.
LEMMA StoringHeld ==
  ASSUME Alone, ~ MemMayFail, ~ IoMayFail, CommandsInv, SoloLocals, IncrsHeld, ~ crashed,
         NEW t \in Threads, InCall(t), handler[t] = "incr_put"
  PROVE  IncrsHeld'
<1> USE DEF OK, FAIL, FULL
<1>0. ControlTyped /\ CacheInv /\ Local(t) /\ HandlersTyped
  BY DEF CommandsInv, CacheInv
<1>1. Step(t) /\ arg' = arg /\ UNCHANGED <<handler, number, before>>
  BY InCallStep DEF InCall
<1>2. PICK k \in Keys : k = arg[t]
  BY DEF CommandsInv, Called
<1>3. pc[t] # "idle"
  BY DEF InCall, GetTail, Spill, Register, DropTail, PutRetry, ReadDisk, Promote, Unspill,
         EvictDisk
<1>4. pc[t] \in Putting /\ data[t] = number[t] /\ Lookup(k) \in {before[t], NULL}
  BY <1>2, <1>3 DEF IncrsHeld, IncrHeld
<1>5. CASE pc[t] # "retry"
  <2>1. Kept(k)
    BY <1>0, <1>1, <1>3, <1>4, <1>5, StepSolo DEF SoloLocals, SoloStep, RoomStep, Putting
  <2>2. Lookup(arg[t])' \in {before'[t], NULL}
    BY <1>1, <1>2, <1>4, <2>1 DEF Kept
  <2>3. \/ crashed'
        \/ pc'[t] \in Putting \ {"idle"} /\ data' = data
        \/ pc'[t] = "idle" /\ result'[t] = -1
    BY <1>0, <1>3, <1>4, <1>5
       DEF InCall, GetTail, Spill, Register, DropTail, PutRetry, ReadDisk, Promote, Unspill,
           EvictDisk, Goto, Return, Crash, ControlTyped, Putting
  <2> QED BY <1>1, <1>4, <2>2, <2>3 DEF Alone, IncrsHeld, IncrHeld
<1>6. CASE pc[t] = "retry"
  <2>1. PutRetry(t)
    BY <1>6 DEF InCall, GetTail, Spill, Register, DropTail, ReadDisk, Promote, Unspill, EvictDisk
  <2>2. PICK r \in {OK, FAIL, FULL} :
          /\ lru_cache_put(k, data[t], r)
          /\ r = OK => Return(t, PartOf[k])
          /\ r # OK => Return(t, -1)
    BY <1>2, <2>1 DEF PutRetry
  <2>3. data[t] \in Contents /\ dat' = dat
    BY <1>0, <2>1 DEF PutRetry, Local, casVars
  <2>4. /\ r \in {OK, FULL}
        /\ r = OK => Lookup(k)' = number[t]
        /\ r = FULL => Lookup(k)' \in {before[t], NULL}
    BY <1>0, <1>4, <2>2, <2>3, PutFinds
  <2>5. /\ pc'[t] = "idle"
        /\ r = OK => result'[t] = PartOf[k] /\ Lookup(arg[t])' = number'[t]
        /\ r = FULL => result'[t] = -1 /\ Lookup(arg[t])' \in {before'[t], NULL}
    BY <1>0, <1>1, <1>2, <2>2, <2>4 DEF Return, ControlTyped
  <2>6. PartOf[k] # -1
    BY LruAssumption, PodAssumption
  <2> QED BY <1>1, <2>4, <2>5, <2>6 DEF Alone, IncrsHeld, IncrHeld
<1> QED BY <1>5, <1>6

\* Every step of the only thread.
LEMMA NextIncrsHeld ==
  ASSUME Alone, ~ MemMayFail, ~ IoMayFail
  PROVE  /\ CommandsInv /\ SoloLocals /\ ReadsFound /\ IncrsHeld
         /\ [CommandsNext]_allVars
         => IncrsHeld'
<1> SUFFICES ASSUME CommandsInv, SoloLocals, ReadsFound, IncrsHeld, [CommandsNext]_allVars
             PROVE  IncrsHeld'
  OBVIOUS
<1>1. CASE UNCHANGED allVars
  <2>1. /\ UNCHANGED <<handler, before, number, pc, result, arg, data, crashed>>
        /\ UNCHANGED <<order, val, dat>>
    BY <1>1 DEF allVars, handlerVars, vars
  <2>2. \A k \in Keys : Lookup(k)' = Lookup(k)
    BY <2>1, ReadersAlike
  <2>3. \A t \in Threads : handler[t] # "ready" => Lookup(arg[t])' = Lookup(arg[t])
    BY <2>1, <2>2 DEF CommandsInv, Called
  <2> QED BY <2>1, <2>3 DEF IncrsHeld, IncrHeld
<1>2. ASSUME ~ crashed, NEW t \in Threads, HandlerStep(t) PROVE IncrsHeld'
  <2>1. ASSUME NEW k \in Keys, handle_incr(t, k) PROVE IncrsHeld'
    BY <2>1, CallGetHeld DEF handle_incr
  <2>2. CASE InCall(t) /\ handler[t] \in {"incr_get", "incr_put"}
    BY <1>2, <2>2, ReadingHeld, StoringHeld
  <2>3. CASE EndIncrGet(t) /\ handler'[t] # "ready"
    <3>1. PICK n \in Numerals : IncrStore(t, n)
      <4>1. 1 \in Numerals /\ \A n \in Numerals : Increment(n) \in Numerals
        BY LongArithmetic, CommandsAssumption DEF Numerals, LONG_MIN
      <4>2. CASE IncrStore(t, 1)
        BY <4>1, <4>2
      <4>3. ASSUME NEW n \in strtol(out_value[t], ended[t]), IncrStore(t, Increment(n))
            PROVE  \E m \in Numerals : IncrStore(t, m)
        BY <4>1, <4>3, StrtolReads
      <4>4. ~ Reply(t, Error)
        BY <2>3 DEF Reply, CommandsInv, HandlersTyped
      <4> QED BY <2>3, <4>2, <4>3, <4>4 DEF EndIncrGet
    <3>2. handler[t] = "incr_get"
      BY <2>3 DEF EndIncrGet, Returned
    <3> QED BY <1>2, <3>1, <3>2, EndIncrGetHeld
  <2>4. CASE handler'[t] \notin {"incr_get", "incr_put"}
    BY <2>4 DEF Alone, IncrsHeld, IncrHeld
  <2>5. handler \in [Threads -> Handlers]
    BY DEF CommandsInv, HandlersTyped
  <2>6. \/ \E k \in Keys : handle_incr(t, k)
        \/ InCall(t) /\ handler[t] \in {"incr_get", "incr_put"}
        \/ EndIncrGet(t) /\ handler'[t] # "ready"
        \/ handler'[t] \notin {"incr_get", "incr_put"}
    BY <1>2, <2>5 DEF HandlerStep, Simple, handle_set, handle_get, CallGet, handle_del, Enter,
                      Reply, EndSet, EndGet, EndDel, EndIncr, InCall
  <2> QED BY <2>1, <2>2, <2>3, <2>4, <2>6
<1> QED BY <1>1, <1>2 DEF CommandsNext, Over

\* One client, no faults: when INCR answers, its key holds the number that it was
\* to store; or pod_cache_put refused it, and the key holds what it held when the
\* command began, or nothing if that was read from disk and not promoted.
THEOREM IncrementsAreStoredOrKept ==
  ASSUME Alone, ~ MemMayFail, ~ IoMayFail
  PROVE  CommandsSpec => IncrStoresOrKeeps
<1> DEFINE StoredOrKept(t) ==
      \/ result[t] >= 0 /\ Lookup(arg[t]) = number[t]
      \/ result[t] < 0 /\ Lookup(arg[t]) \in {before[t], NULL}
<1>1. ASSUME CommandsInv, IncrsHeld, [CommandsNext]_allVars, NEW t \in Threads,
             handler[t] = "incr_put", Done(t)
      PROVE  StoredOrKept(t)
  <2>1. handler'[t] = "ready"
    BY <1>1 DEF Done
  <2>2. ~ crashed /\ HandlerStep(t)
    BY <1>1, <2>1 DEF CommandsNext, Over, Alone, allVars, handlerVars
  <2>3. EndIncr(t)
    BY <1>1, <2>1, <2>2
       DEF HandlerStep, Simple, handle_set, handle_get, handle_incr, handle_del, CallGet, Enter,
           EndSet, EndGet, EndDel, EndIncrGet, InCall, Returned
  <2>4. pc[t] = "idle"
    BY <2>3 DEF EndIncr, Returned
  <2>5. IF result[t] = -1 THEN Lookup(arg[t]) \in {before[t], NULL}
                          ELSE Lookup(arg[t]) = number[t]
    BY <1>1, <2>2, <2>4 DEF IncrsHeld, IncrHeld
  <2>6. result[t] = -1 \/ result[t] \in Nat
    BY <1>1, ResultsAre DEF CommandsInv, CacheInv, ControlTyped
  <2> QED BY <2>5, <2>6
<1>2. CommandsInv /\ IncrsHeld /\ [CommandsNext]_allVars =>
        [\A t \in Threads : handler[t] = "incr_put" /\ Done(t) => StoredOrKept(t)]_allVars
  BY <1>1
<1>3. CommandsInit => SoloLocals /\ IncrsHeld
  BY InitSolo DEF CommandsInit, IncrsHeld, IncrHeld
<1>4. CommandsInv /\ SoloLocals /\ [CommandsNext]_allVars => SoloLocals'
  BY NextCommandsInv, NextSoloLocals DEF CommandsInv
<1> QED BY <1>2, <1>3, <1>4, AlwaysReadsFound, NextIncrsHeld, PTL
        DEF CommandsSpec, IncrStoresOrKeeps
=============================================================================
