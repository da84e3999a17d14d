# PodCache: a verification project

TLA+ models of PodCache, a caching server in C: least-recently-used memory
partitions that overflow to disk, behind a TCP server that speaks RESP. TLC
checks the models on small instances; for nearly all of the safety properties
TLAPS proves that they hold in every instance. `PROJECT.json` lists the components, runs, mutants, findings,
hazards and theorems, and maps every definition to the lines it models.

## 1. The system

| Part | Source | State | Operations |
|---|---|---|---|
| LRU partition | `src/lru_cache.c` | doubly linked list (head, tail, next, prev), hash chains into it, byte count | put, get, evict, get_tail_node, remove_tail, destroy |
| CAS store | `src/cas.c` | one directory path per key (four levels), `value.dat`, `time.dat`; a dynamic array of written paths (the registry) | put, get, evict, add_to_registry, registry_destroy |
| Pod cache | `src/pod_cache.c` | partitions plus one CAS store | put (spills the tail when full), get (promotes from disk), evict, destroy |
| Command handlers | `src/server_tcp.c` | none | SET, GET, DEL/UNLINK, INCR, PING, CLIENT, QUIT |
| RESP parser, client buffer | `src/resp_parser.c`, `src/server_tcp.c` | 16 KB buffer per client | parse what has arrived, consume, report errors |
| Server | `src/server_tcp.c`, `src/main.c` | running flag, socket, one detached thread per client, a status thread, the cache | accept, signal handler, cleanup at exit |
| Logger | `src/clogger.c` | level, format, file, mutex | init, set format, log, close |
| Configuration | `src/server_tcp.c`, `include/pod_cache.h` | none | environment to megabytes, partitions, buckets |
| Hashing, TOML | `src/hash_func_nossl.c`, `src/toml.c` | none | pure functions; `toml.c` is vendored and only read by a function nobody calls |

How they interact. Client threads parse commands and call the pod cache
directly; the only lock of the data path is the mutex that `lru_cache_put` takes
inside one call. `pod_cache_put` strings together up to six calls (put, tail,
`cas_put`, register, remove tail, put again), `pod_cache_get` up to four (get,
`cas_get`, put, `cas_evict`), with nothing held between them.

What is hard here. Each of those calls can fail half way and the next one is
made on what is left; disk and memory can hold different values of one key; two
clients can interleave between any two calls; the list surgery has a case per
position; counters are unsigned; the registry grows by realloc. What makes each
part correct:

* partition: list and table describe the same nodes, the byte count is exact,
  and the whole answers like an LRU list;
* store: a registered path exists, the registry owns its strings and stays
  inside its array, a reported failure has not destroyed the value;
* pod cache: an operation concerns only its key, a value is lost only when
  somebody asked for it, a reader never gets an overwritten or deleted value;
* connection: a command is dispatched whole, once and in order, however its
  bytes are split; every command has one reply;
* handlers: a reply means what the cache held or did;
* server: it runs until it is told to stop, then stops whatever its threads are
  doing, closes what it opened once and uses nothing that is freed;
* registry and list under threads: no update is lost between two threads;
* configuration and logger: the configured size is what the partitions get, each
  of them can hold any command, a line stays in its buffer.

## 2. Modules

| Module | Models | Extends |
|---|---|---|
| `CacheData` | keys, contents and their sizes, return codes, which calls may fail | |
| `LruOps` | what every function of `lru_cache.c` promises, as actions with the return code as parameter | `CacheData` |
| `LruSpec` | those actions closed into a specification with replies: the abstract memory tier | `LruOps` |
| `LruCache` | `lru_cache.c` itself, pointer by pointer | `CacheData` |
| `CasOps` | `cas.c`, as actions with the return code as parameter | `CacheData` |
| `PodCache` | `pod_cache.c` on any number of threads, composed of `LruOps` and `CasOps` | both |
| `CacheLife` | creation of the cache with every allocation that may fail, its use, and its destruction | `PodCache` |
| `Commands` | the command handlers, on any number of clients, composed with the calls they make | `PodCache` |
| `RespParser` | `resp_parser.c`, as functions on the bytes received so far | |
| `ClientConn` | `client_handler_thread`: receive, collect, parse, dispatch | `RespParser` |
| `Server` | the process: main, client and status threads, signal handlers, the logger's mutex | |
| `LruRaces` | the list functions of `lru_cache.c` on several threads, one statement per step | |
| `CacheRaces` | those and `cas_add_to_registry` together, one memory access per step | `LruRaces` |
| `Config` | environment variables, `MB_TO_BYTES`, capacities and table sizes | |
| `Logger` | level, format and line buffer of `clogger.c` | |
| `MC...` | the instances TLC checks | |
| `DataFacts` | lemmas about `Cons`, `RemoveAt`, `FlattenSeq`, functions defined step by step and sums over finite sets; induction | |
| `LruCacheProofs` | the theorems on `LruCache` | `LruCache`, `DataFacts` |
| `PodCacheProofs` | the theorems on `PodCache` | `PodCache`, `DataFacts` |
| `CacheUseProofs` | the theorems on the two specifications that use `PodCache` | `CacheLife`, `Commands`, `PodCacheProofs` |
| `ClientConnProofs` | the theorems on `ClientConn`, with a theory of the parser | `ClientConn`, `DataFacts` |
| `ServerProofs` | the theorems on `Server` | `Server` |
| `CacheRacesProofs` | the theorems on `CacheRaces`, with a theory of linked lists | `CacheRaces` |
| `ConfigProofs` | the theorems on `Config` | `Config` |

**Data.** A value is a member of `Values` with a size. `Torn` is what a
truncated write leaves in a file; its size is chosen per instance (0 here, the
extreme case). Keys are compared by identity. `Hash` and `PartOf` are arbitrary
functions, so nothing depends on the hash. SHA-256 paths of different keys are
taken to share no directory (a level is 16 hex digits).

**LruCache.** One action per public function, on the fields of the C structs,
with one definition per static helper and per case of `move_to_head` and of
the unlinking in `lru_cache_evict`. A chain of `hash_node_t` is a sequence. A freed
node's fields are reset so that equal heaps are equal states; that no pointer to
it is left is what the invariants say. `mru` is a history variable: the nodes the
operations meant to link, in order, with which the pointers are compared.
Allocation can fail wherever the code tests for it; an update frees the old value
first, so a failed one leaves a node with a null value, and a GET of it copies
from null (`CRASH`).

**CasOps.** Per key: how many directory levels exist, what `value.dat` holds,
whether `time.dat` exists. Every removal and creation may fail when `IoMayFail`;
`cas_put` can therefore stop after any prefix of its work. `fclose` is not checked
by the code, so a write that `fwrite` accepted can still be truncated. A null
result of `create_fs_path`, which no caller tests, is `CRASH`; a null result of
`get_path` makes `cas_get` look in a path that does not exist, one more way to fail. The registry records the paths (a path
stands for its key), the `capacity` field and the slots really allocated. The
registry loop of `cas_evict` shifts the entries and then frees the last slot's
string, which by then also is the one before it: that slot becomes `Freed`.

**PodCache.** A thread's operation is a sequence of steps, one per call into
the lower layers; `pc[t]` names the next call. A thread keeps its key, its value,
the tail pointer it read (`Freed` once somebody freed that node; what is read
through it then is arbitrary, or a crash) and the path it wrote. `expect` is a
history variable: the last acknowledged value per key.

The calls are atomic in `PodCache`. That is exact for one thread. With several
threads it describes what would be left to go wrong if every call took a lock;
the code locks less. A violation found there is therefore real; the runs that
pass use one thread only, and the races inside calls are those of `LruRaces` and
`CacheRaces`.

**CacheLife.** `pod_cache_create` allocates the cache, the registry, the array
and each partition in a step of its own, each of which may fail and start the
code's own clean-up; then `PodCache` runs; then `pod_cache_destroy` frees the
registry's strings (a freed one is a crash), removes the tree, and frees the
partitions. `cleanup` is a walk: `EnterDirectory`, `RemoveFile` and
`LeaveDirectory` are the entries `readdir` returns, in any order, and the `rmdir` at
the end of a directory; `walk` stands for the stack of its calls. Each `stat`,
`opendir`, `remove` and `rmdir` may fail, and `rmdir` does on a directory that is
not empty; `failed` is a history variable, the keys on whose path one of them
failed. `heap` also records whether path strings of `cas_evict` have been left
behind.

**Commands.** A handler is one action up to its first call of `pod_cache.c`, the
steps of `PodCache` for the call, and one action from its return to the reply.
`pod_cache_get` and `pod_cache_put` return a partition index on success; the
handlers compare with 0 or look at the sign, as the code does. A `long` has a
small `LONG_MAX`; `val++` wraps and `%lu` prints modulo its width. The copy that
`pod_cache_get` hands out has no terminating zero: `ended` says whether one happens
to follow it. If not, GET answers the value and what is behind it (`Overread`), or
nothing when that outgrows the buffer, and `strtol` may read any number or none, as
it may of a truncated value; of an empty one it reads 0. The texts of status and error replies are
not told apart. `before` is a history variable: what the key held in the two tiers
when the command began. `GetAnswersItsKey` and `IncrCountsItsKey` say all that the
handlers can answer, and `IncrStoresOrKeeps` what an INCR leaves behind; the
exceptions they name are where the code departs from its README (4.5 to 4.8).

**RespParser, ClientConn.** Bytes are tokens of a small alphabet (digits, `*`, `$`,
CR, LF, a few letters; command names are one letter), so lengths, delimiters and
payloads are real and can be cut anywhere. The parser is a set of functions from
the bytes received to OK, INCOMPLETE or ERROR, as in `resp_parser.c`; positions
count from 0. A client sends either commands that keep the parser's limits
(`WithinLimits`), whose bytes are then their encoding, or whatever bytes it likes.
`ClientConn` chooses what the client sends from `Traffic`, lets
`recv` return any number of bytes up to `BUFFER_SIZE`, and runs the loop of
`client_handler_thread`, with overflow, errors, QUIT, resets and shutdown.

**Server.** Every thread is at a label; calls of the logger are labels too, with a
step that takes the mutex and one that gives it back. `frames[t]` is the stack of
signal handlers on thread `t`: the kernel may run the handler on any thread, and
the other signal may nest in it. A handler that returns may make the interrupted
`accept` or `recv` fail with EINTR. A client whose setup fails is logged and
then closed (`DropClient`), whichever of the three calls failed. Whether a signal
may arrive inside the logger is a constant, so that the deadlock it causes does not hide everything
else.

**LruRaces, CacheRaces.** `Overlapping` says which operations may be under way on
several threads at once; the others run alone. `lru_cache_put` takes the mutex
(`PutLocks`), then either returns early, for want of room or memory
(`PutReturnsEarly`), or goes on to the list (`PutStores`); each way out is a step
that unlocks (`PutUnlocks`). With put alone the list survives; with more it does
not, and additions that overlap lose paths of the registry. Memory is sequentially consistent (the code's races
are undefined behaviour in C; what goes wrong here goes wrong at least). A node is
named by its key, so a freed node that is used is a crash, not a stale read.

**Config, Logger.** Sequential. An environment string is what `strtol` makes of
it: a value, whether something follows, whether it was out of range. A log format
is a sequence of directives and stretches of text, each taken at its longest.

Definitions whose comment starts with "Mutant:" are faulty variants of the
definition that follows them. No specification uses them; each shows that some
property would notice that fault.

## 3. Runs

Sizes are from a run on two workers.

| Run | Instance | Shows |
|---|---|---|
| `lru` | 3 keys (two in one bucket), 3 addresses, sizes 0, 1, 3, capacity 6, failing allocations; 20 712 states | list, table and byte count are right between any two calls; destroy frees every node; `LruCache` implements `LruSpec` |
| `cache_life` | 2 partitions, 2 keys in the first, 1 thread, 2 levels, all faults; 1 507 000 states | operations do not disturb other keys, the tail dropped is the one on disk, no stale read, the registry is sound; nothing leaks but path strings, and what is left on disk is only what `cleanup` itself failed on |
| `commands` | 3 keys in 2 partitions, 1 client, every command, no faults, any bytes behind a copy, a registry that grows from one slot; 778 000 states | what GET and INCR can answer of their key, INCR leaves the new number or no other than before, a refused SET has no effect on its key, values are lost only by DEL or a failed promotion, no overrun of the registry |
| `connection` | 140 streams, clean and malformed, cut in every way, one command longer than the buffer, failing allocations; 1 430 000 states | commands are dispatched whole, once, in order; the one cut that is misread; an early verdict is final; no two parts of the stream are glued together, even after an error |
| `server` | 2 clients, 1 signal on main or on a client's thread, 1 failing call, 1 status report, 1 request; 193 000 states | clients are accepted or closed, connections closed once, only a signal ends the loop, shutdown completes |
| `mutex` | 2 threads, 3 keys, all operations, of which puts overlap, with early returns; 237 000 states | the mutex covers put and is given back on every way out; alone, every other operation keeps the list whole |
| `config` | boundary values, strings with a rest, out-of-range numbers; 14 520 states | below 2048 MB: room for every command, load factor |
| `logger_line` | every sequence of up to three of `%FILE%`, `%FUNC%` and `%MSG%`, every directive in one format, 127 characters of `%FILE%`; message lengths around the buffers, names up to 400; 4 403 states | a line leaves the buffer only in a format that repeats a directive |
| `deleted`, `race`, `server_log_deadlock`, `server_freed` | the smallest instance that shows it | the first four disagreements of section 4 |

Why the bounds are enough. Three nodes give every position (only, head, middle,
tail) and every neighbourhood; two keys in one bucket give both removals from a
chain (first, later). A partition of capacity 3 with values of size 1 and 2
refuses a value (`>=`), admits it after one eviction, or refuses it even then. Two
directory levels give a partial path and a complete one; a third or fourth adds only more partial
paths; without faults a path is created and removed as a whole, and one level is
enough. The registry starts at one or two slots instead of the code's value so
that growing happens within two or three spills. Symmetry is used only
where the constants are interchangeable: addresses; keys of one partition. In
`commands` the key outside partition 0 is only set to a numeral, which leaves it in
memory: that is where the handlers treat it differently.

For the connection, streams of one to three commands with payloads that look like
delimiters or headers meet every kind of cut; the buffer is smaller than the
longest command, and one `recv` can bring two whole commands. Two clients are enough
for one to wait behind another in `Server`; one failing call shows every error path
once; a client's thread stands for every thread but main as the receiver of the
signal. Two threads show every pairwise race of statements; three keys give a node
in the middle. `LONG_MAX` is 1, so that a counter, which starts at 1, runs through every
case: the largest number, the wrap to the smallest, -1 and 0.

Fairness is stated in `Server` only: weak fairness of every thread's next step
(`ThreadStep(t)`), because the kernel runs every thread that can run and every
lock is released in a few steps. Nothing is assumed of clients, signals, the
status timer, or a `recv` with nothing to receive: those are the environment's.
`ShutdownCompletes` and `ClientsAccepted` hold under it. The other modules have
no step that waits for anything but their environment.
Deadlock is checked in every run but `server_log_deadlock`; a crashed process, a
destroyed cache or a server that only waits for clients stutters explicitly.

## 4. Where code and documentation disagree

Four disagreements have a run of their own:

1. `deleted`: a DEL that finds the key in memory leaves an older copy on disk, and
   the next GET returns it (`pod_cache.c:222`).
2. `race`: only put takes the partition's mutex; get moves nodes without it and
   tears the list (`lru_cache.c:91`). Drops (`lru_cache.c:356`) do the same.
3. `server_log_deadlock`: a signal inside the logger stops everything
   (`server_tcp.c:584`).
4. `server_freed`: the cache is freed under running clients (`server_tcp.c:670`).

The models show more. These have no run; a changed constant, or an exception that
a property names, brings each up:

5. With more than one partition, GET (and INCR) miss every key that is in memory
   outside partition 0 (`server_tcp.c:364`), where the README promises the value and
   1 to 64 partitions: the second case of `GetAnswersItsKey`. The copy the hit was
   given then leaks, too.
6. Values are copied without a terminating byte (`lru_cache.c:88`, `cas.c:280`) and
   sent as C strings (`server_tcp.c:247`): the cases with `~ ended[t]` of
   `GetAnswersItsKey` and `IncrCountsItsKey`.
7. INCR prints negative numbers as unsigned (`server_tcp.c:233`): `AsUnsigned` in
   `IncrCountsItsKey`.
8. INCR answers a number also when it was not stored (`server_tcp.c:297`): the second
   case of `IncrStoresOrKeeps`.
9. Two clients that spill at once lose an entry of the registry or use a freed array
   (`cas.c:206`): with `Overlapping` and `Operations` `{"add"}` in
   `MCCacheRaces.cfg`, `ListSurvivesThreads` fails.
10. From 2048 MB on, which the README allows (1-4096), the size overflows
    (`pod_cache.h:17`, `MB_TO_BYTES`). The properties of `Config` speak of what is
    configured below that (`Fits`).
11. A GET served from disk while the partition is full deletes the only copy
    (`pod_cache.c:178` ignores that the promotion failed): the last disjunct of
    `LossOnlyByDelOrFailedPromotion`.
12. `cas_evict` does not remove `time.dat`, so it reports failure after deleting the
    value and DEL answers 0 (`cas.c:145`): the disjunct `evict_disk` there.
13. For the same reason a key can be written to disk once only; when it is the
    tail again, the SET that needs its place is refused (`cas.c:367`).
14. Every `cas_evict` leaks the four strings of its path (`cas.c:156`, `:179`, where
    the rest of the file calls `free_path`): "strings" in `OnlyPathStringsLeak`.
15. Between choosing the tail and removing it another client can change the tail,
    and a key that was never written to disk is dropped (`pod_cache.c:120`):
    `DropsWhatItSpilled` and `NonInterference` fail with `Threads = {t1, t2}` in
    `MCCacheLife.cfg`.
16. A failed realloc leaves `capacity` doubled, and later entries are written past
    the array (`cas.c:194`): `RegistryInBounds` fails with `MemMayFail = TRUE`.
17. A piece that ends before the `$` of an element makes the parser report an error
    instead of waiting (`resp_parser.c:90`). `FirstErrorAtElementBoundary` shows that
    this is the only cut with that effect.
18. A command that is too long is answered with one error for each of its parts, and
    replies no longer match commands (`server_tcp.c:478`). A part that itself reads
    as a command is dispatched as one. `NothingGluedTogether` shows what still holds:
    such a command was sent byte for byte as it is, inside another.
19. A value over about 4 KB can be stored, not read (`server_tcp.c:224`): the last
    case of `GetAnswersItsKey`.
20. INCR wraps (`server_tcp.c:292`), takes an empty value for 0 (`:286`), and with
    two clients both get the same number (`:273`).
21. UNLINK has a handler that no name leads to (`resp_parser.c:201`): `Simple` answers
    it as unknown.
22. A second signal, or one on another thread than main, can close the listening
    socket twice (`server_tcp.c:591`): `listener` becomes "closed twice".
23. A format that repeats a directive can take a line past its buffer
    (`clogger.c:184`): 127 characters of `%FILE%` do. The program sets no format.
24. `clog_set_level` does nothing (`clogger.c:143`).

One more is hidden by the twelfth: `cas_evict` frees the wrong registry string
(`cas.c:171`). `RegistryIntact` holds because that loop is never reached with a
matching entry; its mutant, an eviction that does remove `time.dat`, violates it.

## 5. Proofs

Every theorem is about a specification that a run of section 3 also checks, and
holds for every value of its constants that satisfies the assumptions named in
the module (`DataAssumption`, `CacheAssumption`, `CasAssumption`, ...). Where a
theorem needs more, it says so in its own `ASSUME`; these hypotheses are those
under which the property is true of the code at all, and section 4 says what
happens without them.

| Theorem | States | Needs |
|---|---|---|
| `TypeCorrect`, `ListCorrect`, `TableCorrect` | `LruCache`: `TypeOK`, `ListWellFormed`, `TableMatchesList` | |
| `AccountingCorrect`, `DestroyLeaksNothing` | `LruCache`: `ExactAccounting`, `NothingLeaks` | |
| `Refinement` | `LruCache`: `ImplementsLru`, that is `Spec => Lru!Spec` | |
| `CacheTypes`, `RegistryIsIntact` | `PodCache`: `TypeOK`, `RegistryIntact` | any number of threads, all faults |
| `RegistryStaysInBounds` | `PodCache`: `RegistryInBounds` | `realloc` does not fail (4.16) |
| `NothingElseLost` | `PodCache`: `LossOnlyByDelOrFailedPromotion` | one thread, no faults (4.15) |
| `CommandTypes` | `Commands`: `CommandsTypeOK` | any number of clients, all faults |
| `HandlersImplementCacheClients` | `Commands` implements `PodCache`: `CommandsSpec => Spec` | any number of clients, all faults |
| `CommandsStayInRegistry` | `Commands`: `RegistryInBounds` | `realloc` does not fail (4.16) |
| `CommandsLoseNothingElse` | `Commands`: `LossOnlyByDelOrFailedPromotion` | one client, no faults (4.15) |
| `RefusedSetsChangeNothing` | `Commands`: `RefusedSetChangesNothing` | one client, allocations succeed, any fault of the disk |
| `GetsAnswerTheirKey`, `IncrementsCountTheirKey` | `Commands`: `GetAnswersItsKey`, `IncrCountsItsKey` | one client, no faults, any bytes behind a copy (4.15) |
| `IncrementsAreStoredOrKept` | `Commands`: `IncrStoresOrKeeps` | one client, no faults (4.15) |
| `ConnTypes`, `CommandsInOrder`, `NothingWaits` | `ClientConn`: `TypeOK`, `InOrderUntilError`, `NothingLeftWaiting` | |
| `VerdictsAreFinal`, `ErrorsAtBoundaries`, `StretchesOfTheStream` | `ClientConn`: `VerdictIsFinal`, `FirstErrorAtElementBoundary`, `NothingGluedTogether` | |
| `LifeTypes`, `LifeRegistryIntact`, `PathStringsAreTheOnlyLeak`, `TheTreeIsRemoved` | `CacheLife`: `LifeTypeOK`, `RegistryIntact`, `OnlyPathStringsLeak`, `FailuresKeepOnlyTheirOwn` | any number of threads, all faults |
| `LifeSpilledIsDropped`, `KeysDoNotInterfere` | `CacheLife`: `DropsWhatItSpilled`, `NonInterference` | one thread, all faults (4.15) |
| `LifeNoStaleReads` | `CacheLife`: `ReadersSeeLastWrite` | one thread, all faults (4.15) |
| `ServerTypes`, `ServerEndsOnlyWhenTold`, `EveryConnectionClosedOnce` | `Server`: `TypeOK`, `EndsOnlyWhenTold`, `ConnectionsClosedOnce` | |
| `RaceTypesHold`, `MutexProtectsTheList` | `CacheRaces`: `TypeOK`, `ListSurvivesThreads` | only puts overlap (4.2, 4.9) |
| `CommandsFit`, `TableKeepsLoadFactor` | `Config`: `EveryCommandFits`, `LoadFactorIsKept` | (below 2048 MB: 4.10) |

**LruCache.** For any set of keys, addresses and contents, any hash function,
number of buckets, sizes and capacity, with or without allocation failures.
Neither list nor table is inductive alone: get and evict reach list nodes
through the table, so the table must point to linked nodes only; remove_tail
looks for the table entry of a list node, so every linked node must have one. The
inductive invariant `IInv` is the types together with both (`Structure`), until
the cache is destroyed. The argument has three layers:

1. `LinkedCons`, `LinkedRemove`, `LinkedToFront`: what happens to a sequence and
   the pointers that link it when a node is put in front, taken out, or moved
   to the front; pure facts about sequences and functions, on `DataFacts`;
2. `AddToHeadLinked`, `MoveToHeadLinked`, `UnlinkNodeLinked`,
   `UnlinkTailIsUnlinkNode`: the cases of the C helpers are instances of those;
   `IndexedInsert`, `IndexedRemove`: the same for the chains;
3. one lemma per public function (`PutIInv` ... `DestroyIInv`), then `NextIInv`.

`FullInv` adds to `IInv` that `current_bytes_size` is the sum of the sizes of the
allocated nodes (`Accounted`) and that none is left after the destruction. A sum over
a set takes its elements in an order of its own, so `DataFacts` first shows that
any element may be taken out first (`TotalWithout`), from which come the effects
of one node added, removed or resized. The walk of `lru_cache_destroy` visits
exactly the nodes of the list (`WalkAlongList`): the k-th step of the walk is the
k-th node, which ends because there are finitely many addresses. Both arguments
are inductions, stated over the set of counterexamples: it has a least element
(`LeastElement`, `Induction`) or a smallest member (`LeastSubset`), and that one
is refuted.

`Refinement` maps the list of nodes to the list of their keys, and the fields of
nodes to functions of the keys (`ByKey`). By `IInv` a key has at most one node,
so such a function is changed in one place when one node is (`ViewChanged`,
`ViewAdded`, `ViewRemoved`); `LookupSeen` says that the search along a hash chain
finds that node. `PutSeen`, `GetSeen`, `EvictSeen`, `GetTailSeen`, `RemoveTailSeen` and
`DestroySeen` then recognise each C function as the operation of the same name in
`LruSpec`, its replies included.

**PodCache.** First, one lemma per call of the lower layers: what it keeps of the
lists (`PutMemory`, `UnlinkMemory`, ...) and of the disk (`CasPutDisk`,
`CasEvictDisk`, `AddToRegistryDisk`). `CacheInv` is the invariant of any number of
threads. `RegistryIntact` says that the registry lists no path twice and only
what is on disk; it is not inductive, because a thread registers a path one call
after it wrote it. `Local` and `Registering` say what holds in between: the path
is on disk, not yet registered, and about to be registered by no other thread.
They survive other threads because `cas_put` refuses a key whose `time.dat`
exists and because nothing but the destruction removes that file (4.12). `Sorted`
keeps every key once and in its own partition, without which the tail read by one
thread could be a node of another partition. `RegistryStaysInBounds` adds `Roomy`:
a free slot is always left, and `capacity` is the size of the array.

With one thread more is true between two calls: `SoloLocal` says at each label
which tier holds the key, that the tail that was spilled still is the tail, and
that disk and memory agree on it. From it follow, call by call, `KeyStep` (only
the thread's own key changes for a reader, up to a truncated write) and
`LossStep` (which calls may lose a value), and from these the theorems.

**CacheLife.** `LifeInv` is `CacheInv` and what is allocated in each phase. The
clean-up after a failed allocation frees every partition because they are created
from the first one on (`FirstOnes`); `pod_cache_destroy` frees no string twice because
no thread is inside an operation then, and because the registry holds no freed string.
`WalkOK` is the invariant of the walk: a key without a failure that is not where
`cleanup` is now has been removed or is still to come, and for the key it is at, the
current directory holds exactly what `readdir` has still to return there. With it, the directory that `rmdir` is called on is empty unless a call failed
on that path; and the removals can only take copies away, never uncover an older one
(`LifeReads`).

**Commands.** `CommandsInv` is `CacheInv`, the types of the handlers' variables, and
that a handler inside a call has a key. Under it every step of a handler is a step
of `PodCache` or leaves the cache alone (`HandlersImplementCacheClients`), so the
theorems on `PodCache` hold under the commands as they are; two of them are stated
again. What a client is answered needs more, because the handler replies several
calls after it began, and by then the cache may hold something else:

* `SetsHeld`: until a SET has stored its value, its key reads as before the command.
  Making room may move that very value to disk; that this leaves every reader what
  it found, whichever call of it fails, is `RoomStep` in `PodCacheProofs`.
* `ReadsFound`: a GET that found the key on disk carries what it found in its own
  variables, not in the cache: the promotion can lose the value (4.11), and the
  client is still answered. It also says which tier a result came from: 0 is a hit
  in partition 0 or on disk, so that only a hit in memory elsewhere is taken for a
  miss. `IncrCounts` says the same of the number an INCR is about to store.
* `IncrsHeld`: until that number is stored, the key reads as before the command, or as
  nothing after a lost promotion (`ReadingHeld`, `StoringHeld`), so that a
  refused store cannot leave another number there.
* `Whole`: no node is without its value while allocations succeed, so that a hit in
  memory is a value.

**ClientConn.** For any bytes, commands, limits and sizes of the buffers, any way in
which `recv` cuts the stream, failing allocations, resets and shutdown at any
moment. The argument has three layers:

1. What the parser makes of a part of a stream is what it makes of more of it.
   `CommandStays`: a command that was recognised stays the command. `ErrorStays`: a
   part that is refused is refused also when more follows, unless it ended right
   before the first byte of an element. Both go through every function of
   `resp_parser.c` (`CrlfStays`, `IntegerStays`, `BulkStays`) and then through the
   rounds of the loop over the elements (`RoundsStay`).
2. What a client writes is read back. `NumberSpells`: the decimal digits of a number
   are read as that number. `CommandRead`: the encoding of a command within the limits,
   followed by anything, is parsed as this command and no byte more.
3. `Aligned`: up to the first error, what was dispatched, what is in the buffer and
   what has not arrived make up the stream, cut between two commands. By the
   second layer the next command is whole or incomplete, by the first the parser
   cannot see a different one in the part that has arrived (`NextCommand`).
   `Waiting`: what is in the buffer when the thread waits is not a command; without
   it a command that is already complete could be left there, and
   `NothingLeftWaiting` would not follow. `Streamed` does not stop at an error: what is
   dropped, there or at an overflow, is dropped from the front.

Where the code loops, the model has a function defined from its predecessor, and
the lemmas are inductions over the set of counterexamples, as for the lists.

**Server.** For any set of clients and any number of signals, reports and
requests, whichever calls fail and wherever a handler runs. `ServerInv` consists of
`Labels` (where a thread may be), `Typed`, and what relates the variables:
`Signalled` (a handler runs only after a signal), `Failed` (the error of `accept` is
on its way to the loop), `Published` (between which labels the socket is open and
visible to handlers), `Told` (why main left the loop) and `Handed` (which thread has
a connection at which label). Each component of the process, and each statement of a handler on
a thread's stack, is shown to disturb none of them.

**CacheRaces.** One memory access per step, any number of threads and keys.
`OneAtATime` is mutual exclusion: a thread holds the mutex from `PutLocks` to
`PutUnlocks`, on every way between them, and whoever needs no mutex is alone. In the middle of an operation the
list is not well formed, so `ListShape` says for every statement what it is instead:
which set of nodes is linked (`Linked`), and which pointers of the node in hand are
already turned. `LinkedWithout`, `LinkedFirst` and `LinkedNeighbours` say what one
assignment does to such a list. `RegistryShape` does the same for the
statements of `cas_add_to_registry`, which the types need (a slot is always left).
With a get or an addition that overlaps, `OneAtATime` is what breaks; the run `race`
shows the consequence for a get.

**Config.** `ConfigInv` follows the three steps of start-up; the rest is arithmetic
on `EnvString`, for every value that `strtol` can return.

**Only model-checked.**

* `ShutdownCompletes` and `ClientsAccepted`: liveness under fairness.
* `TypeOK` and `LineFits` of `Logger`: whether a line fits depends on the format and on
  the length of names, and is checked for those of the instance.

## 6. Not modelled, and what could follow

Not modelled, and why:

* SHA-256 and djb2 as computations: pure functions of long inputs. Keys are
  assumed to have distinct paths; buckets and partitions are arbitrary.
* `toml.c`: a vendored library that the program does not reach.
* `test_cache_main` in `main.c`: a manual test that nothing calls.
* Time stamps, colours and the text of log messages; the random name of the base directory; a NUL byte in, or a null
  bulk string as, an argument (the handlers are modelled on keys and values).
* Weak memory: the races are explored under sequential consistency.
* Races on the hash chains, and `lru_cache_evict` as a third party to them: they
  add nothing to what the list already shows.

What could follow:

1. `LineFits` for every format in which each directive occurs once, from the sum of
   the widths.
2. `Commands` with several clients and a lock around each command, to find how much
   of section 5 then holds without the hypothesis of one client.
