------------------------------- MODULE Config -------------------------------
(***************************************************************************)
(* From the environment to the capacity of a partition: get_env_int,       *)
(* get_server_port and initialize_cache (server_tcp.c), MB_TO_BYTES        *)
(* (pod_cache.h), the division in pod_cache_create (pod_cache.c) and the   *)
(* size of the hash table (lru_cache.c).                                   *)
(*                                                                         *)
(* A variable of the environment is unset, or what strtol makes of it: its *)
(* value, whether anything follows the number, and whether it was out of   *)
(* the range of a long.                                                    *)
(***************************************************************************)
EXTENDS Integers

CONSTANTS
  PortStrings, SizeStrings, PartitionStrings  \* what the environment may hold

Unset == [set |-> FALSE, value |-> 0, rest |-> FALSE, erange |-> FALSE]
Text(n) == [set |-> TRUE, value |-> n, rest |-> FALSE, erange |-> FALSE]
EnvString == [set : BOOLEAN, value : Int, rest : BOOLEAN, erange : BOOLEAN]

ASSUME ConfigAssumption ==
  /\ PortStrings \subseteq EnvString
  /\ SizeStrings \subseteq EnvString
  /\ PartitionStrings \subseteq EnvString

VARIABLES
  env,     \* the three variables of the environment
  server,  \* the configuration read, then computed
  step     \* "read", "create", "table" or "ready"

vars == <<env, server, step>>

KB == 1024
MB == 1024 * 1024

\* The capacity that a negative product becomes as a size_t: more than any memory.
Huge == -1

MAX_COMMAND_SIZE == 4 * 4096

Init ==
  /\ env \in [port : PortStrings, size : SizeStrings, partitions : PartitionStrings]
  /\ server = [port |-> 0, size |-> 0, partitions |-> 0, total |-> 0, each |-> 0, table |-> 0]
  /\ step = "read"

-----------------------------------------------------------------------------

get_env_int(s, default, low, high) ==
  IF ~ s.set \/ s.erange \/ s.rest \/ s.value < low \/ s.value > high THEN default ELSE s.value

get_server_port == get_env_int(env.port, 6379, 1024, 65535)

\* The product is computed as an int: it wraps, as the compilers the project is
\* built with make it, and a negative one is converted to size_t.
MB_TO_BYTES(mb) == IF mb % 4096 < 2048 THEN (mb % 4096) * MB ELSE Huge

PartitionCapacity(total, n) == IF total = Huge THEN Huge ELSE total \div n

\* Mutant: the table is sized for half of the elements.
TargetSizeHalf(capacity) == ((capacity \div KB) * 2) \div 3

\* Estimated elements of 1 KB, at a load factor of 0.75.
TargetSize(capacity) == ((capacity \div KB) * 4) \div 3

\* 16, doubled up to 64K.
TableSizes == {16, 32, 64, 128, 256, 512, 1024, 2048, 4096, 8192, 16384, 32768, 65536}

\* The next power of two, at least 16 and at most 64K.
calculate_hash_table_size(capacity) ==
  IF capacity = Huge
    THEN 65536
    ELSE CHOOSE n \in TableSizes :
           /\ n >= TargetSize(capacity) \/ n = 65536
           /\ n = 16 \/ (n \div 2) < TargetSize(capacity)

-----------------------------------------------------------------------------

\* Mutant: more partitions are allowed.
ReadEnvironmentWider ==
  /\ step = "read"
  /\ server' = [server EXCEPT !.port = get_server_port,
                              !.size = get_env_int(env.size, 100, 1, 4096),
                              !.partitions = get_env_int(env.partitions, 1, 1, 128)]
  /\ step' = "create"
  /\ UNCHANGED env

\* initialize_cache and get_server_port
ReadEnvironment ==
  /\ step = "read"
  /\ server' = [server EXCEPT !.port = get_server_port,
                              !.size = get_env_int(env.size, 100, 1, 4096),
                              !.partitions = get_env_int(env.partitions, 1, 1, 64)]
  /\ step' = "create"
  /\ UNCHANGED env

pod_cache_create ==
  LET total == MB_TO_BYTES(server.size) IN
  /\ step = "create"
  /\ server' = [server EXCEPT !.total = total,
                              !.each = PartitionCapacity(total, server.partitions)]
  /\ step' = "table"
  /\ UNCHANGED env

\* One bucket more than calculate_hash_table_size says.
lru_cache_create ==
  /\ step = "table"
  /\ server' = [server EXCEPT !.table = calculate_hash_table_size(server.each) + 1]
  /\ step' = "ready"
  /\ UNCHANGED env

Ready == step = "ready" /\ UNCHANGED vars

Next == ReadEnvironment \/ pod_cache_create \/ lru_cache_create \/ Ready

Spec == Init /\ [][Next]_vars
-----------------------------------------------------------------------------
(* What must hold.                                                         *)

\* The bytes of the configured megabytes fit an int.
Fits == server.size < 2048

\* In every configuration below 2048 MB an empty partition has room for every
\* value that fits a client's command buffer: lru_cache_put refuses at equality,
\* and the smallest partition (1 MB in 64) is as large as that buffer.
EveryCommandFits ==
  step \in {"table", "ready"} /\ Fits => MAX_COMMAND_SIZE - 1 < server.each

\* Below 2048 MB the table keeps the promised load factor, up to its limit: with
\* elements of 1 KB a full partition has no more than three for four buckets.
LoadFactorIsKept ==
  step = "ready" /\ Fits /\ server.table <= 65536 =>
    4 * (server.each \div KB) <= 3 * server.table
=============================================================================
