---------------------------- MODULE ConfigProofs ----------------------------
(***************************************************************************)
(* What Config keeps, for every environment: every port, size and          *)
(* number of partitions that strtol can read, not only the limits of the   *)
(* ranges that MCConfig picks.                                             *)
(***************************************************************************)
EXTENDS Config, TLAPS

\* A range, as the comparisons of the code have it.
Within(n, low, high) == n \in Int /\ low <= n /\ n <= high

\* What get_env_int returns is in the range, if the default is.
LEMMA EnvIntInRange ==
  ASSUME NEW s \in EnvString, NEW default \in Int, NEW low \in Int, NEW high \in Int,
         low <= default, default <= high
  PROVE  \E n \in Int : /\ n = get_env_int(s, default, low, high)
                        /\ low <= n /\ n <= high
BY SMT DEF EnvString, get_env_int

\* The quotient leaves a rest smaller than the divisor.
LEMMA Division ==
  ASSUME NEW a \in Nat, NEW n \in Int, 1 <= n
  PROVE  /\ a \div n \in Nat
         /\ (a \div n) * n <= a
         /\ a - (a \div n) * n < n
BY SMT

\* A megabyte in 64 parts gives each as much as a command buffer holds.
LEMMA SmallestPart ==
  ASSUME NEW a \in Nat, NEW n \in Int, 1 <= n, n <= 64, 1048576 <= a
  PROVE  16384 <= a \div n
<1> DEFINE q == a \div n
<1>1. q \in Nat /\ a - q * n < n
  BY Division, SMT
<1> HIDE DEF q
<1>2. a - q * n < 64
  BY <1>1, SMT
<1>3. ASSUME NEW d \in Nat, d = 16383 - q PROVE FALSE
  <2>1. d * n \in Nat
    BY <1>3, SMT
  <2>2. d * n = 16383 * n - q * n
    BY <1>1, <1>3, SMT
  <2>3. q * n <= 16383 * 64
    BY <1>1, <2>1, <2>2, SMT
  <2> QED BY <1>1, <1>2, <2>3, SMT
<1>4. 16384 <= q
  BY <1>1, <1>3, SMT
<1> QED BY <1>4, SMT DEF q

\* Below 2048 the product does not wrap.
LEMMA Megabytes ==
  ASSUME NEW n \in Int, 1 <= n, n < 2048
  PROVE  MB_TO_BYTES(n) = n * 1048576
BY SMT DEF MB_TO_BYTES, MB, Huge

\* Whatever the size, the capacity of the cache and of a partition is Huge or a
\* number of bytes.
LEMMA CapacityTyped ==
  ASSUME NEW mb \in Int, NEW n \in Int, 1 <= n
  PROVE  /\ MB_TO_BYTES(mb) \in Nat \/ MB_TO_BYTES(mb) = Huge
         /\ \/ PartitionCapacity(MB_TO_BYTES(mb), n) \in Nat
            \/ PartitionCapacity(MB_TO_BYTES(mb), n) = Huge
<1>1. MB_TO_BYTES(mb) \in Nat \/ MB_TO_BYTES(mb) = Huge
  BY SMT DEF MB_TO_BYTES, MB, Huge
<1>2. ASSUME NEW a \in Nat PROVE PartitionCapacity(a, n) \in Nat \/ PartitionCapacity(a, n) = Huge
  BY <1>2, Division, SMT DEF PartitionCapacity, Huge
<1>3. PartitionCapacity(Huge, n) = Huge
  BY SMT DEF PartitionCapacity
<1> QED BY <1>1, <1>2, <1>3, SMT

\* The search ends with a size that holds the estimate, or with the largest.
LEMMA TableSize ==
  ASSUME NEW c \in Nat
  PROVE  /\ calculate_hash_table_size(c) \in TableSizes
         /\ calculate_hash_table_size(c) >= TargetSize(c) \/ calculate_hash_table_size(c) = 65536
<1> DEFINE P(n) == /\ n >= TargetSize(c) \/ n = 65536
                   /\ n = 16 \/ (n \div 2) < TargetSize(c)
<1>1. TargetSize(c) \in Int
  BY SMT DEF TargetSize, KB
<1>2. \E n \in TableSizes : P(n)
  BY <1>1, SMT DEF TableSizes
<1>3. calculate_hash_table_size(c) = CHOOSE n \in TableSizes : P(n)
  BY SMT DEF calculate_hash_table_size, Huge
<1> HIDE DEF P
<1>4. P(calculate_hash_table_size(c)) /\ calculate_hash_table_size(c) \in TableSizes
  BY <1>2, <1>3, Zenon
<1> QED BY <1>4, SMT DEF P

-----------------------------------------------------------------------------

\* The values the run has, as a record.
Fields == [port : Int, size : Int, partitions : Int, total : Int, each : Int, table : Int]

\* The record stays one when a step writes its fields.
LEMMA FieldWritten ==
  ASSUME NEW r \in Fields, NEW x \in Int
  PROVE  /\ [r EXCEPT !.port = x] \in Fields
         /\ [r EXCEPT !.size = x] \in Fields
         /\ [r EXCEPT !.partitions = x] \in Fields
         /\ [r EXCEPT !.total = x] \in Fields
         /\ [r EXCEPT !.each = x] \in Fields
<1>1. [r EXCEPT !.port = x] \in Fields
  BY SMT DEF Fields
<1>2. [r EXCEPT !.size = x] \in Fields
  BY SMT DEF Fields
<1>3. [r EXCEPT !.partitions = x] \in Fields
  BY SMT DEF Fields
<1>4. [r EXCEPT !.total = x] \in Fields
  BY SMT DEF Fields
<1>5. [r EXCEPT !.each = x] \in Fields
  BY SMT DEF Fields
<1> QED BY <1>1, <1>2, <1>3, <1>4, <1>5

\* ReadEnvironment writes three of them,
WithRead(r, p, s, n) == [r EXCEPT !.port = p, !.size = s, !.partitions = n]

\* (port, size and partitions)
LEMMA ReadFields ==
  ASSUME NEW r \in Fields, NEW p \in Int, NEW s \in Int, NEW n \in Int,
         NEW q, q = WithRead(r, p, s, n)
  PROVE  q \in Fields /\ q.port = p /\ q.size = s /\ q.partitions = n
<1>1. PICK q1 \in Fields : q1 = [r EXCEPT !.port = p]
  BY FieldWritten
<1>2. PICK q2 \in Fields : q2 = [q1 EXCEPT !.size = s]
  BY FieldWritten
<1>3. q = [q2 EXCEPT !.partitions = n]
  BY <1>1, <1>2 DEF WithRead
<1>4. q \in Fields
  BY <1>3, FieldWritten
<1>5. q.port = p /\ q.size = s /\ q.partitions = n
  BY SMT DEF Fields, WithRead
<1> QED BY <1>4, <1>5

\* and pod_cache_create two.
WithCapacity(r, a, e) == [r EXCEPT !.total = a, !.each = e]

\* (the capacity, and what each partition gets)
LEMMA CreateFields ==
  ASSUME NEW r \in Fields, NEW a \in Int, NEW e \in Int,
         NEW q, q = WithCapacity(r, a, e)
  PROVE  /\ q \in Fields /\ q.total = a /\ q.each = e
         /\ q.port = r.port /\ q.size = r.size /\ q.partitions = r.partitions
<1>1. PICK q1 \in Fields : q1 = [r EXCEPT !.total = a]
  BY FieldWritten
<1>2. q = [q1 EXCEPT !.each = e]
  BY <1>1 DEF WithCapacity
<1>3. q \in Fields
  BY <1>2, FieldWritten
<1>4. q.total = a /\ q.each = e
  BY SMT DEF Fields, WithCapacity
<1>5. q.port = r.port /\ q.size = r.size /\ q.partitions = r.partitions
  BY SMT DEF Fields, WithCapacity
<1> QED BY <1>3, <1>4, <1>5

\* What each step has computed, from what the environment says.
ConfigInv ==
  /\ env \in [port : PortStrings, size : SizeStrings, partitions : PartitionStrings]
  /\ server \in Fields
  /\ step \in {"read", "create", "table", "ready"}
  /\ step # "read" => Within(server.size, 1, 4096) /\ Within(server.partitions, 1, 64)
  /\ step \in {"table", "ready"} =>
       /\ server.total = MB_TO_BYTES(server.size)
       /\ server.each = PartitionCapacity(server.total, server.partitions)
  /\ step = "ready" => server.table = calculate_hash_table_size(server.each) + 1

\* Before the environment is read nothing is promised.
LEMMA InitConfigInv == Init => ConfigInv
BY SMT DEF Init, ConfigInv, Fields

\* The numbers are in their ranges after they are read.
LEMMA ReadInv ==
  ASSUME ConfigInv, ReadEnvironment PROVE ConfigInv'
<1>1. server \in Fields
  BY SMT DEF ConfigInv
<1>2. env.port \in EnvString /\ env.size \in EnvString /\ env.partitions \in EnvString
  BY ConfigAssumption, SMT DEF ConfigInv
<1>3. PICK p \in Int : p = get_env_int(env.port, 6379, 1024, 65535)
  BY <1>2, EnvIntInRange, SMT
<1>4. PICK s \in Int : s = get_env_int(env.size, 100, 1, 4096) /\ 1 <= s /\ s <= 4096
  BY <1>2, EnvIntInRange, SMT
<1>5. PICK n \in Int : n = get_env_int(env.partitions, 1, 1, 64) /\ 1 <= n /\ n <= 64
  BY <1>2, EnvIntInRange, SMT
<1>6. server' = WithRead(server, p, s, n)
  BY <1>3, <1>4, <1>5, SMT DEF ReadEnvironment, get_server_port, WithRead
<1>7. server' \in Fields /\ server'.port = p /\ server'.size = s /\ server'.partitions = n
  BY <1>1, <1>6, ReadFields
<1>8. step' = "create" /\ env' = env
  BY SMT DEF ReadEnvironment
<1> QED BY <1>4, <1>5, <1>7, <1>8, SMT DEF ConfigInv, Within

\* The capacities follow from them.
LEMMA CreateInv ==
  ASSUME ConfigInv, pod_cache_create PROVE ConfigInv'
<1>1. server \in Fields /\ Within(server.size, 1, 4096) /\ Within(server.partitions, 1, 64)
  BY SMT DEF pod_cache_create, ConfigInv
<1>2. PICK a \in Int : a = MB_TO_BYTES(server.size)
  BY <1>1, CapacityTyped, SMT DEF Within, Huge
<1>3. PICK e \in Int : e = PartitionCapacity(a, server.partitions)
  BY <1>1, <1>2, CapacityTyped, SMT DEF Within, Huge
<1>4. server' = WithCapacity(server, a, e)
  BY <1>2, <1>3, SMT DEF pod_cache_create, WithCapacity
<1>5. /\ server' \in Fields /\ server'.total = a /\ server'.each = e
      /\ server'.port = server.port /\ server'.size = server.size
      /\ server'.partitions = server.partitions
  BY <1>1, <1>4, CreateFields
<1>6. step = "create" /\ step' = "table" /\ env' = env
  BY SMT DEF pod_cache_create
<1> QED BY <1>1, <1>2, <1>3, <1>5, <1>6, SMT DEF ConfigInv

\* And from the capacity the size of the table.
LEMMA TableInv ==
  ASSUME ConfigInv, lru_cache_create PROVE ConfigInv'
<1>1. /\ server \in Fields /\ Within(server.size, 1, 4096) /\ Within(server.partitions, 1, 64)
      /\ server.total = MB_TO_BYTES(server.size)
      /\ server.each = PartitionCapacity(server.total, server.partitions)
  BY SMT DEF lru_cache_create, ConfigInv
<1>2. server.each \in Nat \/ server.each = Huge
  BY <1>1, CapacityTyped, SMT DEF Within
<1>3. calculate_hash_table_size(server.each) \in Int
  <2>1. CASE server.each = Huge
    BY <2>1, SMT DEF calculate_hash_table_size
  <2>2. CASE server.each \in Nat
    BY <2>2, TableSize, SMT DEF TableSizes
  <2> QED BY <1>2, <2>1, <2>2, SMT
<1>4. PICK n \in Int : n = calculate_hash_table_size(server.each) + 1
  BY <1>3, SMT
<1>5. server' = [server EXCEPT !.table = n]
  BY <1>4, SMT DEF lru_cache_create
<1>6. /\ server' \in Fields /\ server'.table = n
      /\ server'.port = server.port /\ server'.size = server.size
      /\ server'.partitions = server.partitions
      /\ server'.total = server.total /\ server'.each = server.each
  BY <1>1, <1>5, SMT DEF Fields
<1>7. step = "table" /\ step' = "ready" /\ env' = env
  BY SMT DEF lru_cache_create
<1> QED BY <1>1, <1>4, <1>6, <1>7, SMT DEF ConfigInv

\* The inductive step.
LEMMA NextConfigInv ==
  ASSUME ConfigInv, [Next]_vars PROVE ConfigInv'
<1>1. CASE UNCHANGED vars
  BY <1>1, SMT DEF vars, ConfigInv
<1> QED BY <1>1, ReadInv, CreateInv, TableInv DEF Next, Ready

\* The invariant holds throughout.
LEMMA AlwaysConfigInv == Spec => []ConfigInv
BY InitConfigInv, NextConfigInv, PTL DEF Spec

-----------------------------------------------------------------------------

\* What a configuration below 2048 MB gives every partition.
LEMMA FittingShare ==
  ASSUME ConfigInv, step \in {"table", "ready"}, Fits
  PROVE  /\ Within(server.size, 1, 2047) /\ Within(server.partitions, 1, 64)
         /\ server.total \in Nat /\ server.total = server.size * 1048576
         /\ server.each = server.total \div server.partitions
<1>1. /\ server \in Fields /\ Within(server.size, 1, 2047) /\ Within(server.partitions, 1, 64)
      /\ server.total = MB_TO_BYTES(server.size)
      /\ server.each = PartitionCapacity(server.total, server.partitions)
  BY SMT DEF ConfigInv, Fits, Within
<1>2. server.total \in Nat /\ server.total = server.size * 1048576
  BY <1>1, Megabytes, SMT DEF Within
<1>3. server.each = server.total \div server.partitions
  BY <1>1, <1>2, SMT DEF PartitionCapacity, Huge
<1> QED BY <1>1, <1>2, <1>3, SMT

\* For every size below 2048 MB and every number of partitions, an empty
\* partition has room for every value that fits a client's command buffer.
THEOREM CommandsFit == Spec => []EveryCommandFits
<1>1. ConfigInv => EveryCommandFits
  <2> SUFFICES ASSUME ConfigInv, step \in {"table", "ready"}, Fits
               PROVE  MAX_COMMAND_SIZE - 1 < server.each
    BY SMT DEF EveryCommandFits
  <2>1. 1048576 <= server.total
    BY FittingShare, SMT DEF Within
  <2>2. 16384 <= server.each /\ server.each \in Int
    BY <2>1, FittingShare, SmallestPart, Division, SMT DEF Within
  <2> QED BY <2>2, SMT DEF MAX_COMMAND_SIZE
<1> QED BY <1>1, AlwaysConfigInv, PTL

\* In each of those configurations whose table is below its limit, a partition
\* full of elements of 1 KB has at most three elements for four buckets
\* (calculate_hash_table_size).
THEOREM TableKeepsLoadFactor == Spec => []LoadFactorIsKept
<1>1. ConfigInv => LoadFactorIsKept
  <2> SUFFICES ASSUME ConfigInv, step = "ready", Fits, server.table <= 65536
               PROVE  4 * (server.each \div KB) <= 3 * server.table
    BY SMT DEF LoadFactorIsKept
  <2>1. server.each \in Nat
    BY FittingShare, Division, SMT DEF Within
  <2>2. server.table = calculate_hash_table_size(server.each) + 1
    BY SMT DEF ConfigInv
  <2>3. PICK n \in Int : n = calculate_hash_table_size(server.each) /\ n >= TargetSize(server.each)
    BY <2>1, <2>2, TableSize, SMT DEF TableSizes
  <2>4. PICK e \in Nat : e = server.each \div KB
    BY <2>1, SMT DEF KB
  <2>5. n >= (e * 4) \div 3
    BY <2>3, <2>4, SMT DEF TargetSize
  <2>6. 4 * e <= 3 * (n + 1)
    BY <2>5, SMT
  <2> QED BY <2>2, <2>3, <2>4, <2>6, SMT
<1> QED BY <1>1, AlwaysConfigInv, PTL
=============================================================================
