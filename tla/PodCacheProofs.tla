--------------------------- MODULE PodCacheProofs ---------------------------
(***************************************************************************)
(* What is proved of PodCache, for any set of keys, values, threads and    *)
(* partitions and whatever calls fail.                                     *)
(*                                                                         *)
(* The first part says of each call of lru_cache.c and cas.c what it keeps *)
(* of the two tiers.  CacheInv, the invariant of any number of threads, is *)
(* made of the types, of the lists (every key in its own partition, once), *)
(* of the disk (DiskOK: what the registry lists was written) and of what a *)
(* thread holds between two of its calls; the registry stays sound only    *)
(* because a path that is about to be registered was written by the thread *)
(* that registers it and by no other.  One thread knows more between its   *)
(* calls (SoloLocal: the tail it spilled is still the tail), and from that *)
(* follows what a reader finds.                                            *)
(***************************************************************************)
EXTENDS PodCache, DataFacts

-----------------------------------------------------------------------------
(* The memory tier, for any number of partitions.                          *)

\* The lists hold every key in its own partition, and once.
Sorted(o) ==
  \A p \in Partitions :
    /\ \A i \in DOMAIN o[p] : PartOf[o[p][i]] = p
    /\ \A i, j \in DOMAIN o[p] : o[p][i] = o[p][j] => i = j

\* Key k is in the lists o.
In(o, k) == k \in Range(o[PartOf[k]])

\* A list per partition.
Lists == [Partitions -> Seq(Keys)]

\* The lists after the i-th node of p is moved to the head, or taken out.
WithMoved(o, p, i)   == [o EXCEPT ![p] = ToHead(@, i)]
WithRemoved(o, p, i) == [o EXCEPT ![p] = RemoveAt(@, i)]

\* Resident, as membership in the list.
LEMMA ResidentIn ==
  ASSUME NEW k \in Keys
  PROVE  Resident(k) <=> In(order, k)
BY DEF Resident, At, In, Range

\* The same after a step.
LEMMA ResidentInPrime ==
  ASSUME NEW k \in Keys
  PROVE  Resident(k)' <=> In(order', k)
BY DEF Resident, At, In, Range

\* A key that is moved to the head changes no membership.
LEMMA ToHeadLists ==
  ASSUME NEW o \in Lists, Sorted(o), NEW p \in Partitions, NEW i \in DOMAIN o[p]
  PROVE  /\ WithMoved(o, p, i) \in Lists /\ Sorted(WithMoved(o, p, i))
         /\ \A j \in Keys : In(WithMoved(o, p, i), j) <=> In(o, j)
<1> DEFINE o2 == WithMoved(o, p, i)
<1> DEFINE s == o[p]
           q == RemoveAt(s, i)
           r == Cons(s[i], q)
<1>1. s \in Seq(Keys) /\ i \in 1 .. Len(s) /\ s[i] \in Keys
  BY DEF Lists
<1>2. \A a, b \in DOMAIN s : s[a] = s[b] => a = b
  BY DEF Sorted
<1>3. q \in Seq(Keys)
  BY <1>1, RemoveAtProps
<1>4. Range(q) = Range(s) \ {s[i]}
  BY <1>1, <1>2, RemoveAtRange
<1>5. \A a, b \in DOMAIN q : q[a] = q[b] => a = b
  BY <1>1, <1>2, RemoveAtInjective
<1>6. s[i] \in Range(s)
  BY <1>1 DEF Range
<1> HIDE DEF q
<1>7. r \in Seq(Keys)
  BY <1>1, <1>3, ConsProps
<1>8. Range(r) = {s[i]} \cup Range(q)
  BY <1>1, <1>3, ConsRange
<1>9. \A a, b \in DOMAIN r : r[a] = r[b] => a = b
  BY <1>1, <1>3, <1>4, <1>5, ConsInjective
<1>10. Range(r) = Range(s)
  BY <1>4, <1>6, <1>8
<1>11. o2 = [o EXCEPT ![p] = r]
  BY DEF ToHead, q, WithMoved
<1>12. \A x \in Range(s) : PartOf[x] = p
  BY DEF Sorted, Range
<1> HIDE DEF s, r, o2
<1>13. o2 \in Lists /\ o2[p] = r /\ \A u \in Partitions : u # p => o2[u] = o[u]
  BY <1>7, <1>11 DEF Lists
<1>14. \A x \in DOMAIN r : PartOf[r[x]] = p
  BY <1>10, <1>12 DEF Range
<1>15. Sorted(o2)
  BY <1>9, <1>13, <1>14 DEF Sorted
<1>16. \A u \in Partitions : Range(o2[u]) = Range(o[u])
  BY <1>10, <1>13 DEF s
<1> QED BY <1>13, <1>15, <1>16, LruAssumption DEF In, o2

\* A new key is put in front.
LEMMA InsertLists ==
  ASSUME NEW o \in Lists, Sorted(o), NEW k \in Keys, ~ In(o, k),
         NEW o2, o2 = [o EXCEPT ![PartOf[k]] = Cons(k, @)]
  PROVE  /\ o2 \in Lists /\ Sorted(o2)
         /\ In(o2, k)
         /\ \A j \in Keys : j # k => (In(o2, j) <=> In(o, j))
<1> DEFINE p == PartOf[k]
           s == o[p]
           r == Cons(k, s)
<1>1. p \in Partitions /\ s \in Seq(Keys)
  BY LruAssumption DEF Lists
<1>2. \A a, b \in DOMAIN s : s[a] = s[b] => a = b
  BY <1>1 DEF Sorted
<1>3. k \notin Range(s)
  BY DEF In
<1>4. r \in Seq(Keys)
  BY <1>1, ConsProps
<1>5. Range(r) = {k} \cup Range(s)
  BY <1>1, ConsRange
<1>6. \A a, b \in DOMAIN r : r[a] = r[b] => a = b
  BY <1>1, <1>2, <1>3, ConsInjective
<1>7. \A x \in Range(s) : PartOf[x] = p
  BY <1>1 DEF Sorted, Range
<1>8. o2 = [o EXCEPT ![p] = r]
  OBVIOUS
<1> HIDE DEF s, r
<1>9. o2 \in Lists /\ o2[p] = r /\ \A u \in Partitions : u # p => o2[u] = o[u]
  BY <1>1, <1>4, <1>8 DEF Lists
<1>10. \A x \in DOMAIN r : PartOf[r[x]] = p
  BY <1>5, <1>7 DEF Range
<1> HIDE DEF p
<1>11. Sorted(o2)
  BY <1>6, <1>9, <1>10 DEF Sorted
<1>12. \A u \in Partitions : u # p => Range(o2[u]) = Range(o[u])
  BY <1>9
<1>13. Range(o2[p]) = {k} \cup Range(o[p])
  BY <1>5, <1>9 DEF s
<1> QED BY <1>9, <1>11, <1>12, <1>13, LruAssumption DEF In, p

\* A key is taken out.
LEMMA RemoveLists ==
  ASSUME NEW o \in Lists, Sorted(o), NEW p \in Partitions, NEW i \in DOMAIN o[p],
         NEW k, k = o[p][i]
  PROVE  /\ WithRemoved(o, p, i) \in Lists /\ Sorted(WithRemoved(o, p, i))
         /\ k \in Keys /\ PartOf[k] = p /\ In(o, k) /\ ~ In(WithRemoved(o, p, i), k)
         /\ \A j \in Keys : j # k => (In(WithRemoved(o, p, i), j) <=> In(o, j))
<1> DEFINE o2 == WithRemoved(o, p, i)
           s == o[p]
           q == RemoveAt(s, i)
<1>1. s \in Seq(Keys) /\ i \in 1 .. Len(s) /\ s[i] = k /\ k \in Keys
  BY DEF Lists
<1>2. \A a, b \in DOMAIN s : s[a] = s[b] => a = b
  BY DEF Sorted
<1>3. q \in Seq(Keys)
  BY <1>1, RemoveAtProps
<1>4. Range(q) = Range(s) \ {k}
  BY <1>1, <1>2, RemoveAtRange
<1>5. \A a, b \in DOMAIN q : q[a] = q[b] => a = b
  BY <1>1, <1>2, RemoveAtInjective
<1>6. k \in Range(s)
  BY <1>1 DEF Range
<1>7. \A x \in Range(s) : PartOf[x] = p
  BY DEF Sorted, Range
<1>8. o2 = [o EXCEPT ![p] = q]
  BY DEF WithRemoved
<1> HIDE DEF s, q, o2
<1>9. o2 \in Lists /\ o2[p] = q /\ \A u \in Partitions : u # p => o2[u] = o[u]
  BY <1>3, <1>8 DEF Lists
<1>10. \A x \in DOMAIN q : PartOf[q[x]] = p
  BY <1>4, <1>7 DEF Range
<1>11. Sorted(o2)
  BY <1>5, <1>9, <1>10 DEF Sorted
<1>12. PartOf[k] = p
  BY <1>6, <1>7
<1>13. Range(o2[p]) = Range(o[p]) \ {k}
  BY <1>4, <1>9 DEF s
<1>14. In(o, k) /\ ~ In(o2, k)
  BY <1>6, <1>12, <1>13 DEF In, s
<1>15. \A u \in Partitions : u # p => Range(o2[u]) = Range(o[u])
  BY <1>9
<1> QED BY <1>1, <1>9, <1>11, <1>12, <1>13, <1>14, <1>15, LruAssumption DEF In, o2

\* What a call about key k leaves of the memory tier: its types, the order of
\* its lists, and every other key.
MemoryKept(k) ==
  /\ LruTypeOK' /\ Sorted(order')
  /\ \A j \in Keys : j # k => (Resident(j)' <=> Resident(j)) /\ val'[j] = val[j]

\* The lists stay as they are when nothing is done.
LEMMA StutterMemory ==
  ASSUME LruTypeOK, Sorted(order), NEW k, UNCHANGED lruVars
  PROVE  MemoryKept(k) /\ \A j \in Keys : Resident(j)' <=> Resident(j)
BY DEF LruTypeOK, Sorted, lruVars, MemoryKept, Resident, At

\* A hit reorders a list and changes nothing else.
LEMMA MoveToHeadMemory ==
  ASSUME LruTypeOK, Sorted(order), NEW k \in Keys, MoveToHead(k)
  PROVE  /\ order' \in [Partitions -> Seq(Keys)] /\ Sorted(order')
         /\ \A j \in Keys : Resident(j)' <=> Resident(j)
<1>1. PICK i \in DOMAIN order[PartOf[k]] :
        order' = [order EXCEPT ![PartOf[k]] = ToHead(@, i)]
  BY DEF MoveToHead
<1>2. order \in Lists /\ PartOf[k] \in Partitions
  BY LruAssumption DEF LruTypeOK, Lists
<1>3. order' = WithMoved(order, PartOf[k], i)
  BY <1>1 DEF WithMoved
<1>4. order' \in Lists /\ Sorted(order') /\ \A j \in Keys : In(order', j) <=> In(order, j)
  BY <1>2, <1>3, ToHeadLists
<1> QED BY <1>4, ResidentIn, ResidentInPrime DEF Lists

\* lru_cache_put.
LEMMA PutMemory ==
  ASSUME LruTypeOK, Sorted(order), NEW k \in Keys, NEW v \in Contents, NEW r,
         lru_cache_put(k, v, r)
  PROVE  /\ MemoryKept(k)
         /\ r = OK => Resident(k)' /\ val'[k] = v
         /\ r # OK => order' = order /\ val'[k] \in {val[k], NULL}
         /\ ~ MemMayFail => r \in {OK, FULL}
         /\ r = FULL => NoRoom(k, v) /\ UNCHANGED lruVars
<1> USE DEF OK, FAIL, FULL
<1>0. SizeOf[v] \in Nat /\ PartOf[k] \in Partitions
  BY DataAssumption, LruAssumption
<1>1. CASE r = FULL /\ NoRoom(k, v) /\ UNCHANGED lruVars
  BY <1>1, StutterMemory DEF lruVars
<1>2. CASE ~ NoRoom(k, v) /\ PutUpdate(k, v, r) /\ r = FAIL
  <2>1. MemMayFail /\ val' = [val EXCEPT ![k] = NULL] /\ UNCHANGED <<order, size, bytes>>
    BY <1>2 DEF PutUpdate
  <2>2. LruTypeOK' /\ Sorted(order')
    BY <2>1 DEF LruTypeOK
  <2>3. \A j \in Keys : (Resident(j)' <=> Resident(j)) /\ (j # k => val'[j] = val[j])
    BY <2>1 DEF Resident, At, LruTypeOK
  <2> QED BY <1>2, <2>1, <2>2, <2>3 DEF MemoryKept, LruTypeOK
<1>3. CASE ~ NoRoom(k, v) /\ PutUpdate(k, v, r) /\ r = OK
  <2>1. /\ val' = [val EXCEPT ![k] = v] /\ size' = [size EXCEPT ![k] = SizeOf[v]]
        /\ bytes' = [bytes EXCEPT ![PartOf[k]] = @ + (SizeOf[v] - size[k])]
        /\ MoveToHead(k) /\ Resident(k)
    BY <1>3 DEF PutUpdate
  <2>2. /\ order' \in [Partitions -> Seq(Keys)] /\ Sorted(order')
        /\ \A j \in Keys : Resident(j)' <=> Resident(j)
    BY <2>1, MoveToHeadMemory
  <2>3. bytes[PartOf[k]] + (SizeOf[v] - size[k]) \in Int
    BY <1>0 DEF LruTypeOK
  <2>4. val' \in [Keys -> Contents \cup {NULL}] /\ size' \in [Keys -> Nat]
    BY <1>0, <2>1 DEF LruTypeOK
  <2>5. bytes' \in [Partitions -> Int]
    BY <1>0, <2>1, <2>3 DEF LruTypeOK
  <2>6. LruTypeOK'
    BY <2>2, <2>4, <2>5 DEF LruTypeOK
  <2> QED BY <1>3, <2>1, <2>2, <2>6 DEF MemoryKept, LruTypeOK
<1>4. CASE ~ NoRoom(k, v) /\ PutInsert(k, v, r) /\ r = FAIL
  <2>1. MemMayFail /\ UNCHANGED lruVars
    BY <1>4 DEF PutInsert
  <2> QED BY <1>4, <2>1, StutterMemory DEF lruVars
<1>5. CASE ~ NoRoom(k, v) /\ PutInsert(k, v, r) /\ r = OK
  <2>1. /\ val' = [val EXCEPT ![k] = v] /\ size' = [size EXCEPT ![k] = SizeOf[v]]
        /\ bytes' = [bytes EXCEPT ![PartOf[k]] = @ + SizeOf[v]]
        /\ order' = [order EXCEPT ![PartOf[k]] = Cons(k, @)] /\ ~ Resident(k)
    BY <1>5 DEF PutInsert
  <2>2. order \in Lists /\ ~ In(order, k)
    BY <2>1, ResidentIn DEF LruTypeOK, Lists
  <2>3. /\ order' \in Lists /\ Sorted(order') /\ In(order', k)
        /\ \A j \in Keys : j # k => (In(order', j) <=> In(order, j))
    BY <2>1, <2>2, InsertLists, ZenonT(60)
  <2>4. LruTypeOK'
    BY <1>0, <2>1, <2>3 DEF LruTypeOK, Lists
  <2>5. Resident(k)' /\ \A j \in Keys : j # k => (Resident(j)' <=> Resident(j))
    BY <2>3, ResidentIn, ResidentInPrime
  <2> QED BY <1>5, <2>1, <2>3, <2>4, <2>5 DEF MemoryKept, LruTypeOK
<1> QED BY <1>1, <1>2, <1>3, <1>4, <1>5 DEF lru_cache_put, PutUpdate, PutInsert

\* lru_cache_get only reorders.
LEMMA GetKeepsMemory ==
  ASSUME LruTypeOK, Sorted(order), NEW k \in Keys, NEW r, NEW v, lru_cache_get(k, r, v)
  PROVE  /\ MemoryKept(k) /\ val' = val
         /\ \A j \in Keys : Resident(j)' <=> Resident(j)
         /\ r = MISS => ~ Resident(k) /\ UNCHANGED lruVars
         /\ r = OK => Resident(k)
<1> USE DEF OK, MISS, FAIL, CRASH
<1>1. CASE UNCHANGED lruVars /\ r # OK
  BY <1>1, StutterMemory DEF lruVars, lru_cache_get
<1>2. CASE r = OK /\ Resident(k) /\ MoveToHead(k) /\ UNCHANGED <<val, size, bytes>>
  <2>1. /\ order' \in [Partitions -> Seq(Keys)] /\ Sorted(order')
        /\ \A j \in Keys : Resident(j)' <=> Resident(j)
    BY <1>2, MoveToHeadMemory
  <2> QED BY <1>2, <2>1 DEF MemoryKept, LruTypeOK
<1> QED BY <1>1, <1>2 DEF lru_cache_get

\* A node leaves the list.
LEMMA UnlinkMemory ==
  ASSUME LruTypeOK, Sorted(order), NEW k \in Keys, Unlink(k)
  PROVE  MemoryKept(k) /\ ~ Resident(k)' /\ Resident(k)
<1>1. PICK i \in DOMAIN order[PartOf[k]] :
        At(k, i) /\ order' = [order EXCEPT ![PartOf[k]] = RemoveAt(@, i)]
  BY DEF Unlink
<1>0. order' = WithRemoved(order, PartOf[k], i)
  BY <1>1 DEF WithRemoved
<1>2. order \in Lists /\ PartOf[k] \in Partitions /\ order[PartOf[k]][i] = k
  BY <1>1, LruAssumption DEF LruTypeOK, Lists, At
<1>3. /\ order' \in Lists /\ Sorted(order') /\ In(order, k) /\ ~ In(order', k)
      /\ \A j \in Keys : j # k => (In(order', j) <=> In(order, j))
  <2> DEFINE p == PartOf[k]
  <2>1. p \in Partitions /\ i \in DOMAIN order[p] /\ k = order[p][i]
    BY <1>2
  <2> HIDE DEF p
  <2>2. /\ WithRemoved(order, p, i) \in Lists /\ Sorted(WithRemoved(order, p, i))
        /\ In(order, k) /\ ~ In(WithRemoved(order, p, i), k)
        /\ \A j \in Keys : j # k => (In(WithRemoved(order, p, i), j) <=> In(order, j))
    BY <1>2, <2>1, RemoveLists
  <2> QED BY <2>2, <1>0 DEF p
<1>4. ~ Resident(k)' /\ Resident(k) /\ \A j \in Keys : j # k => (Resident(j)' <=> Resident(j))
  BY <1>3, ResidentIn, ResidentInPrime
<1>5. LruTypeOK'
  <2>1. bytes[PartOf[k]] - size[k] \in Int
    BY <1>2 DEF LruTypeOK
  <2>2. bytes' \in [Partitions -> Int]
    BY <1>2, <2>1 DEF LruTypeOK, Unlink
  <2>3. val' \in [Keys -> Contents \cup {NULL}] /\ size' \in [Keys -> Nat]
    BY DEF LruTypeOK, Unlink
  <2> QED BY <1>3, <2>2, <2>3 DEF LruTypeOK, Lists
<1>6. \A j \in Keys : j # k => val'[j] = val[j]
  BY DEF Unlink, LruTypeOK
<1> QED BY <1>3, <1>4, <1>5, <1>6 DEF MemoryKept

\* The tail of a list that is not empty is a resident key of that partition.
LEMMA TailResident ==
  ASSUME LruTypeOK, Sorted(order), NEW p \in Partitions, order[p] # << >>
  PROVE  /\ lru_cache_get_tail_node(p) = order[p][Len(order[p])]
         /\ lru_cache_get_tail_node(p) \in Keys
         /\ PartOf[lru_cache_get_tail_node(p)] = p
         /\ Resident(lru_cache_get_tail_node(p))
<1> DEFINE s == order[p]
           k == s[Len(s)]
<1>1. s \in Seq(Keys) /\ Len(s) \in DOMAIN s
  BY DEF LruTypeOK
<1>2. k \in Keys /\ PartOf[k] = p
  BY <1>1 DEF Sorted
<1>3. At(k, Len(s))
  BY <1>1, <1>2 DEF At
<1> QED BY <1>1, <1>2, <1>3 DEF Resident, lru_cache_get_tail_node

-----------------------------------------------------------------------------
(* The disk tier.                                                          *)

\* The files stand below a complete path, and the registry is intact.
DiskOK ==
  /\ CasTypeOK
  /\ \A k \in Keys : timed[k] \/ dat[k] # NULL => depth[k] = Levels
  /\ RegistryIntact

\* A call about key k touches the files of no other key.
FilesKept(k) ==
  \A j \in Keys : j # k =>
    dat'[j] = dat[j] /\ timed'[j] = timed[j] /\ depth'[j] = depth[j]

\* cas_create_directory succeeds only if there was no time.dat, and fails with
\* the path complete if there is one or value.dat is left.
LEMMA CreateDirectoryTimed ==
  ASSUME DiskOK, NEW k \in Keys, NEW d \in 0 .. Levels, NEW x \in Contents \cup {NULL},
         NEW ok \in BOOLEAN, cas_create_directory(k, d, x, ok)
  PROVE  /\ ok => ~ timed[k] /\ d = Levels
         /\ timed[k] \/ x # NULL => d = Levels
         /\ x \in {dat[k], NULL}
<1>0. Levels \in Nat \ {0} /\ depth[k] \in 0 .. Levels /\ timed[k] \in BOOLEAN
  BY CasAssumption DEF DiskOK, CasTypeOK
<1>1. PICK d0 \in 0 .. Levels, removed \in BOOLEAN :
        /\ IF depth[k] = Levels
             THEN cas_remove(k, d0, x, removed)
             ELSE d0 = depth[k] /\ x = dat[k] /\ removed
        /\ \/ ~ removed /\ ~ ok /\ d = d0
           \/ removed /\ ok /\ d = Levels
           \/ removed /\ IoMayFail /\ ~ ok /\ d \in d0 .. (Levels - 1)
  BY DEF cas_create_directory
<1>2. timed[k] \/ dat[k] # NULL => depth[k] = Levels
  BY DEF DiskOK
<1>3. CASE depth[k] = Levels
  <2>1. x \in RemovedDat(k) /\ (timed[k] \/ x # NULL => ~ removed /\ d0 = Levels)
    BY <1>1, <1>3 DEF cas_remove
  <2> QED BY <1>0, <1>1, <2>1 DEF RemovedDat
<1>4. CASE depth[k] # Levels
  BY <1>0, <1>1, <1>2, <1>4
<1> QED BY <1>3, <1>4

\* WriteFiles creates time.dat exactly when it reports success.
LEMMA WriteFilesEffect ==
  ASSUME CasTypeOK, NEW k \in Keys, NEW v \in Contents, NEW r, WriteFiles(k, v, r)
  PROVE  /\ dat' \in [Keys -> Contents \cup {NULL}] /\ timed' \in [Keys -> BOOLEAN]
         /\ r = OK => timed' = [timed EXCEPT ![k] = TRUE] /\ dat'[k] \in Written(v)
         /\ r # OK => timed' = timed
         /\ \A j \in Keys : j # k => dat'[j] = dat[j]
         /\ r \in {OK, FAIL, SHORT}
         /\ ~ IoMayFail => r = OK
<1> USE DEF OK, FAIL, SHORT
<1>0. Torn \in Contents /\ Written(v) \subseteq Contents
  BY DEF Contents, Written
<1>1. CASE r = FAIL /\ IoMayFail /\ dat' = [dat EXCEPT ![k] = NULL] /\ UNCHANGED timed
  BY <1>1 DEF CasTypeOK
<1>2. CASE r = SHORT /\ IoMayFail /\ dat' = [dat EXCEPT ![k] = Torn] /\ UNCHANGED timed
  BY <1>0, <1>2 DEF CasTypeOK
<1>3. ASSUME NEW w \in Written(v), dat' = [dat EXCEPT ![k] = w]
      PROVE  /\ dat' \in [Keys -> Contents \cup {NULL}] /\ dat'[k] \in Written(v)
             /\ \A j \in Keys : j # k => dat'[j] = dat[j]
  BY <1>0, <1>3 DEF CasTypeOK
<1>4. CASE \E w \in Written(v) :
             /\ dat' = [dat EXCEPT ![k] = w]
             /\ \/ IoMayFail /\ r = FAIL /\ UNCHANGED timed
                \/ r = OK /\ timed' = [timed EXCEPT ![k] = TRUE]
  <2>1. timed' \in [Keys -> BOOLEAN]
    BY <1>4 DEF CasTypeOK
  <2>2. PICK w \in Written(v) : dat' = [dat EXCEPT ![k] = w]
    BY <1>4
  <2>3. /\ dat' \in [Keys -> Contents \cup {NULL}] /\ dat'[k] \in Written(v)
        /\ \A j \in Keys : j # k => dat'[j] = dat[j]
    BY <1>3, <2>2
  <2>4. \/ IoMayFail /\ r = FAIL /\ UNCHANGED timed
        \/ r = OK /\ timed' = [timed EXCEPT ![k] = TRUE]
    BY <1>4
  <2> QED BY <2>1, <2>3, <2>4
<1> QED BY <1>1, <1>2, <1>4 DEF WriteFiles

\* cas_put: a key whose time.dat exists is never written again; what succeeds
\* writes the value and time.dat below a complete path.
LEMMA CasPutDisk ==
  ASSUME DiskOK, NEW k \in Keys, NEW v \in Contents \cup {NULL}, NEW r, cas_put(k, v, r)
  PROVE  /\ DiskOK' /\ UNCHANGED slots /\ FilesKept(k)
         /\ r = OK => /\ ~ timed[k] /\ timed'[k] /\ v # NULL /\ dat'[k] \in Written(v)
         /\ r # OK => timed' = timed
         /\ timed[k] => timed'[k]
         /\ r \in CasCodes
<1> USE DEF OK, FAIL, SHORT, CRASH, CasCodes
<1>0. UNCHANGED slots
  BY DEF cas_put
<1>1. CASE UNCHANGED files /\ r \in {FAIL, CRASH}
  BY <1>0, <1>1 DEF files, slots, DiskOK, CasTypeOK, RegistryIntact, FilesKept
<1>2. CASE /\ v # NULL
           /\ \E d \in 0 .. Levels, x \in {dat[k], NULL}, ok \in BOOLEAN :
                /\ cas_create_directory(k, d, x, ok)
                /\ depth' = [depth EXCEPT ![k] = d]
                /\ IF ok THEN WriteFiles(k, v, r)
                         ELSE r = FAIL /\ dat' = [dat EXCEPT ![k] = x] /\ UNCHANGED timed
  <2>0. dat[k] \in Contents \cup {NULL}
    BY DEF DiskOK, CasTypeOK
  <2>1. PICK d \in 0 .. Levels, x \in Contents \cup {NULL}, ok \in BOOLEAN :
                /\ cas_create_directory(k, d, x, ok)
                /\ depth' = [depth EXCEPT ![k] = d]
                /\ IF ok THEN WriteFiles(k, v, r)
                         ELSE r = FAIL /\ dat' = [dat EXCEPT ![k] = x] /\ UNCHANGED timed
    BY <1>2, <2>0
  <2>2. /\ ok => ~ timed[k] /\ d = Levels
        /\ timed[k] \/ x # NULL => d = Levels
    BY <2>1, CreateDirectoryTimed
  <2>3. depth' \in [Keys -> 0 .. Levels] /\ depth'[k] = d /\ \A j \in Keys : j # k => depth'[j] = depth[j]
    BY <2>1 DEF DiskOK, CasTypeOK
  <2>4. CASE ok
    <3>1. CasTypeOK /\ v \in Contents /\ WriteFiles(k, v, r)
      BY <1>2, <2>1, <2>4 DEF DiskOK
    <3>2. /\ dat' \in [Keys -> Contents \cup {NULL}] /\ timed' \in [Keys -> BOOLEAN]
          /\ r = OK => timed' = [timed EXCEPT ![k] = TRUE] /\ dat'[k] \in Written(v)
          /\ r # OK => timed' = timed
          /\ \A j \in Keys : j # k => dat'[j] = dat[j]
          /\ r \in {OK, FAIL, SHORT}
      BY <3>1, WriteFilesEffect
    <3>3. (r = OK => timed'[k]) /\ \A j \in Keys : timed[j] => timed'[j]
      BY <3>2 DEF DiskOK, CasTypeOK
    <3>4. \A j \in Keys : j # k => timed'[j] = timed[j]
      BY <3>2 DEF DiskOK, CasTypeOK
    <3>5. CasTypeOK'
      BY <1>0, <2>3, <3>2 DEF DiskOK, CasTypeOK, slots
    <3>6. \A j \in Keys : timed'[j] \/ dat'[j] # NULL => depth'[j] = Levels
      BY <2>2, <2>3, <2>4, <3>2, <3>4 DEF DiskOK
    <3>7. RegistryIntact'
      BY <1>0, <3>3, <3>6 DEF DiskOK, RegistryIntact, slots
    <3> QED BY <1>0, <1>2, <2>2, <2>3, <2>4, <3>2, <3>3, <3>4, <3>5, <3>6, <3>7
               DEF DiskOK, FilesKept
  <2>5. CASE ~ ok
    <3>1. r = FAIL /\ dat' = [dat EXCEPT ![k] = x] /\ UNCHANGED timed
      BY <2>1, <2>5
    <3>2. CasTypeOK' /\ \A j \in Keys : j # k => dat'[j] = dat[j]
      BY <1>0, <2>3, <3>1 DEF DiskOK, CasTypeOK, slots
    <3>3. \A j \in Keys : timed'[j] \/ dat'[j] # NULL => depth'[j] = Levels
      BY <2>2, <2>3, <3>1, <3>2 DEF DiskOK, CasTypeOK
    <3>4. RegistryIntact'
      BY <1>0, <3>1, <3>3 DEF DiskOK, RegistryIntact, slots
    <3> QED BY <1>0, <2>3, <3>1, <3>2, <3>3, <3>4 DEF DiskOK, FilesKept
  <2> QED BY <2>4, <2>5
<1> QED BY <1>1, <1>2 DEF cas_put

\* cas_evict never reaches an entry of the registry: what it removes entirely
\* had no time.dat, and what is registered has one.
LEMMA CasEvictDisk ==
  ASSUME DiskOK, NEW k \in Keys, NEW r, cas_evict(k, r)
  PROVE  /\ DiskOK' /\ UNCHANGED <<timed, registry, capacity, allocated>> /\ FilesKept(k)
         /\ dat'[k] \in {NULL, dat[k]}
         /\ r = OK => dat'[k] = NULL
         /\ ~ IoMayFail /\ r # CRASH => dat'[k] = NULL
         /\ r = CRASH => UNCHANGED casVars
<1> USE DEF OK, FAIL, CRASH
<1>1. CASE r = CRASH /\ UNCHANGED casVars
  BY <1>1 DEF casVars, DiskOK, CasTypeOK, RegistryIntact, FilesKept
<1>2. ASSUME NEW x \in RemovedDat(k), NEW d \in 0 .. depth[k],
             (x # NULL \/ timed[k]) => d = depth[k],
             dat' = [dat EXCEPT ![k] = x],
             depth' = [depth EXCEPT ![k] = d],
             UNCHANGED timed,
             IF depth[k] = Levels /\ dat[k] # NULL /\ x = NULL /\ d = 0
               THEN r = OK /\ Unregister(k)
               ELSE r = FAIL /\ UNCHANGED slots
      PROVE  /\ DiskOK' /\ UNCHANGED <<timed, registry, capacity, allocated>> /\ FilesKept(k)
             /\ dat'[k] \in {NULL, dat[k]}
             /\ r = OK => dat'[k] = NULL
             /\ ~ IoMayFail /\ r # CRASH => dat'[k] = NULL
             /\ r # CRASH
  <2>0. Levels \in Nat \ {0} /\ depth[k] \in 0 .. Levels
    BY CasAssumption DEF DiskOK, CasTypeOK
  <2>1. x \in {NULL, dat[k]} /\ (~ IoMayFail => x = NULL)
    BY <1>2 DEF RemovedDat
  <2>2. dat'[k] = x /\ depth'[k] = d /\ \A j \in Keys : j # k => dat'[j] = dat[j] /\ depth'[j] = depth[j]
    BY <1>2 DEF DiskOK, CasTypeOK
  <2>3. d \in 0 .. Levels /\ (timed[k] \/ x # NULL => d = Levels)
    BY <1>2, <2>0, <2>1 DEF DiskOK
  <2>4. UNCHANGED <<registry, capacity, allocated>>
    <3>1. CASE UNCHANGED slots
      BY <3>1 DEF slots
    <3>2. CASE Unregister(k) /\ ~ timed[k]
      BY <3>2, CasAssumption DEF Unregister, DiskOK, RegistryIntact
    <3>3. d = 0 => ~ timed[k]
      BY <2>0, <2>3
    <3> QED BY <1>2, <3>1, <3>2, <3>3
  <2>5. CasTypeOK'
    <3>1. dat' \in [Keys -> Contents \cup {NULL}]
      BY <1>2, <2>1 DEF DiskOK, CasTypeOK
    <3>2. depth' \in [Keys -> 0 .. Levels]
      BY <1>2, <2>3 DEF DiskOK, CasTypeOK
    <3> QED BY <1>2, <2>4, <3>1, <3>2 DEF DiskOK, CasTypeOK
  <2>6. \A j \in Keys : timed'[j] \/ dat'[j] # NULL => depth'[j] = Levels
    BY <1>2, <2>2, <2>3 DEF DiskOK
  <2>7. RegistryIntact'
    BY <1>2, <2>4, <2>6 DEF DiskOK, RegistryIntact
  <2> QED BY <1>2, <2>1, <2>2, <2>4, <2>5, <2>6, <2>7 DEF DiskOK, FilesKept
<1> QED BY <1>1, <1>2 DEF cas_evict

\* cas_add_to_registry of a path that was written and is not registered yet.
LEMMA AddToRegistryDisk ==
  ASSUME DiskOK, NEW k \in Keys, timed[k], k \notin Range(registry), NEW r,
         cas_add_to_registry(k, r)
  PROVE  DiskOK' /\ UNCHANGED files /\ Range(registry') \subseteq Range(registry) \cup {k}
<1>1. UNCHANGED files /\ capacity' \in Nat /\ allocated' \in Nat
  BY DEF cas_add_to_registry, DiskOK, CasTypeOK
<1>2. CASE UNCHANGED registry
  BY <1>1, <1>2 DEF files, DiskOK, CasTypeOK, RegistryIntact
<1>3. CASE registry' = Append(registry, k)
  <2>1. /\ registry \in Seq(Keys \cup {Freed}) /\ registry' \in Seq(Keys \cup {Freed})
        /\ DOMAIN registry = 1 .. Len(registry)
        /\ DOMAIN registry' = 1 .. (Len(registry) + 1) /\ Len(registry) \in Nat
    BY <1>3 DEF DiskOK, CasTypeOK
  <2>2. \A i \in 1 .. (Len(registry) + 1) :
          registry'[i] = IF i = Len(registry) + 1 THEN k ELSE registry[i]
    BY <1>3, <2>1
  <2>3. \A i \in DOMAIN registry : registry[i] # k
    BY DEF Range
  <2>4. \A i, j \in DOMAIN registry' : registry'[i] = registry'[j] => i = j
    BY <2>1, <2>2, <2>3 DEF DiskOK, RegistryIntact
  <2>5. depth[k] = Levels
    BY DEF DiskOK
  <2>6. \A i \in DOMAIN registry' : 
          registry'[i] \in Keys /\ depth[registry'[i]] = Levels /\ timed[registry'[i]]
    BY <2>1, <2>2, <2>5 DEF DiskOK, RegistryIntact
  <2>7. Range(registry') \subseteq Range(registry) \cup {k}
    BY <2>1, <2>2 DEF Range
  <2> QED BY <1>1, <2>1, <2>4, <2>6, <2>7 DEF files, DiskOK, CasTypeOK, RegistryIntact
<1> QED BY <1>1, <1>2, <1>3 DEF cas_add_to_registry

-----------------------------------------------------------------------------
(* The invariant of any number of threads.                                 *)

\* The types of the threads' locals.
ControlTyped ==
  /\ pc \in [Threads -> Steps]
  /\ arg \in [Threads -> Keys \cup {NULL}]
  /\ data \in [Threads -> Contents \cup {NULL}]
  /\ victim \in [Threads -> Keys \cup {NULL, Freed}]
  /\ path \in [Threads -> Keys \cup {NULL}]
  /\ result \in [Threads -> Results]
  /\ crashed \in BOOLEAN
  /\ expect \in [Keys -> Contents \cup {NULL}]

\* What the locals of thread t hold at each call of its operation.  A path that
\* is about to be registered was just written and is not registered yet.
Local(t) ==
  /\ pc[t] # "idle" => arg[t] \in Keys
  /\ pc[t] \in {"get_tail", "spill", "register", "drop_tail", "retry", "promote", "unspill"} =>
       data[t] \in Contents
  /\ pc[t] = "spill" => victim[t] \in Keys \cup {Freed}
  /\ pc[t] = "register" =>
       path[t] \in Keys /\ timed[path[t]] /\ path[t] \notin Range(registry)

\* No two threads are about to register the same path.
Registering ==
  \A s, t \in Threads :
    pc[s] = "register" /\ pc[t] = "register" /\ path[s] = path[t] => s = t

\* The inductive invariant: a crashed process takes no further step, so nothing
\* is asked of its locals.
CacheInv ==
  /\ ControlTyped
  /\ LruTypeOK
  /\ Sorted(order)
  /\ DiskOK
  /\ ~ crashed => Registering /\ \A t \in Threads : Local(t)

\* The step of t leaves the locals of the other threads alone; it may free the
\* node one of them points to.
OthersKept(t) ==
  \A s \in Threads \ {t} :
    /\ pc'[s] = pc[s] /\ arg'[s] = arg[s] /\ data'[s] = data[s] /\ path'[s] = path[s]
    /\ victim'[s] \in {victim[s], Freed}

\* CacheInv implies the type invariant and the soundness of the registry.
LEMMA CacheInvImplies == CacheInv => TypeOK /\ RegistryIntact
BY DEF CacheInv, ControlTyped, DiskOK, TypeOK

\* An empty cache, and no operation under way.
LEMMA InitCacheInv == Init => CacheInv
<1> SUFFICES ASSUME Init PROVE CacheInv
  OBVIOUS
<1> USE DEF Init
<1>1. ControlTyped
  BY DataAssumption DEF ControlTyped, Steps, Results
<1>2. LruTypeOK /\ Sorted(order)
  BY DataAssumption DEF LruInit, LruTypeOK, Sorted
<1>3. CasTypeOK
  BY CasAssumption, DataAssumption DEF CasInit, CasTypeOK
<1>4. DiskOK
  BY <1>3 DEF CasInit, DiskOK, RegistryIntact
<1>5. Registering /\ \A t \in Threads : Local(t)
  BY DEF Registering, Local
<1> QED BY <1>1, <1>2, <1>4, <1>5 DEF CacheInv

\* What is left to show of a step of t: its own locals, and that the path it is
\* about to register was not written before.
LEMMA StepCloses ==
  ASSUME CacheInv, ~ crashed, NEW t \in Threads,
         ControlTyped', LruTypeOK', Sorted(order'), DiskOK',
         OthersKept(t),
         \A k \in Keys : timed[k] => timed'[k],
         Range(registry') \subseteq
           Range(registry) \cup (IF pc[t] = "register" THEN {path[t]} ELSE {}),
         ~ crashed' => Local(t)',
         pc'[t] = "register" => ~ timed[path'[t]]
  PROVE  CacheInv'
<1> SUFFICES ASSUME ~ crashed' PROVE Registering' /\ \A s \in Threads : Local(s)'
  BY DEF CacheInv
<1>1. ASSUME NEW s \in Threads \ {t} PROVE Local(s)'
  <2>1. /\ Local(s)
        /\ pc'[s] = pc[s] /\ arg'[s] = arg[s] /\ data'[s] = data[s] /\ path'[s] = path[s]
        /\ victim'[s] \in {victim[s], Freed}
    BY <1>1 DEF CacheInv, OthersKept
  <2>2. pc[s] = "register" /\ pc[t] = "register" => path[s] # path[t]
    BY <1>1 DEF CacheInv, Registering
  <2> QED BY <2>1, <2>2 DEF Local
<1>2. ASSUME NEW s \in Threads \ {t}, pc'[s] = "register", pc'[t] = "register"
      PROVE  path'[s] # path'[t]
  <2>1. pc[s] = "register" /\ path'[s] = path[s]
    BY <1>2 DEF OthersKept
  <2>2. timed[path[s]]
    BY <2>1 DEF CacheInv, Local
  <2> QED BY <1>2, <2>1, <2>2
<1>3. \A s, u \in Threads \ {t} :
        pc'[s] = "register" /\ pc'[u] = "register" /\ path'[s] = path'[u] => s = u
  BY DEF OthersKept, CacheInv, Registering
<1> QED BY <1>1, <1>2, <1>3 DEF Registering

\* The disk is as it was.
LEMMA StutterDisk ==
  ASSUME DiskOK, UNCHANGED casVars
  PROVE  DiskOK' /\ timed' = timed /\ registry' = registry /\ dat' = dat
BY DEF casVars, DiskOK, CasTypeOK, RegistryIntact

\* So is the memory.
LEMMA StutterLists ==
  ASSUME LruTypeOK, Sorted(order), UNCHANGED lruVars
  PROVE  LruTypeOK' /\ Sorted(order')
BY DEF LruTypeOK, Sorted, lruVars

\* The types of the control state after a call returns, goes on or crashes.
LEMMA ControlStep ==
  ASSUME ControlTyped, NEW t \in Threads
  PROVE  /\ \A n \in Results : Return(t, n) =>
              /\ pc' \in [Threads -> Steps] /\ result' \in [Threads -> Results]
              /\ data' \in [Threads -> Contents \cup {NULL}] /\ crashed' \in BOOLEAN
         /\ \A step \in Steps : Goto(t, step) =>
              /\ pc' \in [Threads -> Steps] /\ result' \in [Threads -> Results]
              /\ crashed' \in BOOLEAN
         /\ Crash =>
              /\ pc' \in [Threads -> Steps] /\ result' \in [Threads -> Results]
              /\ data' \in [Threads -> Contents \cup {NULL}] /\ crashed' \in BOOLEAN
<1>1. ASSUME NEW n \in Results, Return(t, n)
      PROVE  /\ pc' \in [Threads -> Steps] /\ result' \in [Threads -> Results]
             /\ data' \in [Threads -> Contents \cup {NULL}] /\ crashed' \in BOOLEAN
  BY <1>1 DEF ControlTyped, Return, Steps
<1>2. ASSUME NEW step \in Steps, Goto(t, step)
      PROVE  /\ pc' \in [Threads -> Steps] /\ result' \in [Threads -> Results]
             /\ crashed' \in BOOLEAN
  BY <1>2 DEF ControlTyped, Goto
<1>3. ASSUME Crash
      PROVE  /\ pc' \in [Threads -> Steps] /\ result' \in [Threads -> Results]
             /\ data' \in [Threads -> Contents \cup {NULL}] /\ crashed' \in BOOLEAN
  BY <1>3 DEF ControlTyped, Crash
<1> QED BY <1>1, <1>2, <1>3

\* pod_cache_put tries the memory; a full partition takes it on to the tail.
LEMMA PutFirstInv ==
  ASSUME CacheInv, ~ crashed, NEW t \in Threads, NEW k \in Keys, NEW v \in Values,
         PutFirst(t, k, v)
  PROVE  CacheInv'
<1> USE DEF OK, FAIL, FULL
<1>0. v \in Contents /\ PartOf[k] \in Partitions
  BY LruAssumption DEF Contents
<1>1. PICK r \in {OK, FAIL, FULL} :
        /\ lru_cache_put(k, v, r)
        /\ \/ /\ r = OK /\ Return(t, PartOf[k])
              /\ expect' = [expect EXCEPT ![k] = v]
           \/ r = FAIL /\ Return(t, -1) /\ UNCHANGED expect
           \/ /\ r = FULL /\ Goto(t, "get_tail")
              /\ data' = [data EXCEPT ![t] = v]
              /\ UNCHANGED expect
  BY DEF PutFirst
<1>2. LruTypeOK' /\ Sorted(order')
  BY <1>0, <1>1, PutMemory DEF CacheInv, MemoryKept
<1>3. DiskOK' /\ timed' = timed /\ registry' = registry
  BY StutterDisk DEF PutFirst, CacheInv
<1>4. arg' = [arg EXCEPT ![t] = k] /\ UNCHANGED <<victim, path>> /\ pc[t] = "idle"
  BY DEF PutFirst, Begin
<1>5. \/ \E n \in Partitions \cup {-1} : Return(t, n) /\ expect' \in [Keys -> Contents \cup {NULL}]
      \/ Goto(t, "get_tail") /\ data' = [data EXCEPT ![t] = v] /\ UNCHANGED expect
  BY <1>0, <1>1 DEF CacheInv, ControlTyped
<1>6. ControlTyped'
  BY <1>0, <1>4, <1>5 DEF CacheInv, ControlTyped, Return, Goto, Steps, Results
<1>7. OthersKept(t)
  BY <1>4, <1>5 DEF CacheInv, ControlTyped, OthersKept, Return, Goto
<1>8. Local(t)' /\ pc'[t] \in {"idle", "get_tail"}
  BY <1>0, <1>4, <1>5 DEF CacheInv, ControlTyped, Local, Return, Goto
<1> QED BY <1>2, <1>3, <1>6, <1>7, <1>8, StepCloses

\* lru_cache_get_tail_node: the node to spill, if the partition has one.
LEMMA GetTailInv ==
  ASSUME CacheInv, ~ crashed, NEW t \in Threads, GetTail(t)
  PROVE  CacheInv'
<1> DEFINE p == PartOf[arg[t]]
           tail == lru_cache_get_tail_node(p)
<1>0. pc[t] = "get_tail" /\ arg[t] \in Keys /\ data[t] \in Contents /\ p \in Partitions
  BY LruAssumption DEF GetTail, CacheInv, Local
<1>1. LruTypeOK' /\ Sorted(order')
  BY StutterLists DEF GetTail, CacheInv
<1>2. DiskOK' /\ timed' = timed /\ registry' = registry
  BY StutterDisk DEF GetTail, CacheInv
<1>3. tail \in Keys \cup {NULL}
  BY <1>0, TailResident DEF CacheInv, lru_cache_get_tail_node
<1>4. /\ victim' = [victim EXCEPT ![t] = tail] /\ UNCHANGED <<arg, path, expect>>
      /\ \/ tail = NULL /\ Return(t, -1)
         \/ tail # NULL /\ Goto(t, "spill") /\ UNCHANGED data
  BY DEF GetTail
<1> HIDE DEF tail, p
<1>5. ControlTyped'
  BY <1>3, <1>4 DEF CacheInv, ControlTyped, Return, Goto, Steps, Results
<1>6. OthersKept(t)
  BY <1>4 DEF CacheInv, ControlTyped, OthersKept, Return, Goto
<1>7. Local(t)' /\ pc'[t] \in {"idle", "spill"}
  BY <1>0, <1>3, <1>4 DEF CacheInv, ControlTyped, Local, Return, Goto
<1> QED BY <1>1, <1>2, <1>5, <1>6, <1>7, StepCloses

\* cas_put of the tail: the path it writes is the one that will be registered,
\* and no other thread is about to register it, since cas_put fails on a path
\* that was written before.
LEMMA SpillInv ==
  ASSUME CacheInv, ~ crashed, NEW t \in Threads, Spill(t)
  PROVE  CacheInv'
<1> USE DEF OK, FAIL, SHORT, CRASH, CasCodes
<1>0. /\ pc[t] = "spill" /\ arg[t] \in Keys /\ data[t] \in Contents
      /\ victim[t] \in Keys \cup {Freed}
  BY DEF Spill, CacheInv, Local
<1>1. LruTypeOK' /\ Sorted(order')
  BY StutterLists DEF Spill, CacheInv
<1>2. victim' = [victim EXCEPT ![t] = NULL] /\ UNCHANGED <<arg, expect>>
  BY DEF Spill
<1>3. CASE Crash /\ UNCHANGED <<casVars, path>>
  <2>1. DiskOK' /\ timed' = timed /\ registry' = registry
    BY <1>3, StutterDisk DEF CacheInv
  <2>2. ControlTyped' /\ OthersKept(t) /\ crashed' /\ pc'[t] = pc[t]
    BY <1>2, <1>3 DEF CacheInv, ControlTyped, OthersKept, Crash
  <2> QED BY <1>0, <1>1, <2>1, <2>2, StepCloses
<1>4. ASSUME NEW x \in Pointee(t), NEW r \in CasCodes, cas_put(x[1], x[2], r),
             \/ r = CRASH /\ Crash /\ UNCHANGED path
             \/ /\ r = OK /\ Goto(t, "register")
                /\ path' = [path EXCEPT ![t] = x[1]]
                /\ UNCHANGED data
             \/ r \in {FAIL, SHORT} /\ Return(t, -1) /\ UNCHANGED path
      PROVE  CacheInv'
  <2> DEFINE j == x[1]
             w == x[2]
  <2>1. j \in Keys /\ w \in Contents \cup {NULL}
    BY <1>0, <1>4 DEF Pointee, CacheInv, LruTypeOK
  <2> HIDE DEF j, w
  <2>2. cas_put(j, w, r) /\ DiskOK
    BY <1>4 DEF j, w, CacheInv
  <2>3. /\ DiskOK' /\ UNCHANGED slots /\ FilesKept(j)
        /\ r = OK => ~ timed[j] /\ timed'[j]
        /\ r # OK => timed' = timed
        /\ timed[j] => timed'[j]
    BY <2>1, <2>2, CasPutDisk
  <2>4. registry' = registry /\ \A i \in Keys : timed[i] => timed'[i]
    BY <2>3 DEF slots, FilesKept
  <2>5. \/ r = CRASH /\ Crash /\ UNCHANGED path
        \/ /\ r = OK /\ Goto(t, "register")
           /\ path' = [path EXCEPT ![t] = j]
           /\ UNCHANGED data
        \/ r \in {FAIL, SHORT} /\ Return(t, -1) /\ UNCHANGED path
    BY <1>4 DEF j
  <2>6. ControlTyped'
    <3>1. /\ pc' \in [Threads -> Steps] /\ result' \in [Threads -> Results]
          /\ data' \in [Threads -> Contents \cup {NULL}] /\ crashed' \in BOOLEAN
      <4>1. -1 \in Results /\ "register" \in Steps /\ data \in [Threads -> Contents \cup {NULL}]
        BY DEF Results, Steps, CacheInv, ControlTyped
      <4> QED BY <2>5, <4>1, ControlStep DEF CacheInv
    <3>2. path' \in [Threads -> Keys \cup {NULL}]
      BY <2>1, <2>5 DEF CacheInv, ControlTyped
    <3> QED BY <1>2, <3>1, <3>2, ZenonT(60) DEF CacheInv, ControlTyped
  <2>7. OthersKept(t)
    BY <1>2, <2>5 DEF CacheInv, ControlTyped, OthersKept, Return, Goto, Crash
  <2>8. r = OK => j \notin Range(registry)
    BY <2>3 DEF CacheInv, DiskOK, RegistryIntact, Range
  <2>9. pc'[t] = "register" => r = OK /\ path'[t] = j
    BY <1>0, <2>5 DEF CacheInv, ControlTyped, Return, Goto, Crash
  <2>10. ~ crashed' => pc'[t] \in {"idle", "register"} /\ (pc'[t] = "register" => data' = data)
    BY <2>5 DEF CacheInv, ControlTyped, Return, Goto, Crash
  <2>11. ~ crashed' => Local(t)'
    BY <1>0, <1>2, <2>1, <2>3, <2>4, <2>8, <2>9, <2>10 DEF Local
  <2> QED BY <1>1, <2>3, <2>4, <2>6, <2>7, <2>9, <2>11, StepCloses
<1> QED BY <1>3, <1>4 DEF Spill

\* cas_add_to_registry of a path that is written and not registered yet.
LEMMA RegisterInv ==
  ASSUME CacheInv, ~ crashed, NEW t \in Threads, Register(t)
  PROVE  CacheInv'
<1>0. /\ pc[t] = "register" /\ arg[t] \in Keys /\ data[t] \in Contents
      /\ path[t] \in Keys /\ timed[path[t]] /\ path[t] \notin Range(registry)
  BY DEF Register, CacheInv, Local
<1>1. LruTypeOK' /\ Sorted(order')
  BY StutterLists DEF Register, CacheInv
<1>2. DiskOK' /\ UNCHANGED files /\ Range(registry') \subseteq Range(registry) \cup {path[t]}
  BY <1>0, AddToRegistryDisk DEF Register, CacheInv
<1>3. Goto(t, "drop_tail") /\ UNCHANGED <<arg, data, victim, path, expect>>
  BY DEF Register
<1>4. ControlTyped' /\ OthersKept(t)
  BY <1>3 DEF CacheInv, ControlTyped, OthersKept, Goto, Steps
<1>5. Local(t)' /\ pc'[t] = "drop_tail"
  BY <1>0, <1>3 DEF CacheInv, ControlTyped, Local, Goto
<1>6. timed' = timed
  BY <1>2 DEF files
<1> QED BY <1>0, <1>1, <1>2, <1>4, <1>5, <1>6, StepCloses

\* lru_cache_remove_tail frees the tail of now, which another thread may hold.
LEMMA DropTailInv ==
  ASSUME CacheInv, ~ crashed, NEW t \in Threads, DropTail(t)
  PROVE  CacheInv'
<1> DEFINE p == PartOf[arg[t]]
<1>0. pc[t] = "drop_tail" /\ arg[t] \in Keys /\ data[t] \in Contents /\ p \in Partitions
  BY LruAssumption DEF DropTail, CacheInv, Local
<1> HIDE DEF p
<1>1. LruTypeOK' /\ Sorted(order')
  <2>1. CASE UNCHANGED lruVars
    BY <2>1, StutterLists DEF CacheInv
  <2>2. CASE order[p] # << >> /\ Unlink(order[p][Len(order[p])])
    BY <1>0, <2>2, TailResident, UnlinkMemory DEF CacheInv, MemoryKept
  <2> QED BY <2>1, <2>2 DEF DropTail, lru_cache_remove_tail, p
<1>2. DiskOK' /\ timed' = timed /\ registry' = registry
  BY StutterDisk DEF DropTail, CacheInv
<1>3. /\ path' = [path EXCEPT ![t] = NULL] /\ Goto(t, "retry")
      /\ UNCHANGED <<arg, data, expect>>
  BY DEF DropTail
<1>4. victim' = victim \/ \E k : FreesNode(k)
  BY DEF DropTail
<1>5. /\ victim' \in [Threads -> Keys \cup {NULL, Freed}]
      /\ \A s \in Threads : victim'[s] \in {victim[s], Freed}
  BY <1>4 DEF CacheInv, ControlTyped, FreesNode
<1>6. ControlTyped' /\ OthersKept(t)
  BY <1>3, <1>5 DEF CacheInv, ControlTyped, OthersKept, Goto, Steps
<1>7. Local(t)' /\ pc'[t] = "retry"
  BY <1>0, <1>3 DEF CacheInv, ControlTyped, Local, Goto
<1> QED BY <1>1, <1>2, <1>6, <1>7, StepCloses

\* The second lru_cache_put ends the operation, whatever it returns.
LEMMA PutRetryInv ==
  ASSUME CacheInv, ~ crashed, NEW t \in Threads, PutRetry(t)
  PROVE  CacheInv'
<1> USE DEF OK, FAIL, FULL
<1>0. /\ pc[t] = "retry" /\ arg[t] \in Keys /\ data[t] \in Contents
      /\ PartOf[arg[t]] \in Partitions
  BY LruAssumption DEF PutRetry, CacheInv, Local
<1>1. PICK r \in {OK, FAIL, FULL} :
        /\ lru_cache_put(arg[t], data[t], r)
        /\ \/ /\ r = OK /\ Return(t, PartOf[arg[t]])
              /\ expect' = [expect EXCEPT ![arg[t]] = data[t]]
           \/ r # OK /\ Return(t, -1) /\ UNCHANGED expect
  BY DEF PutRetry
<1>2. LruTypeOK' /\ Sorted(order')
  BY <1>0, <1>1, PutMemory DEF CacheInv, MemoryKept
<1>3. DiskOK' /\ timed' = timed /\ registry' = registry
  BY StutterDisk DEF PutRetry, CacheInv
<1>4. UNCHANGED <<arg, victim, path>> /\ expect' \in [Keys -> Contents \cup {NULL}]
  BY <1>0, <1>1 DEF PutRetry, CacheInv, ControlTyped
<1>5. PICK n \in Partitions \cup {-1} : Return(t, n)
  BY <1>0, <1>1
<1>6. ControlTyped' /\ OthersKept(t)
  BY <1>4, <1>5 DEF CacheInv, ControlTyped, OthersKept, Return, Steps, Results
<1>7. Local(t)' /\ pc'[t] = "idle"
  BY <1>5 DEF CacheInv, ControlTyped, Local, Return
<1> QED BY <1>2, <1>3, <1>6, <1>7, StepCloses

\* pod_cache_get looks in memory first.
LEMMA GetMemoryInv ==
  ASSUME CacheInv, ~ crashed, NEW t \in Threads, NEW k \in Keys, GetMemory(t, k)
  PROVE  CacheInv'
<1> USE DEF OK, FAIL, MISS, CRASH
<1>0. PartOf[k] \in Partitions /\ pc[t] = "idle"
  BY LruAssumption DEF GetMemory, Begin
<1>1. PICK r \in {OK, FAIL, MISS, CRASH}, v \in {val[k], NULL} :
        /\ lru_cache_get(k, r, v)
        /\ \/ r = OK /\ Return(t, PartOf[k])
           \/ r = FAIL /\ Return(t, -1)
           \/ r = MISS /\ Goto(t, "read_disk") /\ UNCHANGED data
           \/ r = CRASH /\ Crash
  BY DEF GetMemory
<1>2. LruTypeOK' /\ Sorted(order')
  BY <1>1, GetKeepsMemory DEF CacheInv, MemoryKept
<1>3. DiskOK' /\ timed' = timed /\ registry' = registry
  BY StutterDisk DEF GetMemory, CacheInv
<1>4. arg' = [arg EXCEPT ![t] = k] /\ UNCHANGED <<victim, path, expect>>
  BY DEF GetMemory
<1>5. \/ \E n \in Partitions \cup {-1} : Return(t, n)
      \/ Goto(t, "read_disk") /\ UNCHANGED data
      \/ Crash
  BY <1>0, <1>1
<1>6. ControlTyped'
  <2>1. /\ pc' \in [Threads -> Steps] /\ result' \in [Threads -> Results]
        /\ data' \in [Threads -> Contents \cup {NULL}] /\ crashed' \in BOOLEAN
    <3>1. /\ Partitions \cup {-1} \subseteq Results /\ "read_disk" \in Steps
          /\ data \in [Threads -> Contents \cup {NULL}]
      BY DEF Results, Steps, CacheInv, ControlTyped
    <3> QED BY <1>5, <3>1, ControlStep DEF CacheInv
  <2> QED BY <1>4, <2>1, ZenonT(60) DEF CacheInv, ControlTyped
<1>7. OthersKept(t)
  BY <1>4, <1>5 DEF CacheInv, ControlTyped, OthersKept, Return, Goto, Crash
<1>8. Local(t)' /\ pc'[t] \in {"idle", "read_disk"}
  BY <1>0, <1>4, <1>5 DEF CacheInv, ControlTyped, Local, Return, Goto, Crash
<1> QED BY <1>2, <1>3, <1>6, <1>7, <1>8, StepCloses

\* A miss in memory reads the disk.
LEMMA ReadDiskInv ==
  ASSUME CacheInv, ~ crashed, NEW t \in Threads, ReadDisk(t)
  PROVE  CacheInv'
<1> USE DEF OK, FAIL, CRASH
<1>0. pc[t] = "read_disk" /\ arg[t] \in Keys
  BY DEF ReadDisk, CacheInv, Local
<1>1. PICK r \in {OK, FAIL, CRASH}, v \in Contents \cup {NULL} :
       /\ cas_get(arg[t], r, v)
       /\ \/ r = OK /\ Goto(t, "promote") /\ data' = [data EXCEPT ![t] = v]
          \/ r = FAIL /\ Return(t, -1)
          \/ r = CRASH /\ Crash
  <2>1. dat[arg[t]] \in Contents \cup {NULL}
    BY <1>0 DEF CacheInv, DiskOK, CasTypeOK
  <2> QED BY <2>1 DEF ReadDisk
<1>2. LruTypeOK' /\ Sorted(order')
  BY StutterLists DEF ReadDisk, CacheInv
<1>3. DiskOK' /\ timed' = timed /\ registry' = registry
  BY <1>1, StutterDisk DEF cas_get, CacheInv
<1>4. UNCHANGED <<arg, victim, path, expect>> /\ (r = OK => v \in Contents)
  BY <1>1 DEF ReadDisk, cas_get
<1>5. ControlTyped'
  <2>1. /\ pc' \in [Threads -> Steps] /\ result' \in [Threads -> Results]
        /\ data' \in [Threads -> Contents \cup {NULL}] /\ crashed' \in BOOLEAN
    <3>1. /\ -1 \in Results /\ "promote" \in Steps
          /\ data \in [Threads -> Contents \cup {NULL}]
          /\ [data EXCEPT ![t] = v] \in [Threads -> Contents \cup {NULL}]
      BY DEF Results, Steps, CacheInv, ControlTyped
    <3> QED BY <1>1, <3>1, ControlStep DEF CacheInv
  <2> QED BY <1>4, <2>1 DEF CacheInv, ControlTyped
<1>6. OthersKept(t)
  BY <1>1, <1>4 DEF CacheInv, ControlTyped, OthersKept, Return, Goto, Crash
<1>7. Local(t)' /\ pc'[t] # "register"
  BY <1>0, <1>1, <1>4 DEF CacheInv, ControlTyped, Local, Return, Goto, Crash
<1> QED BY <1>2, <1>3, <1>5, <1>6, <1>7, StepCloses

\* What was read goes back to memory,
LEMMA PromoteInv ==
  ASSUME CacheInv, ~ crashed, NEW t \in Threads, Promote(t)
  PROVE  CacheInv'
<1>0. pc[t] = "promote" /\ arg[t] \in Keys /\ data[t] \in Contents
  BY DEF Promote, CacheInv, Local
<1>1. LruTypeOK' /\ Sorted(order')
  BY <1>0, PutMemory DEF Promote, CacheInv, MemoryKept
<1>2. DiskOK' /\ timed' = timed /\ registry' = registry
  BY StutterDisk DEF Promote, CacheInv
<1>3. Goto(t, "unspill") /\ UNCHANGED <<arg, data, victim, path, expect>>
  BY DEF Promote
<1>4. ControlTyped' /\ OthersKept(t)
  BY <1>3 DEF CacheInv, ControlTyped, OthersKept, Goto, Steps
<1>5. Local(t)' /\ pc'[t] = "unspill"
  BY <1>0, <1>3 DEF CacheInv, ControlTyped, Local, Goto
<1> QED BY <1>1, <1>2, <1>4, <1>5, StepCloses

\* and leaves the disk, stored in memory or not.
LEMMA UnspillInv ==
  ASSUME CacheInv, ~ crashed, NEW t \in Threads, Unspill(t)
  PROVE  CacheInv'
<1>0. pc[t] = "unspill" /\ arg[t] \in Keys
  BY DEF Unspill, CacheInv, Local
<1>1. LruTypeOK' /\ Sorted(order')
  BY StutterLists DEF Unspill, CacheInv
<1>2. PICK r \in {OK, FAIL, CRASH} : cas_evict(arg[t], r) /\ (Crash \/ Return(t, 0))
  BY DEF Unspill
<1>3. DiskOK' /\ timed' = timed /\ registry' = registry
  BY <1>0, <1>2, CasEvictDisk DEF CacheInv
<1>4. UNCHANGED <<arg, victim, path, expect>>
  BY DEF Unspill
<1>5. ControlTyped' /\ OthersKept(t)
  BY <1>2, <1>4 DEF CacheInv, ControlTyped, OthersKept, Return, Crash, Steps, Results
<1>6. pc'[t] # "register" /\ (~ crashed' => Local(t)')
  BY <1>0, <1>2, <1>4 DEF CacheInv, ControlTyped, Local, Return, Crash
<1> QED BY <1>1, <1>3, <1>5, <1>6, StepCloses

\* pod_cache_evict: the node, if there is one, is freed.
LEMMA EvictMemoryInv ==
  ASSUME CacheInv, ~ crashed, NEW t \in Threads, NEW k \in Keys, EvictMemory(t, k)
  PROVE  CacheInv'
<1> USE DEF OK, MISS
<1>0. pc[t] = "idle"
  BY DEF EvictMemory, Begin
<1>1. PICK r \in {OK, MISS} :
       /\ lru_cache_evict(k, r)
       /\ \/ /\ r = OK /\ Return(t, 1)
             /\ FreesNode(k)
             /\ expect' = [expect EXCEPT ![k] = NULL]
          \/ r = MISS /\ Goto(t, "evict_disk") /\ UNCHANGED <<data, victim, expect>>
  BY DEF EvictMemory
<1>2. LruTypeOK' /\ Sorted(order')
  <2>1. CASE UNCHANGED lruVars
    BY <2>1, StutterLists DEF CacheInv
  <2>2. CASE Unlink(k)
    BY <2>2, UnlinkMemory DEF CacheInv, MemoryKept
  <2> QED BY <1>1, <2>1, <2>2 DEF lru_cache_evict
<1>3. DiskOK' /\ timed' = timed /\ registry' = registry
  BY StutterDisk DEF EvictMemory, CacheInv
<1>4. arg' = [arg EXCEPT ![t] = k] /\ UNCHANGED path
  BY DEF EvictMemory
<1>5. /\ victim' \in [Threads -> Keys \cup {NULL, Freed}]
      /\ \A s \in Threads : victim'[s] \in {victim[s], Freed}
      /\ expect' \in [Keys -> Contents \cup {NULL}]
  BY <1>1 DEF CacheInv, ControlTyped, FreesNode
<1>6. Return(t, 1) \/ (Goto(t, "evict_disk") /\ UNCHANGED data)
  BY <1>1
<1>7. ControlTyped' /\ OthersKept(t)
  BY <1>4, <1>5, <1>6 DEF CacheInv, ControlTyped, OthersKept, Return, Goto, Steps, Results
<1>8. Local(t)' /\ pc'[t] # "register"
  BY <1>4, <1>6 DEF CacheInv, ControlTyped, Local, Return, Goto
<1> QED BY <1>2, <1>3, <1>7, <1>8, StepCloses

\* If there is none, the file.
LEMMA EvictDiskInv ==
  ASSUME CacheInv, ~ crashed, NEW t \in Threads, EvictDisk(t)
  PROVE  CacheInv'
<1>0. pc[t] = "evict_disk" /\ arg[t] \in Keys
  BY DEF EvictDisk, CacheInv, Local
<1>1. LruTypeOK' /\ Sorted(order')
  BY StutterLists DEF EvictDisk, CacheInv
<1>2. PICK r \in {OK, FAIL, CRASH} :
        /\ cas_evict(arg[t], r)
        /\ Crash \/ Return(t, 0) \/ Return(t, 1)
        /\ expect' = expect \/ expect' = [expect EXCEPT ![arg[t]] = NULL]
  BY DEF EvictDisk
<1>3. DiskOK' /\ timed' = timed /\ registry' = registry
  BY <1>0, <1>2, CasEvictDisk DEF CacheInv
<1>4. UNCHANGED <<arg, victim, path>>
  BY DEF EvictDisk
<1>5. ControlTyped' /\ OthersKept(t)
  BY <1>2, <1>4 DEF CacheInv, ControlTyped, OthersKept, Return, Crash, Steps, Results
<1>6. pc'[t] # "register" /\ (~ crashed' => Local(t)')
  BY <1>0, <1>2, <1>4 DEF CacheInv, ControlTyped, Local, Return, Crash
<1> QED BY <1>1, <1>3, <1>5, <1>6, StepCloses

\* Every call of every thread keeps the invariant.
LEMMA NextCacheInv == CacheInv /\ [Next]_vars => CacheInv'
<1> SUFFICES ASSUME CacheInv, [Next]_vars PROVE CacheInv'
  OBVIOUS
<1>1. CASE UNCHANGED vars
  <2>1. UNCHANGED <<lruVars, casVars>> /\ UNCHANGED <<pc, arg, data, victim, path, result, crashed, expect>>
    BY <1>1 DEF vars, lruVars, casVars
  <2>2. ControlTyped' /\ LruTypeOK' /\ Sorted(order') /\ DiskOK' /\ timed' = timed /\ registry' = registry
    BY <2>1, StutterLists, StutterDisk DEF CacheInv, ControlTyped
  <2>3. ~ crashed' => Registering' /\ \A t \in Threads : Local(t)'
    BY <2>1, <2>2 DEF CacheInv, Registering, Local
  <2> QED BY <2>2, <2>3 DEF CacheInv
<1>2. ASSUME ~ crashed, NEW t \in Threads, Step(t) PROVE CacheInv'
  BY <1>2, PutFirstInv, GetMemoryInv, EvictMemoryInv, GetTailInv, SpillInv, RegisterInv, DropTailInv,
     PutRetryInv, ReadDiskInv, PromoteInv, UnspillInv, EvictDiskInv DEF Step
<1> QED BY <1>1, <1>2 DEF Next, Stopped

\* CacheInv, as an invariant of the specification.
LEMMA AlwaysCacheInv == Spec => []CacheInv
BY InitCacheInv, NextCacheInv, PTL DEF Spec

\* pod_cache.c with any number of client threads whose calls interleave, and with
\* failing allocations and system calls: every variable keeps its type.
THEOREM CacheTypes == Spec => []TypeOK
BY AlwaysCacheInv, CacheInvImplies, PTL

\* With any number of threads and all faults, the registry of cas.c holds no path
\* twice and no freed string, and everything it lists is still on disk.
THEOREM RegistryIsIntact == Spec => []RegistryIntact
BY AlwaysCacheInv, CacheInvImplies, PTL

-----------------------------------------------------------------------------
(* The bounds of the registry.                                             *)

\* There is always a free slot, and the capacity is that of the array.
Roomy == Len(registry) < capacity /\ allocated = capacity

\* A step changes the slots of the registry only through cas_add_to_registry.
LEMMA SlotsStep ==
  ASSUME CacheInv, [Next]_vars
  PROVE  UNCHANGED slots \/ \E k, r : cas_add_to_registry(k, r)
<1>1. CASE UNCHANGED vars
  BY <1>1 DEF vars, slots
<1>2. ASSUME NEW t \in Threads, UNCHANGED casVars PROVE UNCHANGED slots
  BY <1>2 DEF casVars, slots
<1>3. ASSUME ~ crashed, NEW t \in Threads, ReadDisk(t) PROVE UNCHANGED slots
  BY <1>3 DEF ReadDisk, cas_get, casVars, slots
<1>4. ASSUME ~ crashed, NEW t \in Threads, Spill(t) PROVE UNCHANGED slots
  BY <1>4 DEF Spill, cas_put, casVars, slots
<1>5. ASSUME ~ crashed, NEW t \in Threads, Unspill(t) \/ EvictDisk(t) PROVE UNCHANGED slots
  <2>1. arg[t] \in Keys
    BY <1>5 DEF Unspill, EvictDisk, CacheInv, Local
  <2>2. PICK r : cas_evict(arg[t], r)
    BY <1>5 DEF Unspill, EvictDisk
  <2> QED BY <2>1, <2>2, CasEvictDisk DEF CacheInv, slots
<1>6. ASSUME ~ crashed, NEW t \in Threads, Step(t)
      PROVE  UNCHANGED slots \/ \E k, r : cas_add_to_registry(k, r)
  BY <1>2, <1>3, <1>4, <1>5, <1>6
     DEF Step, PutFirst, GetMemory, EvictMemory, GetTail, Register, DropTail, PutRetry, Promote
<1> QED BY <1>1, <1>6 DEF Next, Stopped

\* Doubling before the last slot is taken always leaves one free.
LEMMA AddKeepsRoom ==
  ASSUME CasTypeOK, Roomy, ~ MemMayFail, NEW k, NEW r, cas_add_to_registry(k, r)
  PROVE  Roomy'
<1>1. /\ Len(registry) \in Nat /\ capacity \in Nat /\ allocated \in Nat
      /\ registry' = Append(registry, k)
  BY DEF CasTypeOK, cas_add_to_registry
<1>2. Len(registry') = Len(registry) + 1
  BY <1>1 DEF CasTypeOK
<1>3. CASE Len(registry) + 1 >= capacity
  BY <1>1, <1>2, <1>3 DEF cas_add_to_registry, Roomy
<1>4. CASE ~ (Len(registry) + 1 >= capacity)
  BY <1>1, <1>2, <1>4 DEF cas_add_to_registry, Roomy
<1> QED BY <1>3, <1>4

\* When realloc does not fail, cas_add_to_registry never writes past the array,
\* however many threads spill.
THEOREM RegistryStaysInBounds ==
  ASSUME ~ MemMayFail PROVE Spec => []RegistryInBounds
<1>1. Init => Roomy
  BY CasAssumption DEF Init, CasInit, Roomy
<1>2. CacheInv /\ Roomy /\ [Next]_vars => Roomy'
  <2> SUFFICES ASSUME CacheInv, Roomy, [Next]_vars PROVE Roomy'
    OBVIOUS
  <2>1. CASE UNCHANGED slots
    BY <2>1 DEF Roomy, slots
  <2>2. CasTypeOK
    BY DEF CacheInv, DiskOK
  <2> QED BY <2>1, <2>2, SlotsStep, AddKeepsRoom
<1>3. CacheInv /\ Roomy => RegistryInBounds
  BY DEF CacheInv, DiskOK, CasTypeOK, Roomy, RegistryInBounds
<1> QED BY <1>1, <1>2, <1>3, AlwaysCacheInv, PTL DEF Spec

-----------------------------------------------------------------------------
(* One thread.                                                             *)

\* At most one thread works on the cache.
Alone == \A s, t \in Threads : s = t

\* What thread t knows between two calls, if no other thread runs in between.
SoloLocal(t) ==
  /\ pc[t] = "spill" /\ ~ crashed =>
       victim[t] \in Keys /\ victim[t] = lru_cache_get_tail_node(PartOf[arg[t]])
  /\ pc[t] \in {"register", "drop_tail"} =>
       /\ arg[t] \in Keys /\ path[t] \in Keys
       /\ lru_cache_get_tail_node(PartOf[arg[t]]) = path[t]
       /\ val[path[t]] # NULL
       /\ dat[path[t]] \in Written(val[path[t]])
  /\ pc[t] \in {"read_disk", "promote", "evict_disk"} => ~ Resident(arg[t])
  /\ pc[t] = "promote" => data[t] = dat[arg[t]]
  /\ pc[t] = "unspill" /\ ~ MemMayFail => Resident(arg[t]) \/ NoRoom(arg[t], data[t])

\* It of every thread.
SoloLocals == \A t \in Threads : SoloLocal(t)

\* A reader of k finds what it found before, or what the disk truncated.
Kept(k) == Lookup(k)' = Lookup(k) \/ (IoMayFail /\ Lookup(k)' = Torn)

\* A step of t changes what is expected and found of no key but the argument k
\* of its operation; of that it leaves what is expected, nothing, or what was
\* there.
KeyStep(t, k) ==
  /\ arg'[t] = k
  /\ \A j \in Keys : j # k => expect'[j] = expect[j] /\ Kept(j)
  /\ \/ expect'[k] = NULL
     \/ Lookup(k)' \in {expect'[k], NULL}
     \/ expect'[k] = expect[k] /\ Kept(k)

\* Without faults, a step that loses the argument's value is part of a DEL, or of
\* a GET that had no room for it.
LossStep(t, k) ==
  ~ MemMayFail /\ ~ IoMayFail /\ Lookup(k) # NULL /\ Lookup(k)' = NULL =>
    \/ pc[t] = "idle" /\ result'[t] = 1 /\ expect'[k] = NULL
    \/ pc[t] = "evict_disk"
    \/ pc[t] = "unspill" /\ data[t] # NULL /\ NoRoom(k, data[t])

\* Making room in memory leaves every reader what it found.
RoomStep(t) ==
  pc[t] \in {"get_tail", "spill", "register", "drop_tail"} => \A j \in Keys : Kept(j)

\* What a step of the only thread t is.
SoloStep(t) ==
  SoloLocal(t)' /\ RoomStep(t) /\ \E k \in Keys : KeyStep(t, k) /\ LossStep(t, k)

\* What a reader finds depends on the lists, the values and the files.
LEMMA ReadersAlike ==
  ASSUME UNCHANGED <<order, val, dat>>
  PROVE  \A k \in Keys : (Resident(k)' <=> Resident(k)) /\ Lookup(k)' = Lookup(k)
BY DEF Lookup, Resident, At

\* A call that changes nothing a reader or the history sees.
LEMMA QuietStep ==
  ASSUME NEW t \in Threads, NEW k \in Keys, arg'[t] = k, expect' = expect,
         \A j \in Keys : Lookup(j)' = Lookup(j)
  PROVE  KeyStep(t, k) /\ LossStep(t, k)
BY DEF KeyStep, LossStep, Kept

\* The lru_cache_put of a SET.
LEMMA StoreStep ==
  ASSUME CacheInv, NEW t \in Threads, NEW k \in Keys, NEW v \in Contents, NEW r,
         lru_cache_put(k, v, r), dat' = dat, arg'[t] = k,
         r = OK => expect' = [expect EXCEPT ![k] = v],
         r # OK => expect' = expect
  PROVE  KeyStep(t, k) /\ LossStep(t, k)
<1> USE DEF OK, FULL
<1>1. /\ \A j \in Keys : j # k => (Resident(j)' <=> Resident(j)) /\ val'[j] = val[j]
      /\ r = OK => Resident(k)' /\ val'[k] = v
      /\ r # OK => order' = order /\ val'[k] \in {val[k], NULL}
      /\ ~ MemMayFail => r \in {OK, FULL}
      /\ r = FULL => UNCHANGED lruVars
  BY PutMemory DEF CacheInv, MemoryKept
<1>2. \A j \in Keys : j # k => Lookup(j)' = Lookup(j) /\ expect'[j] = expect[j]
  BY <1>1 DEF Lookup, CacheInv, ControlTyped
<1>3. CASE r = OK
  <2>1. Lookup(k)' = v /\ expect'[k] = v /\ v # NULL
    BY <1>1, <1>3, DataAssumption DEF Lookup, CacheInv, ControlTyped
  <2> QED BY <1>2, <2>1 DEF KeyStep, LossStep, Kept
<1>4. CASE r # OK
  <2>1. Lookup(k)' \in {Lookup(k), NULL} /\ expect'[k] = expect[k]
    BY <1>1, <1>4 DEF Lookup, Resident, At
  <2>2. r = FULL => Lookup(k)' = Lookup(k)
    BY <1>1, ReadersAlike DEF lruVars
  <2>3. KeyStep(t, k)
    BY <1>2, <2>1 DEF KeyStep, Kept
  <2>4. LossStep(t, k)
    BY <1>1, <1>4, <2>2 DEF LossStep
  <2> QED BY <2>3, <2>4
<1> QED BY <1>3, <1>4

\* A SET stores its own key, or nothing yet.
LEMMA PutFirstSolo ==
  ASSUME CacheInv, ~ crashed, NEW t \in Threads, NEW k \in Keys, NEW v \in Values,
         PutFirst(t, k, v)
  PROVE  SoloStep(t)
<1> USE DEF OK, FAIL, FULL
<1>0. v \in Contents
  BY DEF Contents
<1>1. PICK r \in {OK, FAIL, FULL} :
        /\ lru_cache_put(k, v, r)
        /\ r = OK => Return(t, PartOf[k]) /\ expect' = [expect EXCEPT ![k] = v]
        /\ r # OK => (Return(t, -1) \/ Goto(t, "get_tail")) /\ expect' = expect
  BY DEF PutFirst
<1>2. arg'[t] = k /\ dat' = dat
  BY DEF PutFirst, casVars, CacheInv, ControlTyped
<1>3. pc'[t] \in {"idle", "get_tail"}
  BY <1>1 DEF Return, Goto, CacheInv, ControlTyped
<1>4. SoloLocal(t)'
  BY <1>3 DEF SoloLocal
<1>5. KeyStep(t, k) /\ LossStep(t, k)
  BY <1>0, <1>1, <1>2, StoreStep
<1> QED BY <1>4, <1>5 DEF SoloStep, RoomStep, PutFirst, Begin

\* Its retry does the same.
LEMMA PutRetrySolo ==
  ASSUME CacheInv, ~ crashed, NEW t \in Threads, PutRetry(t)
  PROVE  SoloStep(t)
<1> USE DEF OK, FAIL, FULL
<1>1. PICK k \in Keys, v \in Contents : k = arg[t] /\ v = data[t]
  BY DEF PutRetry, CacheInv, Local
<1>2. arg'[t] = k /\ dat' = dat
  BY <1>1 DEF PutRetry, casVars
<1>3. PICK r \in {OK, FAIL, FULL} :
        /\ lru_cache_put(k, v, r)
        /\ r = OK => Return(t, PartOf[k]) /\ expect' = [expect EXCEPT ![k] = v]
        /\ r # OK => Return(t, -1) /\ expect' = expect
  BY <1>1 DEF PutRetry
<1>4. pc'[t] = "idle"
  BY <1>3 DEF Return, CacheInv, ControlTyped
<1>5. SoloLocal(t)'
  BY <1>4 DEF SoloLocal
<1>6. KeyStep(t, k) /\ LossStep(t, k)
  BY <1>2, <1>3, StoreStep
<1> QED BY <1>5, <1>6 DEF SoloStep, RoomStep, PutRetry

\* The tail that was looked up is the tail.
LEMMA GetTailSolo ==
  ASSUME CacheInv, ~ crashed, NEW t \in Threads, GetTail(t)
  PROVE  SoloStep(t)
<1>1. PICK k \in Keys : k = arg[t]
  BY DEF GetTail, CacheInv, Local
<1>2. PICK p \in Partitions : p = PartOf[k]
  BY LruAssumption
<1>3. UNCHANGED <<lruVars, casVars, arg, expect>> /\ arg'[t] = k
  BY <1>1 DEF GetTail
<1>4. lru_cache_get_tail_node(p) # NULL => lru_cache_get_tail_node(p) \in Keys
  BY TailResident DEF CacheInv, lru_cache_get_tail_node
<1>5. /\ pc'[t] \in {"idle", "spill"} /\ victim'[t] = lru_cache_get_tail_node(p)
      /\ pc'[t] = "spill" => lru_cache_get_tail_node(p) # NULL
  BY <1>1, <1>2 DEF GetTail, Return, Goto, CacheInv, ControlTyped
<1>6. lru_cache_get_tail_node(p)' = lru_cache_get_tail_node(p)
  BY <1>3 DEF lruVars, lru_cache_get_tail_node
<1>7. SoloLocal(t)'
  BY <1>2, <1>3, <1>4, <1>5, <1>6 DEF SoloLocal, lru_cache_get_tail_node
<1>8. \A j \in Keys : Lookup(j)' = Lookup(j)
  BY <1>3, ReadersAlike DEF lruVars, casVars
<1>9. KeyStep(t, k) /\ LossStep(t, k)
  BY <1>3, <1>8, QuietStep
<1> QED BY <1>7, <1>8, <1>9 DEF SoloStep, RoomStep, Kept

\* Its value is on disk now, perhaps truncated; readers still find it in memory.
LEMMA SpillSolo ==
  ASSUME CacheInv, ~ crashed, NEW t \in Threads, SoloLocal(t), Spill(t)
  PROVE  SoloStep(t)
<1> USE DEF OK, FAIL, SHORT, CRASH, CasCodes
<1>1. PICK a \in Keys : a = arg[t]
  BY DEF Spill, CacheInv, Local
<1>2. PICK p \in Partitions : p = PartOf[a]
  BY LruAssumption
<1>3. PICK k \in Keys : k = victim[t] /\ k = lru_cache_get_tail_node(p)
  BY <1>1, <1>2 DEF Spill, SoloLocal
<1>4. pc[t] = "spill" /\ UNCHANGED <<lruVars, arg, expect>> /\ arg'[t] = a
  BY <1>1 DEF Spill
<1>5. order[p] # << >> /\ k # Freed
  BY <1>3, DataAssumption, CasAssumption DEF lru_cache_get_tail_node
<1>6. Resident(k)
  BY <1>3, <1>5, TailResident DEF CacheInv
<1>7. PICK r \in CasCodes :
        /\ cas_put(k, val[k], r)
        /\ \/ r = CRASH /\ Crash /\ UNCHANGED path
           \/ /\ r = OK /\ Goto(t, "register")
              /\ path' = [path EXCEPT ![t] = k]
           \/ r \in {FAIL, SHORT} /\ Return(t, -1)
  BY <1>3, <1>5 DEF Spill, Pointee
<1>8. DiskOK /\ val[k] \in Contents \cup {NULL}
  BY DEF CacheInv, LruTypeOK
<1>9. /\ FilesKept(k)
      /\ r = OK => val[k] # NULL /\ dat'[k] \in Written(val[k])
  BY <1>7, <1>8, CasPutDisk
<1>10. \A j \in Keys : (Resident(j)' <=> Resident(j)) /\ val'[j] = val[j]
  BY <1>4 DEF lruVars, Resident, At
<1>11. \A j \in Keys : Lookup(j)' = Lookup(j)
  BY <1>6, <1>9, <1>10 DEF Lookup, FilesKept
<1>12. KeyStep(t, a) /\ LossStep(t, a)
  BY <1>4, <1>11, QuietStep
<1>13. /\ pc'[t] \in {"idle", "register"} \/ (pc'[t] = "spill" /\ crashed')
       /\ pc'[t] = "register" => r = OK /\ path'[t] = k
  BY <1>4, <1>7 DEF Return, Goto, Crash, CacheInv, ControlTyped
<1>14. lru_cache_get_tail_node(p)' = k /\ val' = val
  BY <1>3, <1>4 DEF lruVars, lru_cache_get_tail_node
<1>15. SoloLocal(t)'
  BY <1>2, <1>4, <1>9, <1>13, <1>14 DEF SoloLocal, lru_cache_get_tail_node
<1> QED BY <1>11, <1>12, <1>15 DEF SoloStep, RoomStep, Kept

\* Registering the path changes nothing a reader sees.
LEMMA RegisterSolo ==
  ASSUME CacheInv, ~ crashed, NEW t \in Threads, SoloLocal(t), Register(t)
  PROVE  SoloStep(t)
<1>1. PICK k \in Keys : k = arg[t]
  BY DEF Register, CacheInv, Local
<1>2. /\ pc[t] = "register" /\ arg'[t] = k
      /\ UNCHANGED <<lruVars, arg, path, expect>> /\ UNCHANGED files
  BY <1>1 DEF Register, cas_add_to_registry
<1>3. pc'[t] = "drop_tail"
  BY DEF Register, Goto, CacheInv, ControlTyped
<1>4. SoloLocal(t)'
  BY <1>2, <1>3 DEF SoloLocal, lruVars, files, lru_cache_get_tail_node
<1>5. \A j \in Keys : Lookup(j)' = Lookup(j)
  BY <1>2, ReadersAlike DEF lruVars, files
<1>6. KeyStep(t, k) /\ LossStep(t, k)
  BY <1>2, <1>5, QuietStep
<1> QED BY <1>4, <1>5, <1>6 DEF SoloStep, RoomStep, Kept

\* The node that goes is the one whose value is on disk.
LEMMA DropTailSolo ==
  ASSUME CacheInv, ~ crashed, NEW t \in Threads, SoloLocal(t), DropTail(t)
  PROVE  SoloStep(t)
<1>1. PICK a \in Keys : a = arg[t]
  BY DEF DropTail, CacheInv, Local
<1>2. PICK p \in Partitions : p = PartOf[a]
  BY LruAssumption
<1>3. PICK k \in Keys : /\ k = path[t] /\ lru_cache_get_tail_node(p) = k
                        /\ val[k] # NULL /\ dat[k] \in Written(val[k])
  BY <1>1, <1>2 DEF DropTail, SoloLocal
<1>4. arg'[t] = a /\ expect' = expect /\ dat' = dat
  BY <1>1 DEF DropTail, casVars
<1>5. order[p] # << >>
  BY <1>3, DataAssumption DEF lru_cache_get_tail_node
<1>6. order[p][Len(order[p])] = k
  BY <1>3, <1>5 DEF lru_cache_get_tail_node
<1>7. Unlink(k)
  BY <1>1, <1>2, <1>5, <1>6 DEF DropTail, lru_cache_remove_tail
<1>8. MemoryKept(k) /\ ~ Resident(k)' /\ Resident(k)
  BY <1>7, UnlinkMemory DEF CacheInv
<1>9. Kept(k)
  BY <1>3, <1>4, <1>8 DEF Kept, Lookup, Written
<1>10. \A j \in Keys : j # k => Kept(j)
  BY <1>4, <1>8 DEF MemoryKept, Kept, Lookup
<1>11. KeyStep(t, a) /\ LossStep(t, a)
  <2>1. \A j \in Keys : Kept(j)
    BY <1>9, <1>10
  <2> QED BY <1>4, <2>1 DEF KeyStep, LossStep, Kept
<1>12. pc'[t] = "retry"
  BY DEF DropTail, Goto, CacheInv, ControlTyped
<1>13. SoloLocal(t)'
  BY <1>12 DEF SoloLocal
<1> QED BY <1>9, <1>10, <1>11, <1>13 DEF SoloStep, RoomStep

\* A GET that hits or misses memory changes no value.
LEMMA GetMemorySolo ==
  ASSUME CacheInv, ~ crashed, NEW t \in Threads, NEW k \in Keys, GetMemory(t, k)
  PROVE  SoloStep(t)
<1> USE DEF OK, FAIL, MISS, CRASH
<1>0. arg'[t] = k /\ expect' = expect /\ dat' = dat /\ pc[t] = "idle"
  BY DEF GetMemory, Begin, casVars, CacheInv, ControlTyped
<1>1. PICK r, v :
        /\ lru_cache_get(k, r, v)
        /\ \/ r = OK /\ Return(t, PartOf[k])
           \/ r = FAIL /\ Return(t, -1)
           \/ r = MISS /\ Goto(t, "read_disk") /\ UNCHANGED data
           \/ r = CRASH /\ Crash
  BY DEF GetMemory
<1>2. /\ val' = val
      /\ \A j \in Keys : Resident(j)' <=> Resident(j)
      /\ r = MISS => ~ Resident(k)
  BY <1>1, GetKeepsMemory DEF CacheInv
<1>3. pc'[t] = "idle" \/ (pc'[t] = "read_disk" /\ r = MISS)
  BY <1>0, <1>1 DEF Return, Goto, Crash, CacheInv, ControlTyped
<1>4. SoloLocal(t)'
  BY <1>0, <1>2, <1>3 DEF SoloLocal
<1>5. \A j \in Keys : Lookup(j)' = Lookup(j)
  BY <1>0, <1>2 DEF Lookup
<1>6. KeyStep(t, k) /\ LossStep(t, k)
  BY <1>0, <1>5, QuietStep
<1> QED BY <1>0, <1>4, <1>6 DEF SoloStep, RoomStep

\* What is read is what is on disk.
LEMMA ReadDiskSolo ==
  ASSUME CacheInv, ~ crashed, NEW t \in Threads, SoloLocal(t), ReadDisk(t)
  PROVE  SoloStep(t)
<1> USE DEF OK, FAIL, CRASH
<1>1. PICK k \in Keys : k = arg[t]
  BY DEF ReadDisk, CacheInv, Local
<1>2. /\ pc[t] = "read_disk" /\ ~ Resident(k)
      /\ UNCHANGED <<lruVars, arg, expect>> /\ arg'[t] = k
  BY <1>1 DEF ReadDisk, SoloLocal
<1>3. PICK r, v :
       /\ cas_get(k, r, v)
       /\ \/ r = OK /\ Goto(t, "promote") /\ data' = [data EXCEPT ![t] = v]
          \/ r = FAIL /\ Return(t, -1)
          \/ r = CRASH /\ Crash
  BY <1>1 DEF ReadDisk
<1>4. dat' = dat /\ (r = OK => v = dat[k])
  BY <1>3 DEF cas_get, casVars
<1>5. \/ pc'[t] = "idle"
      \/ pc'[t] = "promote" /\ r = OK /\ data'[t] = v
      \/ pc'[t] = "read_disk"
  BY <1>2, <1>3 DEF Return, Goto, Crash, CacheInv, ControlTyped
<1>6. \A j \in Keys : (Resident(j)' <=> Resident(j)) /\ Lookup(j)' = Lookup(j)
  BY <1>2, <1>4, ReadersAlike DEF lruVars
<1>7. ~ Resident(arg[t])'
  BY <1>1, <1>2 DEF Resident, At, lruVars
<1>8. SoloLocal(t)'
  BY <1>2, <1>4, <1>5, <1>7 DEF SoloLocal
<1>9. KeyStep(t, k) /\ LossStep(t, k)
  BY <1>2, <1>6, QuietStep
<1> QED BY <1>2, <1>8, <1>9 DEF SoloStep, RoomStep

\* The copy in memory is the one on disk.
LEMMA PromoteSolo ==
  ASSUME CacheInv, ~ crashed, NEW t \in Threads, SoloLocal(t), Promote(t)
  PROVE  SoloStep(t)
<1> USE DEF OK, FAIL, FULL
<1>1. PICK k \in Keys, v \in Contents : k = arg[t] /\ v = data[t]
  BY DEF Promote, CacheInv, Local
<1>2. /\ ~ Resident(k) /\ v = dat[k]
      /\ UNCHANGED <<arg, data, expect>> /\ dat' = dat
      /\ arg'[t] = k /\ data'[t] = v
  BY <1>1 DEF Promote, SoloLocal, casVars
<1>3. PICK r \in {OK, FAIL, FULL} : lru_cache_put(k, v, r)
  BY <1>1 DEF Promote
<1>4. pc'[t] = "unspill"
  BY DEF Promote, Goto, CacheInv, ControlTyped
<1>5. /\ \A j \in Keys : j # k => (Resident(j)' <=> Resident(j)) /\ val'[j] = val[j]
      /\ r = OK => Resident(k)' /\ val'[k] = v
      /\ r # OK => order' = order
      /\ ~ MemMayFail => r \in {OK, FULL}
      /\ r = FULL => NoRoom(k, v) /\ UNCHANGED lruVars
  BY <1>3, PutMemory DEF CacheInv, MemoryKept
<1>6. r # OK => ~ Resident(k)'
  BY <1>2, <1>5 DEF Resident, At
<1>7. \A j \in Keys : Lookup(j)' = Lookup(j)
  BY <1>2, <1>5, <1>6 DEF Lookup
<1>8. ~ MemMayFail => Resident(k)' \/ NoRoom(k, v)'
  BY <1>5 DEF NoRoom, lruVars
<1>9. SoloLocal(t)'
  BY <1>2, <1>4, <1>8 DEF SoloLocal, NoRoom, Resident, At
<1>10. KeyStep(t, k) /\ LossStep(t, k)
  BY <1>2, <1>7, QuietStep
<1> QED BY <1>9, <1>10 DEF SoloStep, RoomStep, Promote

\* Without the file a reader finds the copy, or nothing if there was no room.
LEMMA UnspillSolo ==
  ASSUME CacheInv, ~ crashed, NEW t \in Threads, SoloLocal(t), Unspill(t)
  PROVE  SoloStep(t)
<1>1. PICK k \in Keys : k = arg[t]
  BY DEF Unspill, CacheInv, Local
<1>2. /\ data[t] # NULL /\ pc[t] = "unspill"
      /\ UNCHANGED <<lruVars, arg, expect>> /\ arg'[t] = k
  BY <1>1, DataAssumption DEF Unspill, CacheInv, Local
<1>3. PICK r : cas_evict(k, r) /\ (Crash \/ Return(t, 0))
  BY <1>1 DEF Unspill
<1>4. ~ MemMayFail => Resident(k) \/ NoRoom(k, data[t])
  BY <1>1, <1>2 DEF SoloLocal
<1>5. FilesKept(k) /\ dat'[k] \in {NULL, dat[k]}
  BY <1>3, CasEvictDisk DEF CacheInv
<1>6. \A j \in Keys : (Resident(j)' <=> Resident(j)) /\ val'[j] = val[j]
  BY <1>2 DEF lruVars, Resident, At
<1>7. /\ \A j \in Keys : j # k => Lookup(j)' = Lookup(j)
      /\ Lookup(k)' \in {Lookup(k), NULL}
      /\ Resident(k) => Lookup(k)' = Lookup(k)
  BY <1>5, <1>6 DEF Lookup, FilesKept
<1>8. pc'[t] = "idle" \/ (pc'[t] = "unspill" /\ data' = data)
  BY <1>2, <1>3 DEF Return, Crash, CacheInv, ControlTyped
<1>9. SoloLocal(t)'
  BY <1>1, <1>2, <1>4, <1>8 DEF SoloLocal, NoRoom, Resident, At, lruVars
<1>10. KeyStep(t, k)
  BY <1>2, <1>7 DEF KeyStep, Kept
<1>11. LossStep(t, k)
  BY <1>2, <1>4, <1>7 DEF LossStep
<1> QED BY <1>9, <1>10, <1>11 DEF SoloStep, RoomStep, Unspill

\* A DEL of a node in memory: an older file of the key may be uncovered, and
\* nothing is expected of the key any more.
LEMMA EvictMemorySolo ==
  ASSUME CacheInv, ~ crashed, NEW t \in Threads, NEW k \in Keys, EvictMemory(t, k)
  PROVE  SoloStep(t)
<1> USE DEF OK, MISS
<1>0. arg'[t] = k /\ dat' = dat /\ pc[t] = "idle"
  BY DEF EvictMemory, Begin, casVars, CacheInv, ControlTyped
<1>1. CASE ~ Resident(k) /\ UNCHANGED lruVars /\ Goto(t, "evict_disk") /\ expect' = expect
  <2>1. \A j \in Keys : (Resident(j)' <=> Resident(j)) /\ Lookup(j)' = Lookup(j)
    BY <1>0, <1>1, ReadersAlike DEF lruVars
  <2>2. pc'[t] = "evict_disk"
    BY <1>1 DEF Goto, CacheInv, ControlTyped
  <2>3. SoloLocal(t)'
    BY <1>0, <1>1, <2>1, <2>2 DEF SoloLocal
  <2>4. KeyStep(t, k) /\ LossStep(t, k)
    BY <1>0, <1>1, <2>1, QuietStep
  <2> QED BY <1>0, <2>3, <2>4 DEF SoloStep, RoomStep
<1>2. CASE Unlink(k) /\ Return(t, 1) /\ expect' = [expect EXCEPT ![k] = NULL]
  <2>1. MemoryKept(k)
    BY <1>2, UnlinkMemory DEF CacheInv
  <2>2. \A j \in Keys : j # k => Lookup(j)' = Lookup(j) /\ expect'[j] = expect[j]
    BY <1>0, <1>2, <2>1 DEF MemoryKept, Lookup, CacheInv, ControlTyped
  <2>3. expect'[k] = NULL /\ result'[t] = 1 /\ pc'[t] = "idle"
    BY <1>2 DEF Return, CacheInv, ControlTyped
  <2>4. SoloLocal(t)'
    BY <2>3 DEF SoloLocal
  <2>5. KeyStep(t, k) /\ LossStep(t, k)
    BY <1>0, <2>2, <2>3 DEF KeyStep, LossStep, Kept
  <2> QED BY <1>0, <2>4, <2>5 DEF SoloStep, RoomStep
<1> QED BY <1>1, <1>2 DEF EvictMemory, lru_cache_evict

\* A DEL of a key on disk only.
LEMMA EvictDiskSolo ==
  ASSUME CacheInv, ~ crashed, NEW t \in Threads, SoloLocal(t), EvictDisk(t)
  PROVE  SoloStep(t)
<1>1. PICK k \in Keys : k = arg[t]
  BY DEF EvictDisk, CacheInv, Local
<1>2. /\ pc[t] = "evict_disk" /\ ~ Resident(k)
      /\ UNCHANGED <<lruVars, arg>> /\ arg'[t] = k
  BY <1>1 DEF EvictDisk, SoloLocal
<1>3. PICK r :
        /\ cas_evict(k, r)
        /\ Crash \/ Return(t, 0) \/ Return(t, 1)
        /\ expect' = expect \/ expect' = [expect EXCEPT ![k] = NULL]
  BY <1>1 DEF EvictDisk
<1>4. FilesKept(k) /\ dat'[k] \in {NULL, dat[k]}
  BY <1>3, CasEvictDisk DEF CacheInv
<1>5. \A j \in Keys : (Resident(j)' <=> Resident(j)) /\ val'[j] = val[j]
  BY <1>2 DEF lruVars, Resident, At
<1>6. /\ \A j \in Keys : j # k => Lookup(j)' = Lookup(j) 
      /\ Lookup(k)' \in {Lookup(k), NULL}
  BY <1>2, <1>4, <1>5 DEF Lookup, FilesKept
<1>7. /\ \A j \in Keys : j # k => expect'[j] = expect[j]
      /\ expect'[k] \in {expect[k], NULL}
  BY <1>3 DEF CacheInv, ControlTyped
<1>8. pc'[t] \in {"idle", "evict_disk"}
  BY <1>2, <1>3 DEF Return, Crash, CacheInv, ControlTyped
<1>9. SoloLocal(t)'
  BY <1>1, <1>2, <1>8 DEF SoloLocal, Resident, At, lruVars
<1>10. KeyStep(t, k) /\ LossStep(t, k)
  BY <1>2, <1>6, <1>7 DEF KeyStep, LossStep, Kept
<1> QED BY <1>2, <1>9, <1>10 DEF SoloStep, RoomStep

\* Every call of the only thread.
LEMMA StepSolo ==
  ASSUME CacheInv, ~ crashed, NEW t \in Threads, SoloLocal(t), Step(t)
  PROVE  SoloStep(t)
BY PutFirstSolo, GetMemorySolo, EvictMemorySolo, GetTailSolo, SpillSolo, RegisterSolo, DropTailSolo,
   PutRetrySolo, ReadDiskSolo, PromoteSolo, UnspillSolo, EvictDiskSolo DEF Step

\* Nothing is known and nothing expected at the start.
LEMMA InitSolo == Init => SoloLocals /\ ReadsLastWrite
BY DEF Init, ReadsLastWrite, SoloLocals, SoloLocal

\* A local step keeps what readers find in line with what was acknowledged.
LEMMA ReadsStep ==
  ASSUME ReadsLastWrite, NEW t \in Threads, NEW k \in Keys, KeyStep(t, k)
  PROVE  ReadsLastWrite'
<1> SUFFICES ASSUME NEW j \in Keys, expect'[j] # NULL
             PROVE  Lookup(j)' \in {expect'[j], NULL} \cup (IF IoMayFail THEN {Torn} ELSE {})
  BY DEF ReadsLastWrite
<1>1. CASE expect'[j] = expect[j] /\ Kept(j)
  BY <1>1 DEF ReadsLastWrite, Kept
<1>2. CASE Lookup(j)' \in {expect'[j], NULL}
  BY <1>2
<1> QED BY <1>1, <1>2 DEF KeyStep

\* With one thread, nothing happens between two of its calls.
LEMMA NextSoloLocals ==
  ASSUME Alone PROVE CacheInv /\ SoloLocals /\ [Next]_vars => SoloLocals'
<1> SUFFICES ASSUME CacheInv, SoloLocals, [Next]_vars PROVE SoloLocals'
  OBVIOUS
<1>1. CASE UNCHANGED vars
  BY <1>1 DEF SoloLocals, SoloLocal, vars, Resident, At, NoRoom, lru_cache_get_tail_node
<1>2. ASSUME ~ crashed, NEW t \in Threads, Step(t) PROVE SoloLocals'
  BY <1>2, StepSolo DEF Alone, SoloStep, SoloLocals
<1> QED BY <1>1, <1>2 DEF Next, Stopped

\* What every step of the only thread is.
LEMMA NextSoloStep ==
  CacheInv /\ SoloLocals /\ [Next]_vars =>
    UNCHANGED vars \/ \E t \in Threads, k \in Keys : KeyStep(t, k) /\ LossStep(t, k)
BY StepSolo DEF Next, Stopped, SoloLocals, SoloStep

\* No step makes a reader find an older value.
LEMMA NextReads ==
  CacheInv /\ SoloLocals /\ ReadsLastWrite /\ [Next]_vars => ReadsLastWrite'
<1> SUFFICES ASSUME CacheInv, SoloLocals, ReadsLastWrite, [Next]_vars PROVE ReadsLastWrite'
  OBVIOUS
<1>1. CASE UNCHANGED vars
  <2>1. (\A k \in Keys : Lookup(k)' = Lookup(k)) /\ expect' = expect
    BY <1>1, ReadersAlike DEF vars
  <2> QED BY <2>1 DEF ReadsLastWrite
<1> QED BY <1>1, NextSoloStep, ReadsStep

\* The path that was registered names the node that is removed.
LEMMA SoloImplies == SoloLocals => DropsWhatItSpilled
BY DEF SoloLocals, SoloLocal, DropsWhatItSpilled

\* A local step changes no other key.
LEMMA KeyStepOtherKeys ==
  ASSUME NEW t \in Threads, NEW k \in Keys, KeyStep(t, k)
  PROVE  OtherKeysKept
BY DEF KeyStep, Kept, OtherKeysKept

\* Both invariants hold always.
LEMMA AlwaysSolo == ASSUME Alone PROVE Spec => []CacheInv /\ []SoloLocals
BY AlwaysCacheInv, InitSolo, NextSoloLocals, PTL DEF Spec

\* With one thread and all faults, pod_cache_put removes from memory the node it
\* wrote to disk.
THEOREM SpilledIsDropped ==
  ASSUME Alone PROVE Spec => []DropsWhatItSpilled
BY AlwaysSolo, SoloImplies, PTL

\* With one thread and all faults, a reader never finds a value older than the
\* last one acknowledged.
THEOREM NoStaleReads ==
  ASSUME Alone PROVE Spec => []ReadsLastWrite
BY AlwaysSolo, InitSolo, NextReads, PTL DEF Spec

\* With one thread and all faults, an operation changes no key but its own.
THEOREM OthersUntouched ==
  ASSUME Alone PROVE Spec => [][OtherKeysKept]_vars
<1>1. CacheInv /\ SoloLocals /\ [Next]_vars => [OtherKeysKept]_vars
  BY NextSoloStep, KeyStepOtherKeys
<1> QED BY <1>1, AlwaysSolo, PTL DEF Spec

\* With one thread and no faults, only a DEL, or a GET without room to promote
\* what it read, loses a value.
THEOREM NothingElseLost ==
  ASSUME Alone, ~ MemMayFail, ~ IoMayFail
  PROVE  Spec => LossOnlyByDelOrFailedPromotion
<1> DEFINE Lossless ==
      \A k \in Keys : Lookup(k) # NULL /\ Lookup(k)' = NULL =>
        \E t \in Threads :
          /\ arg'[t] = k
          /\ \/ pc[t] = "idle" /\ result'[t] = 1 /\ expect'[k] = NULL
             \/ pc[t] = "evict_disk"
             \/ pc[t] = "unspill" /\ data[t] # NULL /\ NoRoom(k, data[t])
<1>1. ASSUME NEW t \in Threads, NEW k \in Keys, KeyStep(t, k), LossStep(t, k) PROVE Lossless
  BY <1>1 DEF KeyStep, LossStep, Kept
<1>2. CacheInv /\ SoloLocals /\ [Next]_vars => [Lossless]_vars
  BY <1>1, NextSoloStep
<1> QED BY <1>2, AlwaysSolo, PTL DEF Spec, LossOnlyByDelOrFailedPromotion
=============================================================================
