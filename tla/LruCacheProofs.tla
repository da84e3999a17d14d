--------------------------- MODULE LruCacheProofs ---------------------------
(***************************************************************************)
(* The structure of a memory partition, for any number of keys, addresses  *)
(* and buckets, any hash function, any sizes and capacity, with or without *)
(* allocation failures: its types, the doubly linked list, the agreement   *)
(* of the hash table with the list, the byte count, the walk that frees    *)
(* every node; and that the whole implements the abstract cache LruSpec.   *)
(*                                                                         *)
(* The list and the table are only inductive together: evict and get reach *)
(* list nodes through the table, and remove_tail looks for the table entry *)
(* of a list node.  With both, a key has at most one node, and what the    *)
(* nodes hold can be read as functions of the keys, which is how each call *)
(* is recognised as a call of LruSpec.                                     *)
(***************************************************************************)
EXTENDS LruCache, DataFacts

-----------------------------------------------------------------------------
(* Sequences of nodes and the pointers that link them.                     *)

\* Linking a new node in front of the list (add_to_head).
LEMMA LinkedCons ==
  ASSUME NEW s \in Seq(Nodes), NEW n \in Nodes, n \notin Range(s),
         NEW hd, NEW tl,
         NEW nx \in [Nodes -> Nodes \cup {NULL}], NEW pv \in [Nodes -> Nodes \cup {NULL}],
         Linked(s, hd, tl, nx, pv),
         NEW tl2, tl2 = IF hd = NULL THEN n ELSE tl,
         NEW pv2, pv2 = IF hd = NULL THEN [pv EXCEPT ![n] = NULL]
                                     ELSE [pv EXCEPT ![n] = NULL, ![hd] = n]
  PROVE  Linked(Cons(n, s), n, tl2, [nx EXCEPT ![n] = hd], pv2)
<1> DEFINE r == Cons(n, s)
           nx2 == [nx EXCEPT ![n] = hd]
<1>0. Len(s) \in Nat /\ DOMAIN s = 1 .. Len(s) /\ NULL \notin Nodes
  BY CacheAssumption
<1>1. r \in Seq(Nodes) /\ Len(r) = Len(s) + 1 /\ r[1] = n
  BY ConsProps
<1>2. \A j \in 2 .. (Len(s) + 1) : r[j] = s[j - 1]
  BY ConsShift
<1>3. \A j \in 1 .. Len(s) : s[j] \in Nodes /\ s[j] # n
  BY <1>0 DEF Range
<1> HIDE DEF r
<1>4. DOMAIN r = 1 .. (Len(s) + 1)
  BY <1>1
<1>5. \A i, j \in DOMAIN s : s[i] = s[j] => i = j
  BY DEF Linked
<1>6. hd = IF Len(s) = 0 THEN NULL ELSE s[1]
  BY DEF Linked
<1>7. tl = IF Len(s) = 0 THEN NULL ELSE s[Len(s)]
  BY DEF Linked
<1>8. \A i \in 1 .. Len(s) : /\ nx[s[i]] = IF i = Len(s) THEN NULL ELSE s[i + 1]
                             /\ pv[s[i]] = IF i = 1 THEN NULL ELSE s[i - 1]
  BY <1>0 DEF Linked
<1>9. \A i, j \in DOMAIN r : r[i] = r[j] => i = j
  <2> SUFFICES ASSUME NEW i \in DOMAIN r, NEW j \in DOMAIN r, r[i] = r[j] PROVE i = j
    OBVIOUS
  <2>1. i # 1 => i \in 2 .. (Len(s) + 1) /\ i - 1 \in 1 .. Len(s)
    BY <1>0, <1>4
  <2>2. j # 1 => j \in 2 .. (Len(s) + 1) /\ j - 1 \in 1 .. Len(s)
    BY <1>0, <1>4
  <2>3. CASE i = 1 \/ j = 1
    BY <2>1, <2>2, <2>3, <1>1, <1>2, <1>3
  <2>4. CASE i # 1 /\ j # 1
    <3>1. s[i - 1] = s[j - 1]
      BY <2>1, <2>2, <2>4, <1>2
    <3>2. i - 1 = j - 1
      BY <3>1, <2>1, <2>2, <2>4, <1>0, <1>5
    <3> QED BY <3>2, <2>1, <2>2, <2>4, <1>4
  <2> QED BY <2>3, <2>4
<1>10. ASSUME NEW i \in DOMAIN r
       PROVE  /\ nx2[r[i]] = IF i = Len(r) THEN NULL ELSE r[i + 1]
              /\ pv2[r[i]] = IF i = 1 THEN NULL ELSE r[i - 1]
  <2>1. CASE i = 1
    <3>1. nx2[n] = hd /\ pv2[n] = NULL
      BY <1>0, <1>3, <1>6
    <3>2. Len(s) # 0 => 2 \in 2 .. (Len(s) + 1) /\ r[2] = s[1]
      BY <1>0, <1>2
    <3> QED BY <2>1, <3>1, <3>2, <1>0, <1>1, <1>6
  <2>2. CASE i # 1
    <3>1. i \in 2 .. (Len(s) + 1) /\ i - 1 \in 1 .. Len(s) /\ r[i] = s[i - 1] /\ Len(s) # 0
      BY <2>2, <1>0, <1>2, <1>4
    <3>2. nx2[r[i]] = nx[s[i - 1]]
      BY <3>1, <1>3
    <3>3. i # Len(r) => i + 1 \in 2 .. (Len(s) + 1) /\ r[i + 1] = s[i] /\ (i - 1) + 1 = i
      <4>1. i # Len(r) => i + 1 \in 2 .. (Len(s) + 1) /\ (i + 1) - 1 = i /\ (i - 1) + 1 = i
        BY <3>1, <1>0, <1>1
      <4> QED BY <4>1, <1>2
    <3>4. nx2[r[i]] = IF i = Len(r) THEN NULL ELSE r[i + 1]
      <4>1. nx[s[i - 1]] = IF i - 1 = Len(s) THEN NULL ELSE s[(i - 1) + 1]
        BY <3>1, <1>8
      <4>2. i = Len(r) <=> i - 1 = Len(s)
        BY <3>1, <1>0, <1>1
      <4> QED BY <4>1, <4>2, <3>2, <3>3
    <3>5. pv2[r[i]] = r[i - 1]
      <4>1. hd = s[1] /\ hd # NULL /\ hd \in Nodes /\ hd # n
        BY <3>1, <1>0, <1>3, <1>6
      <4>2. CASE i = 2
        BY <4>1, <4>2, <3>1, <1>1
      <4>3. CASE i # 2
        <5>1. i - 1 \in 2 .. (Len(s) + 1) /\ i - 1 # 1 /\ (i - 1) - 1 \in 1 .. Len(s)
          BY <4>3, <3>1, <1>0
        <5>2. s[i - 1] # s[1]
          BY <5>1, <3>1, <1>0, <1>5
        <5>3. pv2[r[i]] = pv[s[i - 1]]
          BY <5>2, <4>1, <3>1, <1>3
        <5>4. pv[s[i - 1]] = s[(i - 1) - 1]
          BY <5>1, <3>1, <1>8
        <5>5. r[i - 1] = s[(i - 1) - 1]
          BY <5>1, <1>2
        <5> QED BY <5>3, <5>4, <5>5
      <4> QED BY <4>2, <4>3
    <3> QED BY <3>4, <3>5, <2>2
  <2> QED BY <2>1, <2>2
<1>11. tl2 = r[Len(r)] /\ Len(r) # 0
  <2>1. CASE Len(s) = 0
    BY <2>1, <1>0, <1>1, <1>6
  <2>2. CASE Len(s) # 0
    <3>1. Len(s) + 1 \in 2 .. (Len(s) + 1) /\ (Len(s) + 1) - 1 = Len(s)
      BY <2>2, <1>0
    <3>2. r[Len(r)] = s[Len(s)]
      BY <3>1, <1>1, <1>2
    <3>3. hd # NULL
      BY <2>2, <1>0, <1>3, <1>6
    <3> QED BY <3>1, <3>2, <3>3, <2>2, <1>0, <1>1, <1>7
  <2> QED BY <2>1, <2>2
<1> QED BY <1>1, <1>9, <1>10, <1>11 DEF Linked, r

\* Taking the i-th node out of the list: its neighbours are joined.
LEMMA LinkedRemove ==
  ASSUME NEW s \in Seq(Nodes), NEW i \in 1 .. Len(s),
         NEW hd, NEW tl, NEW nx, NEW pv, NEW hd2, NEW tl2, NEW nx2, NEW pv2
  PROVE  /\ Linked(s, hd, tl, nx, pv)
         /\ hd2 = IF i > 1 THEN s[1] ELSE IF Len(s) = 1 THEN NULL ELSE s[2]
         /\ tl2 = IF i < Len(s) THEN s[Len(s)]
                  ELSE IF Len(s) = 1 THEN NULL ELSE s[Len(s) - 1]
         /\ \A m \in 1 .. Len(s) : m # i =>
              nx2[s[m]] = IF m = i - 1 THEN (IF i = Len(s) THEN NULL ELSE s[i + 1])
                          ELSE nx[s[m]]
         /\ \A m \in 1 .. Len(s) : m # i =>
              pv2[s[m]] = IF m = i + 1 THEN (IF i = 1 THEN NULL ELSE s[i - 1])
                          ELSE pv[s[m]]
         => Linked(RemoveAt(s, i), hd2, tl2, nx2, pv2)
<1>a. SUFFICES
        ASSUME Linked(s, hd, tl, nx, pv),
               hd2 = IF i > 1 THEN s[1] ELSE IF Len(s) = 1 THEN NULL ELSE s[2],
               tl2 = IF i < Len(s) THEN s[Len(s)]
                     ELSE IF Len(s) = 1 THEN NULL ELSE s[Len(s) - 1],
               \A m \in 1 .. Len(s) : m # i =>
                 nx2[s[m]] = IF m = i - 1 THEN (IF i = Len(s) THEN NULL ELSE s[i + 1])
                             ELSE nx[s[m]],
               \A m \in 1 .. Len(s) : m # i =>
                 pv2[s[m]] = IF m = i + 1 THEN (IF i = 1 THEN NULL ELSE s[i - 1])
                             ELSE pv[s[m]]
        PROVE  Linked(RemoveAt(s, i), hd2, tl2, nx2, pv2)
  OBVIOUS
<1>hd. hd2 = IF i > 1 THEN s[1] ELSE IF Len(s) = 1 THEN NULL ELSE s[2]
  BY <1>a
<1>tl. tl2 = IF i < Len(s) THEN s[Len(s)] ELSE IF Len(s) = 1 THEN NULL ELSE s[Len(s) - 1]
  BY <1>a
<1>nx. \A m \in 1 .. Len(s) : m # i =>
         nx2[s[m]] = IF m = i - 1 THEN (IF i = Len(s) THEN NULL ELSE s[i + 1]) ELSE nx[s[m]]
  BY <1>a
<1>pv. \A m \in 1 .. Len(s) : m # i =>
         pv2[s[m]] = IF m = i + 1 THEN (IF i = 1 THEN NULL ELSE s[i - 1]) ELSE pv[s[m]]
  BY <1>a
<1> DEFINE r == RemoveAt(s, i)
           at(j) == IF j < i THEN j ELSE j + 1
<1>0. Len(s) \in Nat /\ i \in Nat
  OBVIOUS
<1>dom. DOMAIN s = 1 .. Len(s)
  OBVIOUS
<1>1. r \in Seq(Nodes)
  BY RemoveAtProps
<1>len. Len(r) = Len(s) - 1
  BY RemoveAtProps
<1>2. \A j \in 1 .. (Len(s) - 1) : r[j] = IF j < i THEN s[j] ELSE s[j + 1]
  BY RemoveAtProps
<1> HIDE DEF r
<1>3. DOMAIN r = 1 .. (Len(s) - 1)
  BY <1>1, <1>len
<1>4. ASSUME NEW j \in 1 .. (Len(s) - 1)
      PROVE  at(j) \in 1 .. Len(s) /\ at(j) # i /\ r[j] = s[at(j)]
  BY <1>0, <1>2, <1>4
<1>5. \A a, b \in 1 .. Len(s) : s[a] = s[b] => a = b
  BY <1>a, <1>dom DEF Linked
<1>6. \A m \in 1 .. Len(s) : /\ nx[s[m]] = IF m = Len(s) THEN NULL ELSE s[m + 1]
                             /\ pv[s[m]] = IF m = 1 THEN NULL ELSE s[m - 1]
  BY <1>a, <1>dom DEF Linked
<1>7. \A a, b \in DOMAIN r : r[a] = r[b] => a = b
  <2> SUFFICES ASSUME NEW a \in 1 .. (Len(s) - 1), NEW b \in 1 .. (Len(s) - 1), r[a] = r[b]
               PROVE  a = b
    BY <1>3
  <2>1. at(a) = at(b)
    <3> HIDE DEF at
    <3> QED BY <1>4, <1>5
  <2> QED BY <2>1, <1>0
<1>8. ASSUME NEW j \in 1 .. (Len(s) - 1)
      PROVE  nx2[r[j]] = IF j = Len(r) THEN NULL ELSE r[j + 1]
  <2>1. CASE j < i - 1
    <3>1. at(j) = j /\ j # i - 1 /\ j + 1 < i /\ j # Len(s) /\ j + 1 \in 1 .. (Len(s) - 1) /\ j # Len(r)
      BY <2>1, <1>0, <1>len
    <3>2. nx2[r[j]] = nx[s[j]]
      BY <3>1, <1>4, <1>8, <1>nx
    <3>3. j \in 1 .. Len(s)
      BY <1>0
    <3>4. nx[s[j]] = s[j + 1]
      BY <3>1, <3>3, <1>6
    <3>5. r[j + 1] = s[j + 1]
      BY <3>1, <1>2
    <3> QED BY <3>1, <3>2, <3>4, <3>5
  <2>2. CASE j = i - 1
    <3>1. at(j) = j /\ j \in 1 .. Len(s) /\ j # i /\ j + 1 = i
      BY <2>2, <1>0
    <3>2. nx2[r[j]] = IF i = Len(s) THEN NULL ELSE s[i + 1]
      BY <3>1, <2>2, <1>4, <1>8, <1>nx
    <3>3. i # Len(s) => i \in 1 .. (Len(s) - 1) /\ r[i] = s[i + 1]
      BY <1>0, <1>2
    <3>4. i = Len(s) <=> j = Len(r)
      BY <3>1, <1>0, <1>len
    <3> QED BY <3>1, <3>2, <3>3, <3>4
  <2>3. CASE j >= i
    <3>1. at(j) = j + 1 /\ j + 1 \in 1 .. Len(s) /\ j + 1 # i - 1 /\ j + 1 # i
      BY <2>3, <1>0
    <3>2. nx2[r[j]] = IF j + 1 = Len(s) THEN NULL ELSE s[(j + 1) + 1]
      <4>1. r[j] = s[j + 1]
        BY <3>1, <1>4
      <4>2. nx2[s[j + 1]] = nx[s[j + 1]]
        BY <3>1, <1>nx
      <4> QED BY <4>1, <4>2, <3>1, <1>6
    <3>3. j + 1 # Len(s) => j + 1 \in 1 .. (Len(s) - 1) /\ ~ (j + 1 < i)
      BY <2>3, <1>0
    <3>4. j + 1 = Len(s) <=> j = Len(r)
      BY <1>0, <1>len
    <3> QED BY <3>2, <3>3, <3>4, <1>2
  <2> QED BY <2>1, <2>2, <2>3, <1>0
<1>9. ASSUME NEW j \in 1 .. (Len(s) - 1)
      PROVE  pv2[r[j]] = IF j = 1 THEN NULL ELSE r[j - 1]
  <2>1. CASE j < i
    <3>1. at(j) = j /\ j # i + 1 /\ j \in 1 .. Len(s) /\ j # i
      BY <2>1, <1>0
    <3>2. pv2[r[j]] = IF j = 1 THEN NULL ELSE s[j - 1]
      BY <3>1, <1>4, <1>6, <1>pv
    <3>3. j # 1 => j - 1 \in 1 .. (Len(s) - 1) /\ j - 1 < i
      BY <2>1, <1>0
    <3> QED BY <3>2, <3>3, <1>2
  <2>2. CASE j >= i
    <3>1. at(j) = j + 1 /\ j + 1 \in 1 .. Len(s) /\ j + 1 # i /\ j + 1 # 1 /\ (j + 1) - 1 = j
      BY <2>2, <1>0
    <3>2. r[j] = s[j + 1]
      BY <3>1, <1>4
    <3>3. CASE j = i
      <4>1. pv2[r[j]] = IF i = 1 THEN NULL ELSE s[i - 1]
        BY <3>1, <3>2, <3>3, <1>pv
      <4>2. i # 1 => i - 1 \in 1 .. (Len(s) - 1) /\ i - 1 < i
        BY <1>0
      <4> QED BY <4>1, <4>2, <3>3, <1>2
    <3>4. CASE j # i
      <4>1. j + 1 # i + 1 /\ j # 1 /\ j - 1 \in 1 .. (Len(s) - 1) /\ ~ (j - 1 < i) /\ (j - 1) + 1 = j
        BY <3>4, <2>2, <1>0
      <4>2. pv2[r[j]] = s[(j + 1) - 1]
        BY <4>1, <3>1, <3>2, <1>6, <1>pv
      <4> QED BY <4>1, <4>2, <3>1, <1>2
    <3> QED BY <3>3, <3>4
  <2> QED BY <2>1, <2>2, <1>0
<1>10. hd2 = IF Len(r) = 0 THEN NULL ELSE r[1]
  <2>1. CASE Len(s) = 1
    BY <2>1, <1>0, <1>len, <1>hd, <1>tl
  <2>2. CASE Len(s) # 1
    <3>1. 1 \in 1 .. (Len(s) - 1) /\ Len(r) # 0
      BY <2>2, <1>0, <1>len
    <3> QED BY <3>1, <2>2, <1>0, <1>2, <1>hd
  <2> QED BY <2>1, <2>2
<1>11. tl2 = IF Len(r) = 0 THEN NULL ELSE r[Len(r)]
  <2>1. CASE Len(s) = 1
    BY <2>1, <1>0, <1>len, <1>hd, <1>tl
  <2>2. CASE Len(s) # 1
    <3>1. Len(s) - 1 \in 1 .. (Len(s) - 1) /\ Len(r) # 0 /\ (Len(s) - 1) + 1 = Len(s)
      BY <2>2, <1>0, <1>len
    <3>2. Len(s) - 1 < i <=> i = Len(s)
      BY <1>0
    <3>3. r[Len(s) - 1] = IF Len(s) - 1 < i THEN s[Len(s) - 1] ELSE s[(Len(s) - 1) + 1]
      BY <3>1, <1>2
    <3>4. i < Len(s) <=> i # Len(s)
      BY <1>0
    <3>5. tl2 = r[Len(s) - 1]
      BY <3>1, <3>2, <3>3, <3>4, <2>2, <1>tl
    <3> QED BY <3>1, <3>5, <1>len
  <2> QED BY <2>1, <2>2
<1> QED BY <1>1, <1>len, <1>3, <1>7, <1>8, <1>9, <1>10, <1>11 DEF Linked, r

\* Moving the i-th node, not the first, to the head of the list.
LEMMA LinkedToFront ==
  ASSUME NEW s \in Seq(Nodes), NEW i \in 1 .. Len(s), NEW n \in Nodes,
         NEW hd, NEW tl, NEW nx, NEW pv, NEW tl2, NEW nx2, NEW pv2
  PROVE  /\ Linked(s, hd, tl, nx, pv)
         /\ i # 1 /\ n = s[i]
         /\ tl2 = IF i = Len(s) THEN s[i - 1] ELSE s[Len(s)]
         /\ \A m \in 1 .. Len(s) :
              nx2[s[m]] = IF m = i THEN s[1]
                          ELSE IF m = i - 1 THEN (IF i = Len(s) THEN NULL ELSE s[i + 1])
                          ELSE nx[s[m]]
         /\ \A m \in 1 .. Len(s) :
              pv2[s[m]] = IF m = i THEN NULL ELSE IF m = 1 THEN n
                          ELSE IF m = i + 1 THEN s[i - 1] ELSE pv[s[m]]
         => Linked(Cons(n, RemoveAt(s, i)), n, tl2, nx2, pv2)
<1>a. SUFFICES
        ASSUME Linked(s, hd, tl, nx, pv),
               i # 1, n = s[i],
               tl2 = IF i = Len(s) THEN s[i - 1] ELSE s[Len(s)],
               \A m \in 1 .. Len(s) :
                 nx2[s[m]] = IF m = i THEN s[1]
                             ELSE IF m = i - 1 THEN (IF i = Len(s) THEN NULL ELSE s[i + 1])
                             ELSE nx[s[m]],
               \A m \in 1 .. Len(s) :
                 pv2[s[m]] = IF m = i THEN NULL ELSE IF m = 1 THEN n
                             ELSE IF m = i + 1 THEN s[i - 1] ELSE pv[s[m]]
        PROVE  Linked(Cons(n, RemoveAt(s, i)), n, tl2, nx2, pv2)
  OBVIOUS
<1>nx. \A m \in 1 .. Len(s) :
         nx2[s[m]] = IF m = i THEN s[1]
                     ELSE IF m = i - 1 THEN (IF i = Len(s) THEN NULL ELSE s[i + 1])
                     ELSE nx[s[m]]
  BY <1>a
<1>pv. \A m \in 1 .. Len(s) :
         pv2[s[m]] = IF m = i THEN NULL ELSE IF m = 1 THEN n
                     ELSE IF m = i + 1 THEN s[i - 1] ELSE pv[s[m]]
  BY <1>a
<1>n. n = s[i] /\ i # 1
  BY <1>a
<1> DEFINE r == Cons(n, RemoveAt(s, i))
           at(j) == IF j = 1 THEN i ELSE IF j <= i THEN j - 1 ELSE j
<1>0. Len(s) \in Nat /\ i \in Nat /\ i > 1
  BY <1>n
<1>dom. DOMAIN s = 1 .. Len(s)
  OBVIOUS
<1>1. r \in Seq(Nodes) /\ r[1] = n
  BY <1>n, ToFrontProps
<1>len. Len(r) = Len(s)
  BY <1>n, ToFrontProps
<1>2. \A j \in 2 .. Len(s) : r[j] = IF j <= i THEN s[j - 1] ELSE s[j]
  BY <1>n, ToFrontProps
<1> HIDE DEF r
<1>3. DOMAIN r = 1 .. Len(s)
  BY <1>1, <1>len
<1>4. ASSUME NEW j \in 1 .. Len(s)
      PROVE  at(j) \in 1 .. Len(s) /\ r[j] = s[at(j)]
  <2>1. CASE j = 1
    BY <2>1, <1>0, <1>1, <1>len, <1>n
  <2>2. CASE j # 1
    BY <2>2, <1>0, <1>2, <1>4
  <2> QED BY <2>1, <2>2
<1>5. \A a, b \in 1 .. Len(s) : s[a] = s[b] => a = b
  BY <1>a, <1>dom DEF Linked
<1>6. \A m \in 1 .. Len(s) : /\ nx[s[m]] = IF m = Len(s) THEN NULL ELSE s[m + 1]
                             /\ pv[s[m]] = IF m = 1 THEN NULL ELSE s[m - 1]
  BY <1>a, <1>dom DEF Linked
<1>7. \A a, b \in DOMAIN r : r[a] = r[b] => a = b
  <2> SUFFICES ASSUME NEW a \in 1 .. Len(s), NEW b \in 1 .. Len(s), r[a] = r[b] PROVE a = b
    BY <1>3
  <2>1. at(a) = at(b)
    <3> HIDE DEF at
    <3> QED BY <1>4, <1>5, ZenonT(60)
  <2> QED BY <2>1, <1>0
<1>8. ASSUME NEW j \in 1 .. Len(s)
      PROVE  nx2[r[j]] = IF j = Len(r) THEN NULL ELSE r[j + 1]
  <2>1. CASE j = 1
    <3>1. 2 \in 2 .. Len(s) /\ 2 <= i /\ r[2] = s[1]
      BY <1>0, <1>2
    <3> QED BY <3>1, <2>1, <1>0, <1>1, <1>len, <1>n, <1>nx
  <2>2. CASE j # 1 /\ j < i
    <3>1. r[j] = s[j - 1] /\ j - 1 \in 1 .. Len(s) /\ j - 1 # i /\ j - 1 # i - 1 /\ j - 1 # Len(s) /\ (j - 1) + 1 = j
      BY <2>2, <1>0, <1>2
    <3>2. nx2[r[j]] = s[j]
      <4>1. nx2[s[j - 1]] = nx[s[j - 1]]
        BY <3>1, <1>nx
      <4>2. nx[s[j - 1]] = s[(j - 1) + 1]
        BY <3>1, <1>6
      <4> QED BY <4>1, <4>2, <3>1
    <3>3. j + 1 \in 2 .. Len(s) /\ j + 1 <= i /\ (j + 1) - 1 = j /\ j # Len(r)
      BY <2>2, <1>0, <1>1, <1>len
    <3> QED BY <3>2, <3>3, <1>2
  <2>3. CASE j = i
    <3>1. r[j] = s[j - 1] /\ j - 1 \in 1 .. Len(s) /\ j - 1 # i
      BY <2>3, <1>0, <1>2
    <3>2. nx2[r[j]] = IF i = Len(s) THEN NULL ELSE s[i + 1]
      BY <3>1, <2>3, <1>nx
    <3>3. i # Len(s) => i + 1 \in 2 .. Len(s) /\ ~ (i + 1 <= i)
      BY <1>0
    <3> QED BY <3>2, <3>3, <2>3, <1>1, <1>len, <1>2
  <2>4. CASE j > i
    <3>1. r[j] = s[j] /\ j # i /\ j # i - 1
      BY <2>4, <1>0, <1>2
    <3>2. nx2[r[j]] = IF j = Len(s) THEN NULL ELSE s[j + 1]
      BY <3>1, <1>6, <1>nx
    <3>3. j # Len(s) => j + 1 \in 2 .. Len(s) /\ ~ (j + 1 <= i)
      BY <2>4, <1>0
    <3> QED BY <3>2, <3>3, <1>1, <1>len, <1>2
  <2> QED BY <2>1, <2>2, <2>3, <2>4, <1>0
<1>9. ASSUME NEW j \in 1 .. Len(s)
      PROVE  pv2[r[j]] = IF j = 1 THEN NULL ELSE r[j - 1]
  <2>1. CASE j = 1
    BY <2>1, <1>1, <1>len, <1>n, <1>pv, <1>0
  <2>2. CASE j = 2
    <3>1. r[2] = s[1] /\ 2 - 1 = 1
      BY <1>0, <1>2
    <3> QED BY <3>1, <2>2, <1>1, <1>len, <1>0, <1>pv
  <2>3. CASE j > 2 /\ j <= i
    <3>1. r[j] = s[j - 1] /\ j - 1 \in 2 .. Len(s) /\ j - 1 # i /\ j - 1 # i + 1 /\ j - 1 # 1 /\ j # 1
      BY <2>3, <1>0, <1>2
    <3>2. pv2[r[j]] = s[(j - 1) - 1]
      <4>1. pv2[s[j - 1]] = pv[s[j - 1]]
        BY <3>1, <1>pv
      <4>2. j - 1 \in 1 .. Len(s)
        BY <3>1
      <4> QED BY <4>1, <4>2, <3>1, <1>6
    <3>3. j - 1 <= i
      BY <2>3, <1>0
    <3> QED BY <3>1, <3>2, <3>3, <1>2
  <2>4. CASE j > 2 /\ j = i + 1
    <3>1. r[j] = s[j] /\ j \in 2 .. Len(s) /\ j # i
      BY <2>4, <1>0, <1>2
    <3>2. pv2[r[j]] = s[i - 1]
      BY <3>1, <2>4, <1>pv
    <3>3. r[i] = s[i - 1] /\ j - 1 = i /\ j # 1
      BY <2>4, <1>0, <1>2
    <3> QED BY <3>2, <3>3
  <2>5. CASE j > i + 1
    <3>1. r[j] = s[j] /\ j \in 2 .. Len(s) /\ j # i /\ j # i + 1 /\ j # 1
      BY <2>5, <1>0, <1>2
    <3>2. pv2[r[j]] = s[j - 1]
      BY <3>1, <1>6, <1>pv
    <3>3. j - 1 \in 2 .. Len(s) /\ ~ (j - 1 <= i)
      BY <2>5, <1>0
    <3> QED BY <3>1, <3>2, <3>3, <1>2
  <2> QED BY <2>1, <2>2, <2>3, <2>4, <2>5, <1>0
<1>10. Len(r) # 0 /\ tl2 = r[Len(r)]
  <2>1. Len(s) \in 2 .. Len(s) /\ (Len(s) <= i <=> i = Len(s)) /\ Len(r) # 0
    BY <1>0, <1>1, <1>len
  <2> QED BY <2>1, <1>1, <1>len, <1>2, <1>a
<1> QED BY <1>1, <1>len, <1>3, <1>7, <1>8, <1>9, <1>10 DEF Linked, r

-----------------------------------------------------------------------------
(* The list operations.                                                    *)

Pointers == Nodes \cup {NULL}

LinksTyped == /\ head \in Pointers /\ tail \in Pointers
              /\ next \in [Nodes -> Pointers] /\ prev \in [Nodes -> Pointers]
              /\ mru \in Seq(Nodes)

\* move_to_head keeps the list well formed and its set of nodes.
LEMMA MoveToHeadLinked ==
  ASSUME LinksTyped, Linked(mru, head, tail, next, prev),
         NEW n \in Nodes, n \in Range(mru), move_to_head(n)
  PROVE  /\ LinksTyped'
         /\ Range(mru') = Range(mru)
         /\ Linked(mru', head', tail', next', prev')
<1>0. NULL \notin Nodes
  BY CacheAssumption
<1>dom. DOMAIN mru = 1 .. Len(mru)
  BY DEF LinksTyped
<1>1. PICK i \in 1 .. Len(mru) : mru[i] = n /\ mru' = Cons(n, RemoveAt(mru, i))
  BY <1>dom DEF move_to_head, MruToHead
<1>2. Len(mru) \in Nat /\ i \in Nat
  BY DEF LinksTyped
<1>3. \A m \in 1 .. Len(mru) : mru[m] \in Nodes
  BY DEF LinksTyped
<1>inj. \A a, b \in 1 .. Len(mru) : mru[a] = mru[b] => a = b
  BY <1>dom DEF Linked
<1>hd. head = mru[1] /\ tail = mru[Len(mru)]
  BY <1>2 DEF Linked
<1>nb. \A m \in 1 .. Len(mru) : /\ next[mru[m]] = IF m = Len(mru) THEN NULL ELSE mru[m + 1]
                               /\ prev[mru[m]] = IF m = 1 THEN NULL ELSE mru[m - 1]
  BY <1>dom DEF Linked
<1>4. mru' \in Seq(Nodes)
  BY <1>1, ToFrontProps DEF LinksTyped
<1>5. Range(mru') = Range(mru)
  <2>1. RemoveAt(mru, i) \in Seq(Nodes)
    BY RemoveAtProps DEF LinksTyped
  <2>2. Range(RemoveAt(mru, i)) = Range(mru) \ {n}
    BY <1>1, RemoveAtRange DEF LinksTyped, Linked
  <2>3. Range(mru') = {n} \cup (Range(mru) \ {n})
    BY <2>1, <2>2, <1>1, ConsRange
  <2> QED BY <2>3
<1>6. CASE i = 1
  <2>1. mru' = mru
    <3>1. Len(mru) > 0
      BY <1>2
    <3> QED BY <3>1, <1>1, <1>6, ToFrontFirst DEF LinksTyped
  <2>2. UNCHANGED <<head, tail, next, prev>>
    BY <1>1, <1>6, <1>hd DEF move_to_head, StayAtHead
  <2> QED BY <2>1, <2>2 DEF LinksTyped
<1>7. CASE i # 1
  <2>1. 1 \in 1 .. Len(mru) /\ i - 1 \in 1 .. Len(mru) /\ i - 1 # i /\ 1 # i
    BY <1>2, <1>7
  <2>2. prev[n] = mru[i - 1] /\ mru[i - 1] \in Nodes /\ mru[i - 1] # n
    BY <2>1, <1>1, <1>3, <1>7, <1>inj, <1>nb
  <2>3. head \in Nodes /\ head # n
    BY <2>1, <1>1, <1>3, <1>hd, <1>inj
  <2>4. (tail = n /\ TailToHead(n)) \/ (tail # n /\ MiddleToHead(n))
    BY <2>2, <2>3, <1>0 DEF move_to_head, StayAtHead
  <2>5. tail = n <=> i = Len(mru)
    <3>1. Len(mru) \in 1 .. Len(mru)
      BY <1>2
    <3> QED BY <3>1, <1>1, <1>hd, <1>inj
  <2>6. head' = n
    BY <2>4 DEF TailToHead, MiddleToHead
  <2>7. tail' = IF i = Len(mru) THEN mru[i - 1] ELSE mru[Len(mru)]
    BY <2>2, <2>4, <2>5, <1>hd DEF TailToHead, MiddleToHead
  <2>8. ASSUME NEW m \in 1 .. Len(mru)
        PROVE  next'[mru[m]] = IF m = i THEN mru[1]
                 ELSE IF m = i - 1 THEN (IF i = Len(mru) THEN NULL ELSE mru[i + 1])
                 ELSE next[mru[m]]
    <3>1. next' = [next EXCEPT ![mru[i - 1]] = IF i = Len(mru) THEN NULL ELSE mru[i + 1],
                               ![n] = head]
      <4>1. CASE i = Len(mru)
        BY <4>1, <2>2, <2>4, <2>5 DEF TailToHead
      <4>2. CASE i # Len(mru)
        <5>1. next[n] = mru[i + 1]
          BY <4>2, <1>1, <1>nb
        <5> QED BY <5>1, <4>2, <2>2, <2>4, <2>5 DEF MiddleToHead
      <4> QED BY <4>1, <4>2
    <3>2. mru[m] \in Nodes /\ (m = i <=> mru[m] = n) /\ (m = i - 1 <=> mru[m] = mru[i - 1])
      BY <2>1, <1>1, <1>3, <1>inj
    <3>3. next \in [Nodes -> Pointers]
      BY DEF LinksTyped
    <3> QED BY <3>1, <3>2, <3>3, <2>2, <1>hd
  <2>9. ASSUME NEW m \in 1 .. Len(mru)
        PROVE  prev'[mru[m]] = IF m = i THEN NULL ELSE IF m = 1 THEN n
                 ELSE IF m = i + 1 THEN mru[i - 1] ELSE prev[mru[m]]
    <3>1. mru[m] \in Nodes /\ (m = i <=> mru[m] = n) /\ (m = 1 <=> mru[m] = head)
      BY <2>1, <1>1, <1>3, <1>hd, <1>inj
    <3>2. prev \in [Nodes -> Pointers]
      BY DEF LinksTyped
    <3>3. CASE i = Len(mru)
      <4>1. prev' = [prev EXCEPT ![n] = NULL, ![head] = n]
        BY <3>3, <2>4, <2>5 DEF TailToHead
      <4>2. m # i + 1
        BY <3>3, <1>2
      <4> QED BY <4>1, <4>2, <3>1, <3>2, <2>3
    <3>4. CASE i # Len(mru)
      <4>1. i + 1 \in 1 .. Len(mru) /\ i + 1 # i /\ i + 1 # 1
        BY <3>4, <1>2
      <4>2. next[n] = mru[i + 1] /\ mru[i + 1] \in Nodes /\ mru[i + 1] # n /\ mru[i + 1] # head
        BY <4>1, <3>4, <2>1, <1>1, <1>3, <1>nb, <1>hd, <1>inj
      <4>3. prev' = [prev EXCEPT ![mru[i + 1]] = mru[i - 1], ![n] = NULL, ![head] = n]
        BY <4>2, <3>4, <2>2, <2>4, <2>5 DEF MiddleToHead
      <4>4. m = i + 1 <=> mru[m] = mru[i + 1]
        BY <4>1, <1>inj
      <4> QED BY <4>2, <4>3, <4>4, <3>1, <3>2, <2>3
    <3> QED BY <3>3, <3>4
  <2>10. Linked(mru', head', tail', next', prev')
    <3>1. mru \in Seq(Nodes)
      BY DEF LinksTyped
    <3>2. Linked(Cons(n, RemoveAt(mru, i)), n, tail', next', prev')
      BY <3>1, <2>7, <2>8, <2>9, <1>1, <1>7, LinkedToFront
    <3> QED BY <3>2, <2>6, <1>1
  <2>11. /\ head' \in Pointers /\ tail' \in Pointers
         /\ next' \in [Nodes -> Pointers] /\ prev' \in [Nodes -> Pointers]
    <3>1. head' \in Pointers
      BY <2>6 DEF Pointers
    <3>2. tail' \in Pointers
      BY <2>4, <2>2 DEF TailToHead, MiddleToHead, LinksTyped, Pointers
    <3>3. next' \in [Nodes -> Pointers]
      BY <2>4 DEF TailToHead, MiddleToHead, LinksTyped, Pointers
    <3>4. prev' \in [Nodes -> Pointers]
      BY <2>4 DEF TailToHead, MiddleToHead, LinksTyped, Pointers
    <3> QED BY <3>1, <3>2, <3>3, <3>4
  <2> QED BY <2>10, <2>11, <1>4, <1>5 DEF LinksTyped
<1> QED BY <1>6, <1>7
\* add_to_head links one more node.
LEMMA AddToHeadLinked ==
  ASSUME LinksTyped, Linked(mru, head, tail, next, prev),
         NEW n \in Nodes, n \notin Range(mru), add_to_head(n)
  PROVE  /\ LinksTyped'
         /\ Range(mru') = {n} \cup Range(mru)
         /\ Linked(mru', head', tail', next', prev')
<1>1. mru \in Seq(Nodes) /\ mru' = Cons(n, mru)
  BY DEF add_to_head, LinksTyped
<1>2. mru' \in Seq(Nodes)
  BY <1>1, ConsProps
<1>3. Range(mru') = {n} \cup Range(mru)
  BY <1>1, ConsRange
<1>4. Linked(Cons(n, mru), n, tail', [next EXCEPT ![n] = head], prev')
  <2>1. tail' = IF head = NULL THEN n ELSE tail
    BY DEF add_to_head
  <2>2. prev' = IF head = NULL THEN [prev EXCEPT ![n] = NULL]
                              ELSE [prev EXCEPT ![n] = NULL, ![head] = n]
    BY DEF add_to_head
  <2>3. next \in [Nodes -> Nodes \cup {NULL}] /\ prev \in [Nodes -> Nodes \cup {NULL}]
    BY DEF LinksTyped, Pointers
  <2> QED BY <2>1, <2>2, <2>3, <1>1, LinkedCons
<1>5. Linked(mru', head', tail', next', prev')
  <2>1. head' = n /\ next' = [next EXCEPT ![n] = head]
    BY DEF add_to_head
  <2> QED BY <2>1, <1>1, <1>4
<1>6. /\ head' \in Pointers /\ tail' \in Pointers
      /\ next' \in [Nodes -> Pointers] /\ prev' \in [Nodes -> Pointers]
  BY DEF add_to_head, LinksTyped, Pointers
<1> QED BY <1>2, <1>3, <1>5, <1>6 DEF LinksTyped

\* What the pointers say of the i-th node of the list.
LEMMA Neighbours ==
  ASSUME LinksTyped, Linked(mru, head, tail, next, prev), NEW i \in 1 .. Len(mru)
  PROVE  /\ mru[i] \in Nodes
         /\ head = mru[1] /\ tail = mru[Len(mru)]
         /\ head = mru[i] <=> i = 1
         /\ tail = mru[i] <=> i = Len(mru)
         /\ head = tail <=> Len(mru) = 1
         /\ i # 1 => prev[mru[i]] = mru[i - 1] /\ mru[i - 1] \in Nodes
         /\ i # Len(mru) => next[mru[i]] = mru[i + 1] /\ mru[i + 1] \in Nodes
<1>0. Len(mru) \in Nat /\ 1 \in 1 .. Len(mru) /\ Len(mru) \in 1 .. Len(mru)
  BY DEF LinksTyped
<1>dom. DOMAIN mru = 1 .. Len(mru)
  BY DEF LinksTyped
<1>1. \A m \in 1 .. Len(mru) : mru[m] \in Nodes
  BY DEF LinksTyped
<1>2. \A a, b \in 1 .. Len(mru) : mru[a] = mru[b] => a = b
  BY <1>dom DEF Linked
<1>3. head = mru[1] /\ tail = mru[Len(mru)]
  BY <1>0 DEF Linked
<1>4. \A m \in 1 .. Len(mru) : /\ next[mru[m]] = IF m = Len(mru) THEN NULL ELSE mru[m + 1]
                               /\ prev[mru[m]] = IF m = 1 THEN NULL ELSE mru[m - 1]
  BY <1>dom DEF Linked
<1>5. /\ head = mru[i] <=> i = 1
      /\ tail = mru[i] <=> i = Len(mru)
      /\ head = tail <=> Len(mru) = 1
  BY <1>0, <1>2, <1>3
<1>6. i # 1 => i - 1 \in 1 .. Len(mru)
  BY <1>0
<1>7. i # Len(mru) => i + 1 \in 1 .. Len(mru)
  BY <1>0
<1>8. i # 1 => prev[mru[i]] = mru[i - 1] /\ mru[i - 1] \in Nodes
  BY <1>1, <1>4, <1>6
<1>9. i # Len(mru) => next[mru[i]] = mru[i + 1] /\ mru[i + 1] \in Nodes
  BY <1>1, <1>4, <1>7
<1> QED BY <1>1, <1>3, <1>5, <1>8, <1>9

\* The pointer part of LinkedRemove, from the two pointers the code writes.
LEMMA UnlinkPointers ==
  ASSUME LinksTyped, Linked(mru, head, tail, next, prev), NEW i \in 1 .. Len(mru),
         NEW nx2, NEW pv2,
         i # 1 => nx2 = [next EXCEPT ![mru[i - 1]] = IF i = Len(mru) THEN NULL ELSE mru[i + 1]],
         i = 1 => nx2 = next,
         i # Len(mru) => pv2 = [prev EXCEPT ![mru[i + 1]] = IF i = 1 THEN NULL ELSE mru[i - 1]],
         i = Len(mru) => pv2 = prev
  PROVE  /\ \A m \in 1 .. Len(mru) : m # i =>
              nx2[mru[m]] = IF m = i - 1 THEN (IF i = Len(mru) THEN NULL ELSE mru[i + 1])
                            ELSE next[mru[m]]
         /\ \A m \in 1 .. Len(mru) : m # i =>
              pv2[mru[m]] = IF m = i + 1 THEN (IF i = 1 THEN NULL ELSE mru[i - 1])
                            ELSE prev[mru[m]]
<1>0. Len(mru) \in Nat /\ i \in Nat
  BY DEF LinksTyped
<1>dom. DOMAIN mru = 1 .. Len(mru)
  BY DEF LinksTyped
<1>1. \A m \in 1 .. Len(mru) : mru[m] \in Nodes
  BY DEF LinksTyped
<1>2. \A a, b \in 1 .. Len(mru) : mru[a] = mru[b] => a = b
  BY <1>dom DEF Linked
<1>3. next \in [Nodes -> Pointers] /\ prev \in [Nodes -> Pointers]
  BY DEF LinksTyped
<1>4. ASSUME NEW m \in 1 .. Len(mru), m # i
      PROVE  nx2[mru[m]] = IF m = i - 1 THEN (IF i = Len(mru) THEN NULL ELSE mru[i + 1])
                           ELSE next[mru[m]]
  <2>1. CASE i = 1
    <3>1. m # i - 1
      BY <2>1, <1>0
    <3> QED BY <3>1, <2>1
  <2>2. CASE i # 1
    <3>1. i - 1 \in 1 .. Len(mru)
      BY <2>2, <1>0
    <3>2. m = i - 1 <=> mru[m] = mru[i - 1]
      BY <3>1, <1>2
    <3> QED BY <3>1, <3>2, <2>2, <1>1, <1>3
  <2> QED BY <2>1, <2>2
<1>5. ASSUME NEW m \in 1 .. Len(mru), m # i
      PROVE  pv2[mru[m]] = IF m = i + 1 THEN (IF i = 1 THEN NULL ELSE mru[i - 1])
                           ELSE prev[mru[m]]
  <2>1. CASE i = Len(mru)
    <3>1. m # i + 1
      BY <2>1, <1>0
    <3> QED BY <3>1, <2>1
  <2>2. CASE i # Len(mru)
    <3>1. i + 1 \in 1 .. Len(mru)
      BY <2>2, <1>0
    <3>2. m = i + 1 <=> mru[m] = mru[i + 1]
      BY <3>1, <1>2
    <3> QED BY <3>1, <3>2, <2>2, <1>1, <1>3
  <2> QED BY <2>1, <2>2
<1> QED BY <1>4, <1>5
\* lru_cache_evict's unlinking takes exactly its node out of the list.
LEMMA UnlinkNodeLinked ==
  ASSUME LinksTyped, Linked(mru, head, tail, next, prev),
         NEW n \in Nodes, UnlinkNode(n)
  PROVE  /\ LinksTyped'
         /\ Range(mru') = Range(mru) \ {n}
         /\ Linked(mru', head', tail', next', prev')
<1>0. Len(mru) \in Nat /\ mru \in Seq(Nodes)
  BY DEF LinksTyped
<1>dom. DOMAIN mru = 1 .. Len(mru)
  BY DEF LinksTyped
<1>1. PICK i \in 1 .. Len(mru) : mru[i] = n /\ mru' = RemoveAt(mru, i)
  BY <1>dom DEF UnlinkNode
<1>2. /\ head = mru[1] /\ tail = mru[Len(mru)]
      /\ head = n <=> i = 1
      /\ tail = n <=> i = Len(mru)
      /\ head = tail <=> Len(mru) = 1
      /\ i # 1 => prev[n] = mru[i - 1] /\ mru[i - 1] \in Nodes
      /\ i # Len(mru) => next[n] = mru[i + 1] /\ mru[i + 1] \in Nodes
  BY <1>1, Neighbours
<1>3. mru' \in Seq(Nodes)
  BY <1>0, <1>1, RemoveAtProps
<1>4. Range(mru') = Range(mru) \ {n}
  BY <1>0, <1>1, RemoveAtRange DEF Linked
<1>len. Len(mru) = 1 => i = 1
  BY <1>0
<1>5. head' = IF i > 1 THEN mru[1] ELSE IF Len(mru) = 1 THEN NULL ELSE mru[2]
  <2>1. i > 1 <=> i # 1
    BY <1>0
  <2>2. i = 1 => i + 1 = 2
    OBVIOUS
  <2> QED BY <2>1, <2>2, <1>2, <1>len DEF UnlinkNode
<1>6. tail' = IF i < Len(mru) THEN mru[Len(mru)]
              ELSE IF Len(mru) = 1 THEN NULL ELSE mru[Len(mru) - 1]
  <2>1. i < Len(mru) <=> i # Len(mru)
    BY <1>0
  <2> QED BY <2>1, <1>2, <1>len DEF UnlinkNode
<1>7. /\ i # 1 => next' = [next EXCEPT ![mru[i - 1]] = IF i = Len(mru) THEN NULL ELSE mru[i + 1]]
      /\ i = 1 => next' = next
  BY <1>2, <1>len DEF UnlinkNode
<1>8. /\ i # Len(mru) => prev' = [prev EXCEPT ![mru[i + 1]] = IF i = 1 THEN NULL ELSE mru[i - 1]]
      /\ i = Len(mru) => prev' = prev
  BY <1>2, <1>len DEF UnlinkNode
<1>9. Linked(mru', head', tail', next', prev')
  <2>1. /\ \A m \in 1 .. Len(mru) : m # i =>
             next'[mru[m]] = IF m = i - 1 THEN (IF i = Len(mru) THEN NULL ELSE mru[i + 1])
                             ELSE next[mru[m]]
        /\ \A m \in 1 .. Len(mru) : m # i =>
             prev'[mru[m]] = IF m = i + 1 THEN (IF i = 1 THEN NULL ELSE mru[i - 1])
                             ELSE prev[mru[m]]
    BY <1>7, <1>8, UnlinkPointers
  <2>2. Linked(RemoveAt(mru, i), head', tail', next', prev')
    BY <2>1, <1>0, <1>5, <1>6, LinkedRemove
  <2> QED BY <2>2, <1>1
<1>10. head' \in Pointers /\ tail' \in Pointers
  BY <1>2, <1>len DEF UnlinkNode, LinksTyped, Pointers
<1>11. next' \in [Nodes -> Pointers] /\ prev' \in [Nodes -> Pointers]
  BY <1>2, <1>len DEF UnlinkNode, LinksTyped, Pointers
<1> QED BY <1>3, <1>4, <1>9, <1>10, <1>11 DEF LinksTyped

\* lru_cache_remove_tail's unlinking is the same on the last node: that it does
\* not touch prev is right there.
LEMMA UnlinkTailIsUnlinkNode ==
  ASSUME LinksTyped, Linked(mru, head, tail, next, prev), tail # NULL, UnlinkTail
  PROVE  tail \in Nodes /\ tail \in Range(mru) /\ UnlinkNode(tail)
<1>0. Len(mru) \in Nat
  BY DEF LinksTyped
<1>dom. DOMAIN mru = 1 .. Len(mru)
  BY DEF LinksTyped
<1>1. PICK i \in 1 .. Len(mru) : mru[i] = tail /\ mru' = RemoveAt(mru, i)
  BY <1>dom DEF UnlinkTail
<1>2. tail \in Nodes
  BY <1>1 DEF LinksTyped
<1>3. tail \in Range(mru)
  BY <1>1, <1>dom DEF Range
<1> QED BY <1>2, <1>3 DEF UnlinkTail, UnlinkNode
-----------------------------------------------------------------------------
(* The hash table.                                                         *)

TableTyped == /\ buckets \in [Buckets -> Seq(HashNode)]
              /\ key \in [Nodes -> Keys \cup {NULL}]
              /\ live \in SUBSET Nodes

\* A node linked under a key the chain does not hold is indexed.
LEMMA IndexedInsert ==
  ASSUME TableTyped, Indexed(buckets, key, live),
         NEW k \in Keys, NEW n \in Nodes \ live, NotFound(k),
         live' = live \cup {n},
         key' = [key EXCEPT ![n] = k],
         buckets' = [buckets EXCEPT ![Hash[k]] = Cons([key |-> k, node |-> n], @)]
  PROVE  TableTyped' /\ Indexed(buckets', key', live')
<1> DEFINE h0 == Hash[k]
           c == buckets[h0]
           e0 == [key |-> k, node |-> n]
<1>0. h0 \in Buckets /\ Hash \in [Keys -> Buckets] /\ NULL \notin Keys
  BY CacheAssumption, DataAssumption
<1>1. c \in Seq(HashNode) /\ e0 \in HashNode /\ e0.key = k /\ e0.node = n
  BY <1>0 DEF TableTyped, HashNode
<1>2. buckets' = [buckets EXCEPT ![h0] = Cons(e0, c)]
  BY <1>0 DEF TableTyped
<1>3. \A e \in Range(c) : e.key # k
  BY DEF Range, NotFound, Chain
<1> HIDE DEF h0, e0, c
<1>4. Cons(e0, c) \in Seq(HashNode) /\ Range(Cons(e0, c)) = {e0} \cup Range(c)
  BY <1>1, ConsProps, ConsRange
<1>5. buckets'[h0] = Cons(e0, c) /\ buckets' \in [Buckets -> Seq(HashNode)]
  BY <1>0, <1>2, <1>4 DEF TableTyped
<1>6. \A h \in Buckets : h # h0 => buckets'[h] = buckets[h]
  BY <1>2 DEF TableTyped
<1>7. TableTyped'
  BY <1>5 DEF TableTyped
<1>8. c = buckets[h0]
  BY DEF c
<1>9. /\ key'[n] = k
      /\ \A m \in live : m # n /\ m \in Nodes /\ key'[m] = key[m]
  BY DEF TableTyped
<1>10. \A h \in Buckets : \A i, j \in DOMAIN buckets'[h] : buckets'[h][i] = buckets'[h][j] => i = j
  <2>1. e0 \notin Range(c)
    BY <1>1, <1>3
  <2>2. \A i, j \in DOMAIN c : c[i] = c[j] => i = j
    BY <1>0, <1>8 DEF Indexed
  <2>3. \A i, j \in DOMAIN Cons(e0, c) : Cons(e0, c)[i] = Cons(e0, c)[j] => i = j
    BY <2>1, <2>2, <1>1, ConsInjective
  <2> QED BY <2>3, <1>5, <1>6 DEF Indexed
<1>11. ASSUME NEW h \in Buckets, NEW e \in Range(buckets'[h])
       PROVE  /\ Hash[e.key] = h
              /\ e.node \in live'
              /\ key'[e.node] = e.key
              /\ \A f \in Range(buckets'[h]) : f.key = e.key => f = e
  <2>1. CASE h # h0
    BY <2>1, <1>6, <1>9, <1>11 DEF Indexed
  <2>2. CASE h = h0 /\ e = e0
    <3>1. e0.node \in live' /\ Hash[e0.key] = h0 /\ key'[e0.node] = e0.key
      BY <1>1, <1>9 DEF h0
    <3> QED BY <3>1, <2>2, <1>1, <1>3, <1>4, <1>5
  <2>3. CASE h = h0 /\ e # e0
    <3>1. e \in Range(c) /\ e.key # k
      BY <2>3, <1>3, <1>4, <1>5, <1>11
    <3>2. Hash[e.key] = h0 /\ e.node \in live /\ key[e.node] = e.key
      BY <3>1, <1>0, <1>8 DEF Indexed
    <3>3. \A f \in Range(c) : f.key = e.key => f = e
      BY <3>1, <1>0, <1>8 DEF Indexed
    <3> QED BY <3>1, <3>2, <3>3, <2>3, <1>1, <1>4, <1>5, <1>9
  <2> QED BY <2>1, <2>2, <2>3
<1>12. ASSUME NEW m \in live'
       PROVE  key'[m] \in Keys /\ \E e \in Range(buckets'[Hash[key'[m]]]) : e.node = m
  <2>1. CASE m = n
    <3>1. e0 \in Range(buckets'[h0]) /\ key'[m] = k
      BY <2>1, <1>4, <1>5, <1>9
    <3> QED BY <3>1, <2>1, <1>1 DEF h0
  <2>2. CASE m # n
    <3>1. m \in live /\ key'[m] = key[m]
      BY <2>2, <1>9
    <3>2. key[m] \in Keys /\ \E e \in Range(buckets[Hash[key[m]]]) : e.node = m
      BY <3>1 DEF Indexed
    <3>3. Range(buckets[Hash[key[m]]]) \subseteq Range(buckets'[Hash[key[m]]])
      <4>1. Hash[key[m]] \in Buckets
        BY <3>2, <1>0
      <4> QED BY <4>1, <1>4, <1>5, <1>6, <1>8
    <3> QED BY <3>1, <3>2, <3>3
  <2> QED BY <2>1, <2>2
<1> QED BY <1>7, <1>10, <1>11, <1>12 DEF Indexed

\* Dropping a node together with its entry leaves the others indexed.
LEMMA IndexedRemove ==
  ASSUME TableTyped, Indexed(buckets, key, live),
         NEW h0 \in Buckets, NEW i \in DOMAIN buckets[h0],
         NEW n, n = buckets[h0][i].node,
         live' = live \ {n},
         key' = [key EXCEPT ![n] = NULL],
         buckets' = [buckets EXCEPT ![h0] = RemoveAt(@, i)]
  PROVE  TableTyped' /\ Indexed(buckets', key', live')
<1> DEFINE c == buckets[h0]
           e0 == c[i]
<1>0. Hash \in [Keys -> Buckets] /\ NULL \notin Keys
  BY CacheAssumption, DataAssumption
<1>1. c \in Seq(HashNode) /\ i \in 1 .. Len(c)
  BY DEF TableTyped
<1>2. buckets' = [buckets EXCEPT ![h0] = RemoveAt(c, i)]
  BY DEF TableTyped
<1>3. \A a, b \in DOMAIN c : c[a] = c[b] => a = b
  BY DEF Indexed
<1>4. RemoveAt(c, i) \in Seq(HashNode)
  BY <1>1, RemoveAtProps
<1>5. Range(RemoveAt(c, i)) = Range(c) \ {e0}
  BY <1>1, <1>3, RemoveAtRange
<1>6. e0 \in Range(c) /\ n = e0.node
  BY DEF Range
<1> HIDE DEF c, e0
<1>7. c = buckets[h0]
  BY DEF c
<1>8. buckets'[h0] = RemoveAt(c, i) /\ buckets' \in [Buckets -> Seq(HashNode)]
  BY <1>2, <1>4 DEF TableTyped
<1>9. \A h \in Buckets : h # h0 => buckets'[h] = buckets[h]
  BY <1>2 DEF TableTyped
<1>10. n \in live /\ n \in Nodes /\ key[n] = e0.key /\ Hash[key[n]] = h0
  BY <1>6, <1>7 DEF Indexed, TableTyped
<1>11. TableTyped'
  BY <1>8 DEF TableTyped
<1>12. \A m \in live' : m # n /\ m \in live /\ m \in Nodes /\ key'[m] = key[m]
  BY DEF TableTyped
<1>13. \A h \in Buckets : \A a, b \in DOMAIN buckets'[h] : buckets'[h][a] = buckets'[h][b] => a = b
  <2>1. \A a, b \in DOMAIN RemoveAt(c, i) : RemoveAt(c, i)[a] = RemoveAt(c, i)[b] => a = b
    BY <1>1, <1>3, RemoveAtInjective
  <2> QED BY <2>1, <1>8, <1>9 DEF Indexed
<1>14. ASSUME NEW h \in Buckets, NEW e \in Range(buckets'[h])
       PROVE  /\ Hash[e.key] = h
              /\ e.node \in live'
              /\ key'[e.node] = e.key
              /\ \A f \in Range(buckets'[h]) : f.key = e.key => f = e
  <2>1. e \in Range(buckets[h]) /\ Range(buckets'[h]) \subseteq Range(buckets[h])
    BY <1>5, <1>7, <1>8, <1>9, <1>14
  <2>2. /\ Hash[e.key] = h
        /\ e.node \in live
        /\ key[e.node] = e.key
        /\ \A f \in Range(buckets[h]) : f.key = e.key => f = e
    BY <2>1 DEF Indexed
  <2>3. e.node # n
    <3>1. CASE h # h0
      BY <3>1, <2>2, <1>10
    <3>2. CASE h = h0
      <4>1. e # e0
        BY <3>2, <1>5, <1>8, <1>14
      <4> QED BY <4>1, <3>2, <2>2, <1>6, <1>7, <1>10
    <3> QED BY <3>1, <3>2
  <2>4. e.node \in live' /\ key'[e.node] = key[e.node]
    BY <2>2, <2>3, <1>12
  <2> QED BY <2>1, <2>2, <2>4
<1>15. ASSUME NEW m \in live'
       PROVE  key'[m] \in Keys /\ \E e \in Range(buckets'[Hash[key'[m]]]) : e.node = m
  <2>1. m # n /\ m \in live /\ key'[m] = key[m]
    BY <1>12
  <2>2. PICK e \in Range(buckets[Hash[key[m]]]) : e.node = m
    BY <2>1 DEF Indexed
  <2>3. key[m] \in Keys /\ Hash[key[m]] \in Buckets
    BY <2>1, <1>0 DEF Indexed
  <2>4. e \in Range(buckets'[Hash[key[m]]])
    BY <2>1, <2>2, <2>3, <1>5, <1>6, <1>7, <1>8, <1>9
  <2> QED BY <2>1, <2>2, <2>3, <2>4
<1> QED BY <1>11, <1>13, <1>14, <1>15 DEF Indexed
-----------------------------------------------------------------------------
(* The inductive invariant.                                                *)

Structure == /\ live = Range(mru)
             /\ Linked(mru, head, tail, next, prev)
             /\ Indexed(buckets, key, live)

RestTyped == /\ value \in [Nodes -> Contents \cup {NULL}]
             /\ size \in [Nodes -> Nat]
             /\ current_bytes_size \in Int
             /\ reply \in [code : LruCodes, value : Contents \cup Keys \cup {NULL}]
             /\ phase \in {"open", "crashed", "destroyed"}

IInv == /\ LinksTyped /\ TableTyped /\ RestTyped
        /\ phase # "destroyed" => Structure

\* The invariant gives the three properties.
LEMMA IInvImplies ==
  IInv => TypeOK /\ ListWellFormed /\ TableMatchesList
BY DEF IInv, LinksTyped, TableTyped, RestTyped, Pointers, TypeOK, Structure,
       ListWellFormed, TableMatchesList

\* What Reply writes has the type of a reply.
LEMMA ReplyTyped ==
  ASSUME NEW r \in LruCodes, NEW v \in Contents \cup Keys \cup {NULL}, Reply(r, v)
  PROVE  reply' \in [code : LruCodes, value : Contents \cup Keys \cup {NULL}]
BY DEF Reply

\* The invariant does not depend on reply, and only loses by a crash.
LEMMA IInvSameStructure ==
  ASSUME IInv, phase = "open",
         UNCHANGED <<links, key, live, buckets>>, RestTyped'
  PROVE  IInv'
<1>1. LinksTyped' /\ TableTyped'
  BY DEF IInv, LinksTyped, TableTyped, links
<1>2. Structure'
  BY DEF IInv, Structure, links
<1> QED BY <1>1, <1>2 DEF IInv

\* lru_cache_create: empty list, empty table.
LEMMA InitIInv == Init => IInv
<1> SUFFICES ASSUME Init PROVE IInv
  OBVIOUS
<1>1. LinksTyped
  BY DEF Init, LinksTyped, Pointers
<1>2. TableTyped
  BY DEF Init, TableTyped
<1>3. RestTyped
  BY DataAssumption DEF Init, RestTyped, LruCodes, OK
<1>4. Range(mru) = {} /\ DOMAIN mru = {} /\ Len(mru) = 0
  BY DEF Init, Range
<1>5. Linked(mru, head, tail, next, prev)
  BY <1>4 DEF Init, Linked
<1>6. \A h \in Buckets : buckets[h] = << >> /\ DOMAIN buckets[h] = {} /\ Range(buckets[h]) = {}
  BY DEF Init, Range
<1>7. Indexed(buckets, key, live)
  BY <1>6 DEF Init, Indexed
<1> QED BY <1>1, <1>2, <1>3, <1>4, <1>5, <1>7 DEF Init, IInv, Structure

\* An entry found in a chain leads to a linked node that holds the key.
LEMMA FoundNode ==
  ASSUME IInv, phase = "open", NEW k \in Keys, NEW i \in DOMAIN Chain(k), FoundAt(k, i)
  PROVE  /\ Hash[k] \in Buckets /\ i \in DOMAIN buckets[Hash[k]]
         /\ Chain(k)[i].node \in Nodes
         /\ Chain(k)[i].node \in live
         /\ Chain(k)[i].node \in Range(mru)
<1>1. Hash[k] \in Buckets /\ Chain(k) = buckets[Hash[k]]
  BY CacheAssumption DEF Chain
<1>2. Chain(k)[i] \in Range(buckets[Hash[k]])
  BY <1>1 DEF Range
<1>3. Chain(k)[i].node \in live
  BY <1>1, <1>2 DEF IInv, Structure, Indexed
<1> QED BY <1>1, <1>3 DEF IInv, Structure, TableTyped

\* lru_cache_put keeps the invariant.
LEMMA PutIInv ==
  ASSUME IInv, phase = "open", NEW k \in Keys, NEW v \in Contents, lru_cache_put(k, v)
  PROVE  IInv'
<1>0. /\ SizeOf[v] \in Nat /\ {OK, FAIL, FULL} \subseteq LruCodes
      /\ NULL \in Contents \cup Keys \cup {NULL}
  BY DataAssumption DEF LruCodes
<1>typ. LinksTyped /\ TableTyped /\ RestTyped /\ Structure
  BY DEF IInv
<1>1. CASE Reply(FULL, NULL) /\ UNCHANGED <<links, fields, buckets, current_bytes_size, phase>>
  <2>1. RestTyped'
    BY <1>1, <1>0, <1>typ, ReplyTyped DEF RestTyped, fields
  <2> QED BY <2>1, <1>1, IInvSameStructure DEF fields
<1>2. ASSUME NEW i \in DOMAIN Chain(k), FoundAt(k, i), PutUpdate(Chain(k)[i].node, v)
      PROVE  IInv'
  <2> DEFINE n == Chain(k)[i].node
  <2>1. n \in Nodes /\ n \in Range(mru)
    BY <1>2, FoundNode
  <2>2. PutUpdate(n, v)
    BY <1>2
  <2> HIDE DEF n
  <2>3. CASE /\ value' = [value EXCEPT ![n] = NULL]
             /\ Reply(FAIL, NULL)
             /\ UNCHANGED <<links, key, size, live, buckets, current_bytes_size, phase>>
    <3>1. RestTyped'
      BY <2>3, <1>0, <1>typ, ReplyTyped DEF RestTyped
    <3> QED BY <3>1, <2>3, IInvSameStructure
  <2>4. CASE /\ value' = [value EXCEPT ![n] = v]
             /\ size' = [size EXCEPT ![n] = SizeOf[v]]
             /\ current_bytes_size' = current_bytes_size + (SizeOf[v] - size[n])
             /\ move_to_head(n)
             /\ Reply(OK, NULL)
             /\ UNCHANGED <<key, live, buckets, phase>>
    <3>1. RestTyped'
      <4>1. size[n] \in Nat
        BY <2>1, <1>typ DEF RestTyped
      <4>2. current_bytes_size' \in Int
        BY <4>1, <2>4, <1>0, <1>typ DEF RestTyped
      <4>3. value' \in [Nodes -> Contents \cup {NULL}] /\ size' \in [Nodes -> Nat]
        BY <2>4, <1>0, <1>typ DEF RestTyped
      <4>4. reply' \in [code : LruCodes, value : Contents \cup Keys \cup {NULL}]
        BY <2>4, <1>0, ReplyTyped
      <4> QED BY <4>2, <4>3, <4>4, <2>4, <1>typ DEF RestTyped
    <3>2. LinksTyped' /\ Range(mru') = Range(mru) /\ Linked(mru', head', tail', next', prev')
      BY <2>1, <2>4, <1>typ, MoveToHeadLinked DEF Structure
    <3>3. TableTyped' /\ Structure'
      BY <3>2, <2>4, <1>typ DEF TableTyped, Structure
    <3> QED BY <3>1, <3>2, <3>3 DEF IInv
  <2> QED BY <2>2, <2>3, <2>4 DEF PutUpdate
<1>3. ASSUME NotFound(k), PutInsert(k, v) PROVE IInv'
  <2>1. CASE Reply(FAIL, NULL) /\ UNCHANGED <<links, fields, buckets, current_bytes_size, phase>>
    <3>1. RestTyped'
      BY <2>1, <1>0, <1>typ, ReplyTyped DEF RestTyped, fields
    <3> QED BY <3>1, <2>1, IInvSameStructure DEF fields
  <2>2. ASSUME NEW n \in Nodes \ live,
               live' = live \cup {n},
               key' = [key EXCEPT ![n] = k],
               value' = [value EXCEPT ![n] = v],
               size' = [size EXCEPT ![n] = SizeOf[v]],
               buckets' = [buckets EXCEPT ![Hash[k]] = Cons([key |-> k, node |-> n], @)],
               current_bytes_size' = current_bytes_size + SizeOf[v],
               add_to_head(n),
               Reply(OK, NULL),
               UNCHANGED phase
        PROVE  IInv'
    <3>1. RestTyped'
      <4>1. current_bytes_size' \in Int
        BY <2>2, <1>0, <1>typ DEF RestTyped
      <4>2. value' \in [Nodes -> Contents \cup {NULL}] /\ size' \in [Nodes -> Nat]
        BY <2>2, <1>0, <1>typ DEF RestTyped
      <4>3. reply' \in [code : LruCodes, value : Contents \cup Keys \cup {NULL}]
        BY <2>2, <1>0, ReplyTyped
      <4> QED BY <4>1, <4>2, <4>3, <2>2, <1>typ DEF RestTyped
    <3>2. /\ LinksTyped' /\ Range(mru') = {n} \cup Range(mru)
          /\ Linked(mru', head', tail', next', prev')
      BY <2>2, <1>typ, AddToHeadLinked DEF Structure
    <3>3. TableTyped' /\ Indexed(buckets', key', live')
      BY <2>2, <1>3, <1>typ, IndexedInsert DEF Structure
    <3>4. Structure'
      BY <3>2, <3>3, <2>2, <1>typ DEF Structure
    <3> QED BY <3>1, <3>2, <3>3, <3>4 DEF IInv
  <2> QED BY <1>3, <2>1, <2>2 DEF PutInsert, create_node, create_hash_node
<1> QED BY <1>1, <1>2, <1>3 DEF lru_cache_put

\* lru_cache_get keeps the invariant, also when it crashes on a null value.
LEMMA GetIInv ==
  ASSUME IInv, phase = "open", NEW k \in Keys, lru_cache_get(k)
  PROVE  IInv'
<1>0. /\ {OK, FAIL, MISS, CRASH} \subseteq LruCodes
      /\ NULL \in Contents \cup Keys \cup {NULL}
  BY DEF LruCodes
<1>typ. LinksTyped /\ TableTyped /\ RestTyped /\ Structure
  BY DEF IInv
<1>fr. UNCHANGED <<fields, buckets, current_bytes_size>>
  BY DEF lru_cache_get
<1>same. ASSUME UNCHANGED links, NEW r \in LruCodes, Reply(r, NULL),
                phase' \in {"open", "crashed"}
         PROVE  IInv'
  <2>1. RestTyped'
    BY <1>same, <1>fr, <1>0, <1>typ, ReplyTyped DEF RestTyped, fields
  <2> QED BY <2>1, <1>same, <1>fr, IInvSameStructure DEF fields
<1>1. ASSUME NEW i \in DOMAIN Chain(k), FoundAt(k, i), GetFound(Chain(k)[i].node)
      PROVE  IInv'
  <2> DEFINE n == Chain(k)[i].node
  <2>1. n \in Nodes /\ n \in Range(mru)
    BY <1>1, FoundNode
  <2>2. GetFound(n)
    BY <1>1
  <2> HIDE DEF n
  <2>3. CASE Reply(FAIL, NULL) /\ UNCHANGED <<links, phase>>
    BY <2>3, <1>same, <1>0
  <2>4. CASE phase' = "crashed" /\ Reply(CRASH, NULL) /\ UNCHANGED links
    BY <2>4, <1>same, <1>0
  <2>5. CASE move_to_head(n) /\ Reply(OK, value[n]) /\ UNCHANGED phase
    <3>1. value[n] \in Contents \cup Keys \cup {NULL}
      BY <2>1, <1>typ DEF RestTyped
    <3>2. RestTyped'
      BY <3>1, <2>5, <1>fr, <1>0, <1>typ, ReplyTyped DEF RestTyped, fields
    <3>3. LinksTyped' /\ Range(mru') = Range(mru) /\ Linked(mru', head', tail', next', prev')
      BY <2>1, <2>5, <1>typ, MoveToHeadLinked DEF Structure
    <3>4. TableTyped' /\ Structure'
      BY <3>3, <1>fr, <1>typ DEF TableTyped, Structure, fields
    <3> QED BY <3>2, <3>3, <3>4 DEF IInv
  <2> QED BY <2>2, <2>3, <2>4, <2>5 DEF GetFound
<1>2. CASE Reply(MISS, NULL) /\ UNCHANGED <<links, phase>>
  BY <1>2, <1>same, <1>0
<1> QED BY <1>1, <1>2 DEF lru_cache_get
\* Freeing a node that is unlinked and whose entry is removed keeps the
\* invariant: the common end of lru_cache_evict and lru_cache_remove_tail.
LEMMA FreeIInv ==
  ASSUME IInv, phase = "open", NEW n \in Nodes,
         NEW h \in Buckets, NEW i \in DOMAIN buckets[h], n = buckets[h][i].node,
         UnlinkNode(n), FreeNode(n),
         buckets' = [buckets EXCEPT ![h] = RemoveAt(@, i)],
         current_bytes_size' = current_bytes_size - size[n],
         Reply(OK, NULL), UNCHANGED phase
  PROVE  IInv'
<1>typ. LinksTyped /\ TableTyped /\ RestTyped /\ Structure
  BY DEF IInv
<1>1. RestTyped'
  <2>1. size[n] \in Nat
    BY <1>typ DEF RestTyped
  <2>2. current_bytes_size' \in Int
    BY <2>1, <1>typ DEF RestTyped
  <2>3. value' \in [Nodes -> Contents \cup {NULL}] /\ size' \in [Nodes -> Nat]
    BY <1>typ DEF RestTyped, FreeNode
  <2>4. reply' \in [code : LruCodes, value : Contents \cup Keys \cup {NULL}]
    BY ReplyTyped DEF LruCodes
  <2> QED BY <2>2, <2>3, <2>4, <1>typ DEF RestTyped
<1>2. LinksTyped' /\ Range(mru') = Range(mru) \ {n} /\ Linked(mru', head', tail', next', prev')
  BY <1>typ, UnlinkNodeLinked DEF Structure
<1>3. live' = live \ {n} /\ key' = [key EXCEPT ![n] = NULL]
  BY DEF FreeNode
<1>4. TableTyped' /\ Indexed(buckets', key', live')
  BY <1>3, <1>typ, IndexedRemove DEF Structure
<1>5. Structure'
  BY <1>2, <1>3, <1>4, <1>typ DEF Structure
<1> QED BY <1>1, <1>2, <1>4, <1>5 DEF IInv

\* lru_cache_evict keeps the invariant.
LEMMA EvictIInv ==
  ASSUME IInv, phase = "open", NEW k \in Keys, lru_cache_evict(k)
  PROVE  IInv'
<1>1. ASSUME NEW i \in DOMAIN Chain(k), FoundAt(k, i), EvictFound(k, i) PROVE IInv'
  <2> DEFINE n == Chain(k)[i].node
  <2>1. n \in Nodes /\ Hash[k] \in Buckets /\ i \in DOMAIN buckets[Hash[k]]
    BY <1>1, FoundNode
  <2>2. n = buckets[Hash[k]][i].node
    BY DEF Chain
  <2>3. /\ UnlinkNode(n) /\ FreeNode(n)
        /\ buckets' = [buckets EXCEPT ![Hash[k]] = RemoveAt(@, i)]
        /\ current_bytes_size' = current_bytes_size - size[n]
        /\ Reply(OK, NULL) /\ UNCHANGED phase
    BY <1>1 DEF EvictFound
  <2> HIDE DEF n
  <2> QED BY <2>1, <2>2, <2>3, FreeIInv
<1>2. CASE Reply(MISS, NULL) /\ UNCHANGED <<links, fields, buckets, current_bytes_size, phase>>
  <2>1. RestTyped'
    BY <1>2, ReplyTyped DEF IInv, RestTyped, fields, LruCodes
  <2> QED BY <2>1, <1>2, IInvSameStructure DEF fields
<1> QED BY <1>1, <1>2 DEF lru_cache_evict

\* lru_cache_get_tail_node only answers.
LEMMA GetTailIInv ==
  ASSUME IInv, phase = "open", lru_cache_get_tail_node
  PROVE  IInv'
<1>1. (IF tail = NULL THEN NULL ELSE key[tail]) \in Contents \cup Keys \cup {NULL}
  BY DEF IInv, LinksTyped, TableTyped, Pointers
<1>2. RestTyped'
  BY <1>1, ReplyTyped DEF lru_cache_get_tail_node, IInv, RestTyped, fields, LruCodes
<1> QED BY <1>2, IInvSameStructure DEF lru_cache_get_tail_node, fields

\* lru_cache_remove_tail keeps the invariant; the entry of the tail is always
\* found, so the branch that finds none never leaves a dangling entry.
LEMMA RemoveTailIInv ==
  ASSUME IInv, phase = "open", lru_cache_remove_tail
  PROVE  IInv'
<1>typ. LinksTyped /\ TableTyped /\ RestTyped /\ Structure
  BY DEF IInv
<1>1. CASE Reply(FAIL, NULL) /\ UNCHANGED <<links, fields, buckets, current_bytes_size, phase>>
  <2>1. RestTyped'
    BY <1>1, <1>typ, ReplyTyped DEF RestTyped, fields, LruCodes
  <2> QED BY <2>1, <1>1, IInvSameStructure DEF fields
<1>2. CASE /\ tail # NULL
           /\ UnlinkTail
           /\ DropTailEntry(tail)
           /\ current_bytes_size' = current_bytes_size - size[tail]
           /\ FreeNode(tail)
           /\ Reply(OK, NULL)
           /\ UNCHANGED phase
  <2>1. tail \in Nodes /\ tail \in Range(mru) /\ UnlinkNode(tail)
    BY <1>2, <1>typ, UnlinkTailIsUnlinkNode DEF Structure
  <2>2. key[tail] \in Keys /\ \E e \in Range(buckets[Hash[key[tail]]]) : e.node = tail
    BY <2>1, <1>typ DEF Structure, Indexed
  <2> DEFINE h == Hash[key[tail]]
  <2>3. h \in Buckets
    BY <2>2, CacheAssumption
  <2>4. \E i \in DOMAIN buckets[h] : buckets[h][i].node = tail
    BY <2>2 DEF Range
  <2>5. PICK i \in DOMAIN buckets[h] : /\ buckets[h][i].node = tail
                                       /\ buckets' = [buckets EXCEPT ![h] = RemoveAt(@, i)]
    BY <2>4, <1>2 DEF DropTailEntry
  <2> HIDE DEF h
  <2> QED BY <2>1, <2>3, <2>5, <1>2, FreeIInv
<1> QED BY <1>1, <1>2 DEF lru_cache_remove_tail

\* lru_cache_destroy: only the types are left to keep.
LEMMA DestroyIInv ==
  ASSUME IInv, lru_cache_destroy
  PROVE  IInv'
<1>1. LinksTyped'
  BY DEF lru_cache_destroy, IInv, LinksTyped
<1>2. TableTyped'
  BY DEF lru_cache_destroy, IInv, TableTyped
<1>3. RestTyped'
  BY DEF lru_cache_destroy, IInv, RestTyped
<1>4. phase' = "destroyed"
  BY DEF lru_cache_destroy
<1> QED BY <1>1, <1>2, <1>3, <1>4 DEF IInv

\* Every call keeps the invariant.
LEMMA NextIInv == IInv /\ [Next]_vars => IInv'
<1> SUFFICES ASSUME IInv, [Next]_vars PROVE IInv'
  OBVIOUS
<1>1. CASE phase = "open" /\ Call
  BY <1>1, PutIInv, GetIInv, EvictIInv, GetTailIInv, RemoveTailIInv, DestroyIInv DEF Call
<1>2. CASE UNCHANGED vars
  BY <1>2 DEF vars, IInv, LinksTyped, TableTyped, RestTyped, Structure
<1> QED BY <1>1, <1>2 DEF Next, Stopped

-----------------------------------------------------------------------------
(* The theorems.                                                           *)

\* IInv is an invariant of the cache.
THEOREM Inductive == Spec => []IInv
BY InitIInv, NextIInv, PTL DEF Spec

\* Every variable of the partition keeps its type, through every sequence of
\* calls and allocation failures.
THEOREM TypeCorrect == Spec => []TypeOK
BY Inductive, IInvImplies, PTL

\* The pointer surgery of add_to_head, move_to_head, lru_cache_evict and
\* lru_cache_remove_tail always leaves one doubly linked list of exactly the
\* allocated nodes, in order of last use.
THEOREM ListCorrect == Spec => []ListWellFormed
BY Inductive, IInvImplies, PTL

\* The hash chains always index exactly the nodes of the list, each key once:
\* no lookup can reach a freed node, and no node is lost to lookups.
THEOREM TableCorrect == Spec => []TableMatchesList
BY Inductive, IInvImplies, PTL

-----------------------------------------------------------------------------
(* The byte count.                                                         *)

\* The byte count.
Accounted ==
  /\ current_bytes_size = Total(size, live)
  /\ current_bytes_size \in Nat
  /\ current_bytes_size > 0 => current_bytes_size < Capacity

\* The nodes are finitely many and their sizes natural numbers.
LEMMA FiniteLive ==
  ASSUME IInv, phase = "open"
  PROVE  /\ IsFiniteSet(live) /\ live \subseteq Nodes
         /\ size \in [Nodes -> Nat] /\ Capacity \in Nat
BY RangeFinite, CacheAssumption DEF IInv, LinksTyped, TableTyped, RestTyped, Structure

\* lru_cache_put keeps the count: an update adds the difference, and the test of
\* the capacity counts the new value in full.
LEMMA PutAccounted ==
  ASSUME IInv, phase = "open", Accounted, NEW k \in Keys, NEW v \in Contents, lru_cache_put(k, v)
  PROVE  Accounted'
<1>0. SizeOf[v] \in Nat
  BY DataAssumption
<1>fin. IsFiniteSet(live) /\ live \subseteq Nodes /\ size \in [Nodes -> Nat]
  BY FiniteLive
<1>1. CASE UNCHANGED <<fields, current_bytes_size>>
  BY <1>1 DEF Accounted, fields
<1>2. ASSUME current_bytes_size + SizeOf[v] < Capacity,
             NEW n \in live, size' = [size EXCEPT ![n] = SizeOf[v]], live' = live,
             current_bytes_size' = current_bytes_size + (SizeOf[v] - size[n])
      PROVE  Accounted'
  <2>0. /\ \A x \in live : size[x] \in Nat
        /\ size'[n] = SizeOf[v] /\ \A x \in live \ {n} : size'[x] = size[x]
    BY <1>2, <1>fin
  <2>1. Total(size', live) = Total(size, live) + (size'[n] - size[n])
    BY <1>0, <1>fin, <2>0, TotalChanged
  <2>2. size' \in [Nodes -> Nat] /\ size[n] \in Nat
    BY <1>0, <1>2, FiniteLive
  <2>3. Total(size', live') \in Nat
    BY <1>2, <2>2, FiniteLive, TotalNat
  <2> QED BY <1>0, <1>2, <2>0, <2>1, <2>2, <2>3, FiniteLive DEF Accounted
<1>3. ASSUME current_bytes_size + SizeOf[v] < Capacity,
             NEW n \in Nodes \ live, size' = [size EXCEPT ![n] = SizeOf[v]], live' = live \cup {n},
             current_bytes_size' = current_bytes_size + SizeOf[v]
      PROVE  Accounted'
  <2>0. /\ \A x \in live : size[x] \in Nat
        /\ size'[n] = SizeOf[v] /\ \A x \in live : size'[x] = size[x]
    BY <1>3, <1>fin
  <2>1. Total(size', live \cup {n}) = Total(size, live) + size'[n]
    BY <1>0, <1>fin, <2>0, TotalAdded, SMTT(60)
  <2> QED BY <1>0, <1>3, <2>0, <2>1, FiniteLive DEF Accounted
<1>4. ASSUME NEW i \in DOMAIN Chain(k), FoundAt(k, i), PutUpdate(Chain(k)[i].node, v),
             current_bytes_size + SizeOf[v] < Capacity
      PROVE  Accounted'
  <2> DEFINE n == Chain(k)[i].node
  <2>1. n \in live /\ PutUpdate(n, v)
    BY <1>4, FoundNode
  <2> HIDE DEF n
  <2>2. CASE UNCHANGED <<key, size, live, current_bytes_size>>
    BY <2>2 DEF Accounted
  <2> QED BY <1>2, <1>4, <2>1, <2>2 DEF PutUpdate
<1>5. ASSUME PutInsert(k, v), current_bytes_size + SizeOf[v] < Capacity PROVE Accounted'
  BY <1>1, <1>3, <1>5 DEF PutInsert, create_node
<1> QED BY <1>1, <1>4, <1>5 DEF lru_cache_put

\* lru_cache_evict and lru_cache_remove_tail subtract what the node was counted
\* with, so the unsigned counter cannot wrap.
LEMMA FreeAccounted ==
  ASSUME IInv, phase = "open", Accounted, NEW n \in live, FreeNode(n),
         current_bytes_size' = current_bytes_size - size[n]
  PROVE  Accounted'
<1>0. /\ IsFiniteSet(live) /\ \A x \in live : size[x] \in Nat
      /\ live' = live \ {n} /\ \A x \in live \ {n} : size'[x] = size[x]
  BY FiniteLive DEF FreeNode
<1>1. Total(size', live') = Total(size, live) - size[n]
  BY <1>0, TotalRemoved
<1>2. IsFiniteSet(live') /\ \A x \in live' : size'[x] \in Nat
  BY FiniteLive, FS_Subset DEF FreeNode
<1>3. Total(size', live') \in Nat
  BY <1>2, TotalNat
<1>4. size[n] \in Nat
  BY FiniteLive
<1> QED BY <1>1, <1>3, <1>4, FiniteLive DEF Accounted

\* Every call but the last keeps the count.
LEMMA CallAccounted ==
  ASSUME IInv, phase = "open", Accounted, Call
  PROVE  phase' = "destroyed" \/ Accounted'
<1>1. ASSUME NEW k \in Keys, lru_cache_get(k) PROVE Accounted'
  BY <1>1 DEF lru_cache_get, Accounted, fields
<1>2. ASSUME NEW k \in Keys, lru_cache_evict(k) PROVE Accounted'
  <2>1. CASE UNCHANGED <<fields, current_bytes_size>>
    BY <2>1 DEF Accounted, fields
  <2>2. ASSUME NEW i \in DOMAIN Chain(k), FoundAt(k, i), EvictFound(k, i) PROVE Accounted'
    <3> DEFINE n == Chain(k)[i].node
    <3>1. n \in live
      BY <2>2, FoundNode
    <3>2. FreeNode(n) /\ current_bytes_size' = current_bytes_size - size[n]
      BY <2>2 DEF EvictFound
    <3> HIDE DEF n
    <3> QED BY <3>1, <3>2, FreeAccounted
  <2> QED BY <1>2, <2>1, <2>2 DEF lru_cache_evict
<1>3. CASE lru_cache_get_tail_node
  BY <1>3 DEF lru_cache_get_tail_node, Accounted, fields
<1>4. CASE lru_cache_remove_tail
  <2>1. CASE UNCHANGED <<fields, current_bytes_size>>
    BY <2>1 DEF Accounted, fields
  <2>2. CASE /\ tail # NULL /\ UnlinkTail /\ FreeNode(tail)
             /\ current_bytes_size' = current_bytes_size - size[tail]
    <3>1. tail \in live
      BY <2>2, UnlinkTailIsUnlinkNode DEF IInv, Structure
    <3> QED BY <3>1, <2>2, FreeAccounted
  <2> QED BY <1>4, <2>1, <2>2 DEF lru_cache_remove_tail
<1>5. CASE lru_cache_destroy
  BY <1>5 DEF lru_cache_destroy
<1> QED BY <1>1, <1>2, <1>3, <1>4, <1>5, PutAccounted DEF Call

-----------------------------------------------------------------------------
(* Destruction.                                                            *)

\* What a walk along the next pointers meets.
Follows(w, n) ==
  w = [i \in 0 .. n |-> IF i = 0 THEN head ELSE IF w[i - 1] = NULL THEN NULL ELSE next[w[i - 1]]]

\* Walk is such a walk if there is one.
LEMMA WalkFollows ==
  ASSUME NEW g, Follows(g, Cardinality(Nodes))
  PROVE  Follows(Walk, Cardinality(Nodes))
BY DEF Walk, Follows

\* The walk of lru_cache_destroy meets the nodes of the list in their order.
LEMMA WalkAlongList ==
  ASSUME IInv, phase = "open", NEW m \in 1 .. Len(mru)
  PROVE  m - 1 \in 0 .. Cardinality(Nodes) /\ Walk[m - 1] = mru[m]
<1> DEFINE N == Cardinality(Nodes)
           L == Len(mru)
           g == [i \in 0 .. N |-> IF i < L THEN mru[i + 1] ELSE NULL]
<1>1. mru \in Seq(Nodes) /\ Linked(mru, head, tail, next, prev) /\ NULL \notin Nodes
  BY CacheAssumption DEF IInv, LinksTyped, Structure
<1>2. /\ L \in Nat /\ DOMAIN mru = 1 .. L
      /\ \A i \in 1 .. L : mru[i] \in Nodes /\ mru[i] # NULL
  BY <1>1
<1>3. N \in Nat /\ L <= N
  <2>1. mru \in Injection(1 .. L, Nodes)
    BY <1>1, <1>2 DEF Linked, Injection, IsInjective
  <2>2. Cardinality(1 .. L) = L
    BY <1>2, FS_Interval, SMTT(60)
  <2>3. Cardinality(1 .. L) <= N
    BY <2>1, FS_Injection, CacheAssumption
  <2> QED BY <2>2, <2>3, FS_CardinalityType, CacheAssumption
<1>4. /\ head = IF L = 0 THEN NULL ELSE mru[1]
      /\ \A i \in 1 .. L : next[mru[i]] = IF i = L THEN NULL ELSE mru[i + 1]
  BY <1>1, <1>2 DEF Linked
<1> HIDE DEF N, L
<1>5. ASSUME NEW i \in 0 .. N
      PROVE  g[i] = IF i = 0 THEN head ELSE IF g[i - 1] = NULL THEN NULL ELSE next[g[i - 1]]
  <2>1. CASE i = 0
    BY <2>1, <1>2, <1>3, <1>4
  <2>2. CASE i # 0
    <3>1. i \in 1 .. N /\ i - 1 \in 0 .. N /\ (i - 1) + 1 = i
      BY <2>2, <1>3
    <3>2. g[i - 1] = IF i - 1 < L THEN mru[i] ELSE NULL
      BY <3>1
    <3>3. CASE i - 1 < L
      <4>1. i \in 1 .. L
        BY <3>1, <3>3, <1>2
      <4>2. g[i - 1] = mru[i] /\ mru[i] # NULL
        BY <4>1, <3>2, <3>3, <1>2
      <4>3. g[i] = IF i = L THEN NULL ELSE mru[i + 1]
        BY <4>1, <3>1, <1>2
      <4> QED BY <4>1, <4>2, <4>3, <1>4, <2>2
    <3>4. CASE ~ (i - 1 < L)
      BY <3>1, <3>2, <3>4, <1>2, <2>2
    <3> QED BY <3>3, <3>4
  <2> QED BY <2>1, <2>2
<1>6. Follows(Walk, N)
  <2>1. Follows(g, N)
    BY <1>5 DEF Follows
  <2> HIDE DEF g
  <2> QED BY <2>1, WalkFollows DEF N
<1> DEFINE S == {i \in 0 .. N : Walk[i] = g[i]}
<1>7. 0 \in S
  <2>1. 0 \in 0 .. N
    BY <1>3
  <2> HIDE DEF g
  <2>2. Walk[0] = head
    BY <1>6, <2>1 DEF Follows
  <2>3. g[0] = head
    BY <1>5, <2>1
  <2> QED BY <2>1, <2>2, <2>3
<1>8. ASSUME NEW i \in 0 .. (N - 1), i \in S PROVE i + 1 \in S
  <2> HIDE DEF g
  <2>1. i + 1 \in 0 .. N /\ i + 1 # 0 /\ (i + 1) - 1 = i /\ Walk[i] = g[i]
    BY <1>3, <1>8
  <2>2. Walk[i + 1] = IF Walk[i] = NULL THEN NULL ELSE next[Walk[i]]
    BY <1>6, <2>1 DEF Follows
  <2>3. g[i + 1] = IF g[i] = NULL THEN NULL ELSE next[g[i]]
    BY <1>5, <2>1
  <2> QED BY <2>1, <2>2, <2>3
<1>9. \A i \in 0 .. N : i \in S
  <2> HIDE DEF S
  <2> QED BY <1>3, <1>7, <1>8, Induction
<1>10. m - 1 \in 0 .. N /\ m - 1 < L /\ (m - 1) + 1 = m
  BY <1>2, <1>3 DEF L
<1> QED BY <1>9, <1>10 DEF N

\* lru_cache_destroy frees every node.
LEMMA DestroyFreesAll ==
  ASSUME IInv, phase = "open", lru_cache_destroy
  PROVE  live' = {}
<1>1. ASSUME NEW n \in live PROVE \E i \in 0 .. Cardinality(Nodes) : Walk[i] = n
  <2>1. n \in Range(mru) /\ mru \in Seq(Nodes)
    BY DEF IInv, Structure, LinksTyped
  <2>2. PICK m \in 1 .. Len(mru) : mru[m] = n
    BY <2>1 DEF Range
  <2> QED BY <2>2, WalkAlongList
<1>2. NULL \notin live
  BY CacheAssumption DEF IInv, TableTyped
<1> QED BY <1>1, <1>2 DEF lru_cache_destroy

\* The inductive invariant.
FullInv ==
  /\ IInv
  /\ phase # "destroyed" => Accounted
  /\ phase = "destroyed" => live = {}

\* An empty cache counts nothing.
LEMMA InitFullInv == Init => FullInv
<1> SUFFICES ASSUME Init PROVE FullInv
  OBVIOUS
<1>1. IsFiniteSet({}) /\ Total(size, {}) = 0
  BY FS_EmptySet, TotalStep
<1> QED BY <1>1, InitIInv DEF Init, FullInv, Accounted

\* Every call keeps the count, and destruction leaves no node.
LEMMA NextFullInv == FullInv /\ [Next]_vars => FullInv'
<1> SUFFICES ASSUME FullInv, [Next]_vars PROVE FullInv'
  OBVIOUS
<1>1. IInv'
  BY NextIInv DEF FullInv
<1>2. CASE UNCHANGED vars
  BY <1>1, <1>2 DEF vars, FullInv, Accounted
<1>3. CASE phase = "open" /\ Call
  <2>1. phase' = "destroyed" \/ Accounted'
    BY <1>3, CallAccounted DEF FullInv
  <2>2. phase' = "destroyed" => lru_cache_destroy
    BY <1>3 DEF Call, lru_cache_get, GetFound, lru_cache_evict, EvictFound, lru_cache_put,
                PutUpdate, PutInsert, lru_cache_get_tail_node, lru_cache_remove_tail
  <2>3. phase' = "destroyed" => live' = {}
    BY <2>2, <1>3, DestroyFreesAll DEF FullInv
  <2> QED BY <1>1, <2>1, <2>3 DEF FullInv
<1> QED BY <1>2, <1>3 DEF Next, Stopped

\* The structure, the count, and after destruction no node.
THEOREM AlwaysFullInv == Spec => []FullInv
BY InitFullInv, NextFullInv, PTL DEF Spec

\* Through every sequence of calls and failed allocations, current_bytes_size is
\* the sum of the sizes of the nodes, never less, and below the capacity.
THEOREM AccountingCorrect == Spec => []ExactAccounting
<1>1. FullInv => ExactAccounting
  BY DEF FullInv, Accounted, Total, ExactAccounting
<1> QED BY <1>1, AlwaysFullInv, PTL

\* lru_cache_destroy, which walks the next pointers only, frees every node.
THEOREM DestroyLeaksNothing == Spec => []NothingLeaks
<1>1. FullInv => NothingLeaks
  BY DEF FullInv, NothingLeaks
<1> QED BY <1>1, AlwaysFullInv, PTL

-----------------------------------------------------------------------------
(* Refinement: the nodes as LruSpec sees them.                             *)

\* The keys of a sequence of nodes.
KeysOf(s, ky) == [i \in DOMAIN s |-> ky[s[i]]]

\* It is a sequence of keys of the same length.
LEMMA KeysOfProps ==
  ASSUME NEW s \in Seq(Nodes), NEW ky, \A i \in 1 .. Len(s) : ky[s[i]] \in Keys
  PROVE  /\ KeysOf(s, ky) \in Seq(Keys)
         /\ Len(KeysOf(s, ky)) = Len(s)
         /\ \A i \in 1 .. Len(s) : KeysOf(s, ky)[i] = ky[s[i]]
<1> DEFINE n == Len(s)
<1>1. n \in Nat /\ DOMAIN s = 1 .. n
  OBVIOUS
<1>2. KeysOf(s, ky) = [i \in 1 .. n |-> ky[s[i]]]
  BY <1>1 DEF KeysOf
<1> HIDE DEF n
<1> QED BY <1>1, <1>2 DEF n

\* A node is put in front.
LEMMA KeysOfCons ==
  ASSUME NEW s \in Seq(Nodes), NEW n \in Nodes, NEW ky, NEW ky2,
         \A i \in 1 .. Len(s) : ky[s[i]] \in Keys,
         \A i \in 1 .. Len(s) : ky2[s[i]] = ky[s[i]], ky2[n] \in Keys
  PROVE  KeysOf(Cons(n, s), ky2) = Cons(ky2[n], KeysOf(s, ky))
<1> DEFINE r == Cons(n, s)
           c == KeysOf(s, ky)
           a == KeysOf(r, ky2)
           b == Cons(ky2[n], c)
           l == Len(s) + 1
<1>0. Len(s) \in Nat /\ l \in Nat
  OBVIOUS
<1>1. c \in Seq(Keys) /\ Len(c) = Len(s) /\ \A i \in 1 .. Len(s) : c[i] = ky[s[i]]
  BY KeysOfProps
<1>3. r \in Seq(Nodes) /\ Len(r) = l /\ r[1] = n /\ \A j \in 2 .. l : r[j] = s[j - 1]
  BY ConsProps, ConsShift
<1> HIDE DEF c, r
<1>2. b \in Seq(Keys) /\ Len(b) = l /\ b[1] = ky2[n] /\ \A j \in 2 .. l : b[j] = c[j - 1]
  <2>1. b \in Seq(Keys) /\ Len(b) = Len(c) + 1 /\ b[1] = ky2[n]
    <3>1. \A e \in Keys : /\ Cons(e, c) \in Seq(Keys) /\ Len(Cons(e, c)) = Len(c) + 1
                          /\ Cons(e, c)[1] = e
      BY <1>1, ConsProps
    <3> QED BY <3>1
  <2>2. \A j \in 2 .. (Len(c) + 1) : b[j] = c[j - 1]
    BY <1>1, ConsShift
  <2> QED BY <2>1, <2>2, <1>1
<1>4. \A i \in 1 .. l : i = 1 \/ (i \in 2 .. l /\ i - 1 \in 1 .. Len(s))
  BY <1>0
<1> HIDE DEF l, b
<1>5. ASSUME NEW i \in 1 .. l PROVE ky2[r[i]] \in Keys /\ ky2[r[i]] = b[i]
  <2>1. CASE i = 1
    BY <2>1, <1>2, <1>3
  <2>2. CASE i \in 2 .. l /\ i - 1 \in 1 .. Len(s)
    <3>1. r[i] = s[i - 1] /\ b[i] = c[i - 1] /\ c[i - 1] = ky[s[i - 1]]
      BY <2>2, <1>1, <1>2, <1>3
    <3> QED BY <3>1, <2>2
  <2> QED BY <2>1, <2>2, <1>4
<1>6. a \in Seq(Keys) /\ Len(a) = l /\ \A i \in 1 .. l : a[i] = ky2[r[i]]
  <2>1. \A i \in 1 .. Len(r) : ky2[r[i]] \in Keys
    BY <1>3, <1>5
  <2> QED BY <2>1, <1>3, KeysOfProps
<1> HIDE DEF a
<1>8. a = b
  BY <1>2, <1>5, <1>6, SeqEqual
<1> QED BY <1>8 DEF a, b, c, r

\* A node is taken out.
LEMMA KeysOfRemove ==
  ASSUME NEW s \in Seq(Nodes), NEW i \in 1 .. Len(s), NEW ky, NEW ky2,
         \A m \in 1 .. Len(s) : ky[s[m]] \in Keys,
         \A m \in 1 .. Len(s) : m # i => ky2[s[m]] = ky[s[m]]
  PROVE  KeysOf(RemoveAt(s, i), ky2) = RemoveAt(KeysOf(s, ky), i)
<1> DEFINE q == RemoveAt(s, i)
           a == KeysOf(q, ky2)
           c == KeysOf(s, ky)
           b == RemoveAt(c, i)
           l == Len(s) - 1
<1>0. Len(s) \in Nat /\ i \in Nat /\ l \in Nat
  OBVIOUS
<1>1. c \in Seq(Keys) /\ Len(c) = Len(s) /\ \A m \in 1 .. Len(s) : c[m] = ky[s[m]]
  BY KeysOfProps
<1>2. q \in Seq(Nodes) /\ Len(q) = l /\ \A j \in 1 .. l : q[j] = IF j < i THEN s[j] ELSE s[j + 1]
  BY RemoveAtProps
<1> HIDE DEF c
<1>3. b \in Seq(Keys) /\ Len(b) = l /\ \A j \in 1 .. l : b[j] = IF j < i THEN c[j] ELSE c[j + 1]
  BY <1>1, RemoveAtProps
<1>4. ASSUME NEW j \in 1 .. l
      PROVE  ky2[q[j]] \in Keys /\ ky2[q[j]] = b[j]
  <2>1. j \in 1 .. Len(s) /\ j + 1 \in 1 .. Len(s) /\ (j < i => j # i) /\ (~ (j < i) => j + 1 # i)
    BY <1>0
  <2> HIDE DEF q, b, l
  <2> QED BY <2>1, <1>1, <1>2, <1>3
<1> HIDE DEF q, l
<1>5. a \in Seq(Keys) /\ Len(a) = l /\ \A j \in 1 .. l : a[j] = ky2[q[j]]
  BY <1>2, <1>4, KeysOfProps
<1> HIDE DEF a, b
<1>6. a = b
  BY <1>3, <1>4, <1>5, SeqEqual
<1> QED BY <1>6 DEF a, b, c, q

\* ByKey, of any nodes lv with keys ky.
View(lv, ky, f, d) ==
  [k \in Keys |-> IF {n \in lv : ky[n] = k} = {} THEN d
                  ELSE f[CHOOSE n \in {m \in lv : ky[m] = k} : TRUE]]

\* No two of them have the same key.
Distinct(lv, ky) == \A m, n \in lv : ky[m] = ky[n] => m = n

\* The value for a key that a node has,
LEMMA ViewAt ==
  ASSUME NEW lv, NEW ky, NEW f, NEW d, Distinct(lv, ky), NEW n \in lv, ky[n] \in Keys
  PROVE  View(lv, ky, f, d)[ky[n]] = f[n]
<1> DEFINE H == {m \in lv : ky[m] = ky[n]}
<1>1. H = {n}
  BY DEF Distinct
<1>2. (CHOOSE m \in H : TRUE) = n
  BY <1>1
<1> QED BY <1>1, <1>2 DEF View

\* and for one that none has.
LEMMA ViewNone ==
  ASSUME NEW lv, NEW ky, NEW f, NEW d, NEW k \in Keys, \A n \in lv : ky[n] # k
  PROVE  View(lv, ky, f, d)[k] = d
<1>1. {n \in lv : ky[n] = k} = {}
  OBVIOUS
<1> QED BY <1>1 DEF View

\* The field of a node is written.
LEMMA ViewChanged ==
  ASSUME NEW lv, NEW ky, NEW f, NEW g, NEW d, Distinct(lv, ky), \A m \in lv : ky[m] \in Keys,
         NEW n \in lv, \A m \in lv \ {n} : g[m] = f[m]
  PROVE  View(lv, ky, g, d) = [View(lv, ky, f, d) EXCEPT ![ky[n]] = g[n]]
<1> DEFINE a == View(lv, ky, g, d)
           b == View(lv, ky, f, d)
<1>1. \A m \in lv : a[ky[m]] = g[m] /\ b[ky[m]] = f[m]
  BY ViewAt
<1>2. \A k \in Keys : (\A m \in lv : ky[m] # k) => a[k] = d /\ b[k] = d
  BY ViewNone
<1>3. a = [k \in Keys |-> a[k]] /\ b = [k \in Keys |-> b[k]]
  BY DEF View
<1> HIDE DEF a, b
<1>4. \A k \in Keys : a[k] = IF k = ky[n] THEN g[n] ELSE b[k]
  BY <1>1, <1>2, ZenonT(60)
<1>5. a = [b EXCEPT ![ky[n]] = g[n]]
  BY <1>3, <1>4
<1> QED BY <1>5 DEF a, b

\* A node is added under a new key.
LEMMA ViewAdded ==
  ASSUME NEW lv, NEW ky, NEW ky2, NEW f, NEW g, NEW d, Distinct(lv, ky),
         \A m \in lv : ky[m] \in Keys,
         NEW n, n \notin lv, NEW lv2, lv2 = lv \cup {n},
         NEW k \in Keys, ky2[n] = k, \A m \in lv : ky[m] # k,
         \A m \in lv : g[m] = f[m], \A m \in lv : ky2[m] = ky[m]
  PROVE  View(lv2, ky2, g, d) = [View(lv, ky, f, d) EXCEPT ![k] = g[n]]
<1> DEFINE a == View(lv2, ky2, g, d)
           b == View(lv, ky, f, d)
<1>0. Distinct(lv2, ky2) /\ \A m \in lv2 : ky2[m] \in Keys
  BY DEF Distinct
<1>1. (\A m \in lv2 : a[ky2[m]] = g[m]) /\ (\A m \in lv : b[ky[m]] = f[m])
  BY <1>0, ViewAt
<1>2. \A j \in Keys : /\ (\A m \in lv2 : ky2[m] # j) => a[j] = d
                      /\ (\A m \in lv : ky[m] # j) => b[j] = d
  BY ViewNone
<1>3. a = [j \in Keys |-> a[j]] /\ b = [j \in Keys |-> b[j]]
  BY DEF View
<1> HIDE DEF a, b
<1>4. ASSUME NEW j \in Keys PROVE a[j] = IF j = k THEN g[n] ELSE b[j]
  <2>1. CASE \E m \in lv : ky[m] = j
    BY <2>1, <1>1
  <2>2. CASE j = k
    BY <2>2, <1>1
  <2>3. CASE j # k /\ \A m \in lv : ky[m] # j
    BY <2>3, <1>2
  <2> QED BY <2>1, <2>2, <2>3
<1>5. a = [b EXCEPT ![k] = g[n]]
  BY <1>3, <1>4
<1> QED BY <1>5 DEF a, b

\* A node is taken out.
LEMMA ViewRemoved ==
  ASSUME NEW lv, NEW ky, NEW ky2, NEW f, NEW g, NEW d, Distinct(lv, ky),
         \A m \in lv : ky[m] \in Keys, NEW n \in lv,
         NEW lv2, lv2 = lv \ {n},
         \A m \in lv2 : g[m] = f[m], \A m \in lv2 : ky2[m] = ky[m]
  PROVE  View(lv2, ky2, g, d) = [View(lv, ky, f, d) EXCEPT ![ky[n]] = d]
<1> DEFINE a == View(lv2, ky2, g, d)
           b == View(lv, ky, f, d)
<1>0. Distinct(lv2, ky2) /\ \A m \in lv2 : ky2[m] \in Keys /\ ky2[m] # ky[n]
  BY DEF Distinct
<1>1. (\A m \in lv2 : a[ky2[m]] = g[m]) /\ (\A m \in lv : b[ky[m]] = f[m])
  BY <1>0, ViewAt
<1>2. \A k \in Keys : /\ (\A m \in lv2 : ky2[m] # k) => a[k] = d
                      /\ (\A m \in lv : ky[m] # k) => b[k] = d
  BY ViewNone
<1>3. a = [k \in Keys |-> a[k]] /\ b = [k \in Keys |-> b[k]]
  BY DEF View
<1> HIDE DEF a, b
<1>4. ASSUME NEW k \in Keys PROVE a[k] = IF k = ky[n] THEN d ELSE b[k]
  <2>1. CASE \E m \in lv2 : ky[m] = k
    BY <2>1, <1>0, <1>1
  <2>2. CASE k = ky[n]
    BY <2>2, <1>0, <1>2
  <2>3. CASE k # ky[n] /\ \A m \in lv2 : ky[m] # k
    BY <2>3, <1>2
  <2> QED BY <2>1, <2>2, <2>3
<1>5. a = [b EXCEPT ![ky[n]] = d]
  BY <1>3, <1>4
<1> QED BY <1>5 DEF a, b

\* The variables of LruSpec, as functions of the nodes.
LEMMA Mapped ==
  /\ lruOrder = [p \in {0} |-> KeysOf(mru, key)]
  /\ lruVal = View(live, key, value, NULL)
  /\ lruSize = View(live, key, size, 0)
  /\ lruBytes = [p \in {0} |-> current_bytes_size]
BY DEF lruOrder, lruVal, lruSize, lruBytes, ByKey, Holder, KeysOf, View

\* And after a step.
LEMMA MappedPrime ==
  /\ lruOrder' = [p \in {0} |-> KeysOf(mru', key')]
  /\ lruVal' = View(live', key', value', NULL)
  /\ lruSize' = View(live', key', size', 0)
  /\ lruBytes' = [p \in {0} |-> current_bytes_size']
BY DEF lruOrder, lruVal, lruSize, lruBytes, ByKey, Holder, KeysOf, View

\* Between calls every node has a key, and no two the same.
LEMMA Sight ==
  ASSUME IInv, phase = "open"
  PROVE  /\ mru \in Seq(Nodes) /\ live = Range(mru) /\ live \subseteq Nodes
         /\ Distinct(live, key)
         /\ \A n \in live : key[n] \in Keys
         /\ \A i \in 1 .. Len(mru) : mru[i] \in live /\ key[mru[i]] \in Keys
         /\ \A n \in live : \E i \in 1 .. Len(mru) : mru[i] = n
         /\ \A i, j \in 1 .. Len(mru) : mru[i] = mru[j] => i = j
<1>1. /\ mru \in Seq(Nodes) /\ live = Range(mru) /\ live \subseteq Nodes
      /\ Indexed(buckets, key, live)
      /\ \A i, j \in DOMAIN mru : mru[i] = mru[j] => i = j
  BY DEF IInv, LinksTyped, TableTyped, Structure, Linked
<1>2. ASSUME NEW m \in live, NEW n \in live, key[m] = key[n] PROVE m = n
  <2> DEFINE h == Hash[key[n]]
  <2>1. key[n] \in Keys /\ h \in Buckets
    BY <1>1, CacheAssumption DEF Indexed
  <2>2. PICK e \in Range(buckets[h]) : e.node = m
    BY <1>1, <1>2 DEF Indexed
  <2>3. PICK f \in Range(buckets[h]) : f.node = n
    BY <1>1 DEF Indexed
  <2> HIDE DEF h
  <2>4. e.key = key[m] /\ f.key = key[n]
    BY <1>1, <2>1, <2>2, <2>3 DEF Indexed
  <2>5. e = f
    BY <1>1, <1>2, <2>1, <2>4 DEF Indexed
  <2> QED BY <2>2, <2>3, <2>5
<1>3. \A n \in live : key[n] \in Keys
  BY <1>1 DEF Indexed
<1>4. DOMAIN mru = 1 .. Len(mru)
  BY <1>1
<1> QED BY <1>1, <1>2, <1>3, <1>4 DEF Distinct, Range

\* The list of LruSpec.
LEMMA ListSeen ==
  ASSUME IInv, phase = "open"
  PROVE  /\ KeysOf(mru, key) \in Seq(Keys) /\ Len(KeysOf(mru, key)) = Len(mru)
         /\ DOMAIN KeysOf(mru, key) = 1 .. Len(mru)
         /\ \A i \in 1 .. Len(mru) : KeysOf(mru, key)[i] = key[mru[i]]
         /\ \A k \in Keys : lruOrder[OnePartition[k]] = KeysOf(mru, key)
         /\ lruOrder[0] = KeysOf(mru, key)
<1>1. mru \in Seq(Nodes) /\ \A i \in 1 .. Len(mru) : key[mru[i]] \in Keys
  BY Sight
<1>2. /\ KeysOf(mru, key) \in Seq(Keys) /\ Len(KeysOf(mru, key)) = Len(mru)
      /\ \A i \in 1 .. Len(mru) : KeysOf(mru, key)[i] = key[mru[i]]
  BY <1>1, KeysOfProps
<1>3. lruOrder[0] = KeysOf(mru, key) /\ \A k \in Keys : OnePartition[k] = 0
  BY Mapped DEF OnePartition
<1> QED BY <1>2, <1>3

\* A key is resident if a node holds it.
LEMMA ResidentSeen ==
  ASSUME IInv, phase = "open", NEW k \in Keys
  PROVE  /\ \A i \in 1 .. Len(mru) : key[mru[i]] = k => Lru!At(k, i)
         /\ Lru!Resident(k) <=> \E n \in live : key[n] = k
<1>1. \A i : Lru!At(k, i) <=> i \in 1 .. Len(mru) /\ key[mru[i]] = k
  BY ListSeen DEF Lru!At
<1>2. Lru!Resident(k) <=> \E i \in 1 .. Len(mru) : key[mru[i]] = k
  BY <1>1, ListSeen DEF Lru!Resident
<1> QED BY <1>1, <1>2, Sight

\* What a lookup in the table finds.
LEMMA LookupSeen ==
  ASSUME IInv, phase = "open", NEW k \in Keys
  PROVE  /\ \A i \in DOMAIN Chain(k) : FoundAt(k, i) =>
              Chain(k)[i].node \in live /\ key[Chain(k)[i].node] = k
         /\ NotFound(k) => \A n \in live : key[n] # k
<1>1. Hash[k] \in Buckets /\ Chain(k) = buckets[Hash[k]] /\ Indexed(buckets, key, live)
  BY CacheAssumption DEF Chain, IInv, Structure
<1>2. ASSUME NEW i \in DOMAIN Chain(k), FoundAt(k, i)
      PROVE  Chain(k)[i].node \in live /\ key[Chain(k)[i].node] = k
  <2>1. Chain(k)[i] \in Range(buckets[Hash[k]])
    BY <1>1 DEF Range
  <2>2. Chain(k)[i].node \in live /\ key[Chain(k)[i].node] = Chain(k)[i].key
    BY <1>1, <2>1 DEF Indexed
  <2> QED BY <1>2, <2>2 DEF FoundAt
<1>3. ASSUME NotFound(k), NEW n \in live, key[n] = k PROVE FALSE
  <2>1. PICK e \in Range(buckets[Hash[k]]) : e.node = n
    BY <1>1, <1>3 DEF Indexed
  <2>2. e.key = k
    BY <1>1, <1>3, <2>1 DEF Indexed
  <2>3. PICK i \in DOMAIN Chain(k) : Chain(k)[i] = e
    BY <1>1, <2>1 DEF Range
  <2> QED BY <1>3, <2>2, <2>3 DEF NotFound
<1> QED BY <1>2, <1>3

\* move_to_head moves the key to the front.
LEMMA MoveSeen ==
  ASSUME IInv, phase = "open", NEW n \in live, MruToHead(n), key' = key
  PROVE  Lru!MoveToHead(key[n])
<1> DEFINE s == KeysOf(mru, key)
<1>0. /\ mru \in Seq(Nodes) /\ n \in Nodes /\ key[n] \in Keys
      /\ \A i \in 1 .. Len(mru) : mru[i] \in live /\ key[mru[i]] \in Keys
      /\ DOMAIN mru = 1 .. Len(mru)
  BY Sight
<1>1. PICK i \in 1 .. Len(mru) : mru[i] = n /\ mru' = Cons(n, RemoveAt(mru, i))
  BY <1>0 DEF MruToHead
<1> DEFINE q == RemoveAt(mru, i)
<1>2. KeysOf(q, key) = RemoveAt(s, i)
  BY <1>0, KeysOfRemove
<1>3. q \in Seq(Nodes) /\ \A j \in 1 .. Len(q) : key[q[j]] \in Keys
  <2>0. Len(mru) \in Nat
    BY <1>0
  <2>1. /\ q \in Seq(Nodes) /\ Len(q) = Len(mru) - 1
        /\ \A j \in 1 .. (Len(mru) - 1) : q[j] = IF j < i THEN mru[j] ELSE mru[j + 1]
    BY <1>0, RemoveAtProps
  <2> HIDE DEF q
  <2>2. \A j \in 1 .. Len(q) : j \in 1 .. Len(mru) /\ j + 1 \in 1 .. Len(mru)
    BY <2>0, <2>1
  <2> QED BY <1>0, <2>1, <2>2
<1> HIDE DEF q
<1>4. KeysOf(Cons(n, q), key) = Cons(key[n], KeysOf(q, key))
  BY <1>0, <1>3, KeysOfCons
<1>5. KeysOf(mru', key') = Cons(key[n], RemoveAt(s, i))
  BY <1>1, <1>2, <1>4 DEF q
<1>6. /\ i \in DOMAIN s /\ s[i] = key[n] /\ lruOrder[OnePartition[key[n]]] = s
      /\ OnePartition[key[n]] = 0 /\ Lru!At(key[n], i)
  BY <1>0, <1>1, ListSeen, ResidentSeen DEF OnePartition
<1> HIDE DEF s
<1>7. lruOrder' = [lruOrder EXCEPT ![0] = Lru!ToHead(s, i)]
  <2>1. lruOrder' = [p \in {0} |-> Cons(key[n], RemoveAt(s, i))]
    BY <1>5, MappedPrime
  <2>2. lruOrder = [p \in {0} |-> s]
    BY Mapped DEF s
  <2>3. Lru!ToHead(s, i) = Cons(key[n], RemoveAt(s, i))
    BY <1>6 DEF Lru!ToHead, Lru!Cons, Lru!RemoveAt, Cons, RemoveAt
  <2> HIDE DEF s
  <2> QED BY <2>1, <2>2, <2>3
<1> QED BY <1>6, <1>7 DEF Lru!MoveToHead

-----------------------------------------------------------------------------
(* Refinement: every call is one of LruSpec.                               *)

\* LruSpec names the codes and contents as LruCache does.
LEMMA SameNames ==
  /\ Lru!OK = OK /\ Lru!FAIL = FAIL /\ Lru!FULL = FULL /\ Lru!MISS = MISS /\ Lru!CRASH = CRASH
  /\ Lru!Contents = Contents
  /\ \A r, v : Lru!Reply(r, v) <=> Reply(r, v)
BY DEF Lru!OK, OK, Lru!FAIL, FAIL, Lru!FULL, FULL, Lru!MISS, MISS, Lru!CRASH, CRASH,
       Lru!Contents, Contents, Lru!Reply, Reply

\* A call that leaves the nodes alone is one that leaves the list alone.
LEMMA NothingSeen ==
  ASSUME UNCHANGED <<mru, fields, current_bytes_size>>
  PROVE  UNCHANGED Lru!lruVars
BY Mapped, MappedPrime DEF Lru!lruVars, fields

\* The byte count.
LEMMA BytesSeen ==
  ASSUME NEW k \in Keys
  PROVE  /\ OnePartition[k] = 0 /\ lruBytes[0] = current_bytes_size
         /\ \A c : current_bytes_size' = c => lruBytes' = [lruBytes EXCEPT ![0] = c]
BY Mapped, MappedPrime DEF OnePartition

\* lru_cache_put on a key that a node holds.
LEMMA PutUpdateSeen ==
  ASSUME IInv, phase = "open", NEW n \in live, NEW v \in Contents, PutUpdate(n, v)
  PROVE  \E r \in {OK, FAIL} : Lru!PutUpdate(key[n], v, r) /\ Reply(r, NULL) /\ UNCHANGED phase
<1> DEFINE k == key[n]
<1>0. /\ k \in Keys /\ n \in Nodes /\ Distinct(live, key) /\ \A m \in live : key[m] \in Keys
      /\ live \subseteq Nodes
  BY Sight
<1>typ. value \in [Nodes -> Contents \cup {NULL}] /\ size \in [Nodes -> Nat]
  BY DEF IInv, RestTyped
<1>1. Lru!Resident(k)
  BY <1>0, ResidentSeen
<1>2. lruSize[k] = size[n]
  BY <1>0, Mapped, ViewAt
<1>3. CASE /\ MemMayFail
           /\ value' = [value EXCEPT ![n] = NULL]
           /\ Reply(FAIL, NULL)
           /\ UNCHANGED <<links, key, size, live, buckets, current_bytes_size, phase>>
  <2>1. value'[n] = NULL /\ \A m \in live \ {n} : value'[m] = value[m]
    BY <1>0, <1>3, <1>typ
  <2>2. lruVal' = [lruVal EXCEPT ![k] = NULL]
    <3>1. View(live, key, value', NULL) =
            [View(live, key, value, NULL) EXCEPT ![key[n]] = value'[n]]
      BY <1>0, <2>1, ViewChanged
    <3> QED BY <3>1, <2>1, <1>3, Mapped, MappedPrime
  <2>3. UNCHANGED <<lruOrder, lruSize, lruBytes>>
    BY <1>3, Mapped, MappedPrime DEF links
  <2>4. Lru!PutUpdate(k, v, FAIL)
    BY <1>1, <1>3, <2>2, <2>3, SameNames DEF Lru!PutUpdate
  <2> QED BY <2>4, <1>3
<1>4. CASE /\ value' = [value EXCEPT ![n] = v]
           /\ size' = [size EXCEPT ![n] = SizeOf[v]]
           /\ current_bytes_size' = current_bytes_size + (SizeOf[v] - size[n])
           /\ move_to_head(n)
           /\ Reply(OK, NULL)
           /\ UNCHANGED <<key, live, buckets, phase>>
  <2>1. /\ value'[n] = v /\ \A m \in live \ {n} : value'[m] = value[m]
        /\ size'[n] = SizeOf[v] /\ \A m \in live \ {n} : size'[m] = size[m]
    BY <1>0, <1>4, <1>typ
  <2>2. lruVal' = [lruVal EXCEPT ![k] = v]
    <3>1. View(live, key, value', NULL) =
            [View(live, key, value, NULL) EXCEPT ![key[n]] = value'[n]]
      BY <1>0, <2>1, ViewChanged
    <3> QED BY <3>1, <2>1, <1>4, Mapped, MappedPrime
  <2>3. lruSize' = [lruSize EXCEPT ![k] = SizeOf[v]]
    <3>1. View(live, key, size', 0) = [View(live, key, size, 0) EXCEPT ![key[n]] = size'[n]]
      BY <1>0, <2>1, ViewChanged
    <3> QED BY <3>1, <2>1, <1>4, Mapped, MappedPrime
  <2>4. lruBytes' = [lruBytes EXCEPT ![OnePartition[k]] = @ + (SizeOf[v] - lruSize[k])]
    BY <1>0, <1>2, <1>4, BytesSeen
  <2>5. Lru!MoveToHead(k)
    BY <1>4, MoveSeen DEF move_to_head
  <2>6. Lru!PutUpdate(k, v, OK)
    BY <1>1, <2>2, <2>3, <2>4, <2>5, SameNames DEF Lru!PutUpdate
  <2> QED BY <2>6, <1>4
<1> QED BY <1>3, <1>4 DEF PutUpdate

\* lru_cache_put on a key that no node holds.
LEMMA PutInsertSeen ==
  ASSUME IInv, phase = "open", NEW k \in Keys, NotFound(k), NEW v \in Contents, PutInsert(k, v)
  PROVE  \E r \in {OK, FAIL} : Lru!PutInsert(k, v, r) /\ Reply(r, NULL) /\ UNCHANGED phase
<1>0. /\ Distinct(live, key) /\ \A m \in live : key[m] \in Keys
      /\ live \subseteq Nodes /\ live = Range(mru) /\ mru \in Seq(Nodes)
      /\ \A i \in 1 .. Len(mru) : mru[i] \in live /\ key[mru[i]] \in Keys
  BY Sight
<1>typ. /\ value \in [Nodes -> Contents \cup {NULL}] /\ size \in [Nodes -> Nat]
        /\ key \in [Nodes -> Keys \cup {NULL}]
  BY DEF IInv, RestTyped, TableTyped
<1>1. ~ Lru!Resident(k) /\ \A m \in live : key[m] # k
  BY ResidentSeen, LookupSeen
<1>2. CASE /\ MemMayFail
           /\ Reply(FAIL, NULL)
           /\ UNCHANGED <<links, fields, buckets, current_bytes_size, phase>>
  <2>1. Lru!PutInsert(k, v, FAIL)
    BY <1>1, <1>2, NothingSeen, SameNames DEF Lru!PutInsert, links
  <2> QED BY <2>1, <1>2
<1>3. ASSUME NEW n \in Nodes \ live, create_node(n, k, v), add_to_head(n),
             current_bytes_size' = current_bytes_size + SizeOf[v], Reply(OK, NULL),
             UNCHANGED phase
      PROVE  Lru!PutInsert(k, v, OK)
  <2>0. live' = live \cup {n}
    BY <1>3 DEF create_node
  <2>1. /\ value'[n] = v /\ \A m \in live : value'[m] = value[m]
        /\ size'[n] = SizeOf[v] /\ \A m \in live : size'[m] = size[m]
        /\ key'[n] = k /\ \A m \in live : key'[m] = key[m]
    BY <1>0, <1>3, <1>typ DEF create_node
  <2>2. lruVal' = [lruVal EXCEPT ![k] = v]
    <3>1. View(live', key', value', NULL) = [View(live, key, value, NULL) EXCEPT ![k] = value'[n]]
      BY <1>0, <1>1, <1>3, <2>0, <2>1, ViewAdded
    <3> QED BY <3>1, <2>1, Mapped, MappedPrime
  <2>3. lruSize' = [lruSize EXCEPT ![k] = SizeOf[v]]
    <3>1. View(live', key', size', 0) = [View(live, key, size, 0) EXCEPT ![k] = size'[n]]
      BY <1>0, <1>1, <1>3, <2>0, <2>1, ViewAdded, SMTT(60)
    <3> QED BY <3>1, <2>1, Mapped, MappedPrime
  <2>4. lruBytes' = [lruBytes EXCEPT ![OnePartition[k]] = @ + SizeOf[v]]
    BY <1>3, BytesSeen
  <2>5. lruOrder' = [lruOrder EXCEPT ![OnePartition[k]] = Lru!Cons(k, @)]
    <3>1. mru' = Cons(n, mru)
      BY <1>3 DEF add_to_head
    <3>2. KeysOf(Cons(n, mru), key') = Cons(key'[n], KeysOf(mru, key))
      <4>1. /\ \A i \in 1 .. Len(mru) : key[mru[i]] \in Keys
            /\ \A i \in 1 .. Len(mru) : key'[mru[i]] = key[mru[i]]
            /\ n \in Nodes /\ key'[n] \in Keys
        BY <1>0, <1>3, <2>1
      <4> QED BY <4>1, <1>0, KeysOfCons
    <3>3. KeysOf(mru', key') = Cons(k, KeysOf(mru, key))
      BY <3>1, <3>2, <2>1
    <3>4. Lru!Cons(k, KeysOf(mru, key)) = Cons(k, KeysOf(mru, key))
      BY DEF Lru!Cons, Cons
    <3>5. lruOrder[0] = KeysOf(mru, key)
      BY ListSeen
    <3> QED BY <3>3, <3>4, <3>5, Mapped, MappedPrime, BytesSeen
  <2> QED BY <1>1, <2>2, <2>3, <2>4, <2>5, SameNames DEF Lru!PutInsert
<1> QED BY <1>2, <1>3 DEF PutInsert

\* lru_cache_put.
LEMMA PutSeen ==
  ASSUME IInv, phase = "open", NEW k \in Keys, NEW v \in Contents, lru_cache_put(k, v)
  PROVE  Lru!Put(k, v)
<1>1. Lru!NoRoom(k, v) <=> current_bytes_size + SizeOf[v] >= Capacity
  BY BytesSeen DEF Lru!NoRoom
<1>2. current_bytes_size \in Int /\ SizeOf[v] \in Nat /\ Capacity \in Nat
  BY DataAssumption, CacheAssumption DEF IInv, RestTyped
<1>3. CASE /\ current_bytes_size + SizeOf[v] >= Capacity
           /\ Reply(FULL, NULL)
           /\ UNCHANGED <<links, fields, buckets, current_bytes_size, phase>>
  <2>1. Lru!lru_cache_put(k, v, FULL)
    BY <1>1, <1>3, NothingSeen, SameNames DEF Lru!lru_cache_put, links
  <2> QED BY <2>1, <1>3, SameNames DEF Lru!Put
<1>4. ASSUME current_bytes_size + SizeOf[v] < Capacity,
             NEW r \in {OK, FAIL}, Lru!PutUpdate(k, v, r) \/ Lru!PutInsert(k, v, r),
             Reply(r, NULL), UNCHANGED phase
      PROVE  Lru!Put(k, v)
  <2>1. Lru!lru_cache_put(k, v, r)
    BY <1>1, <1>2, <1>4 DEF Lru!lru_cache_put
  <2> QED BY <2>1, <1>4, SameNames DEF Lru!Put
<1>5. ASSUME current_bytes_size + SizeOf[v] < Capacity,
             NEW i \in DOMAIN Chain(k), FoundAt(k, i), PutUpdate(Chain(k)[i].node, v)
      PROVE  Lru!Put(k, v)
  <2> DEFINE n == Chain(k)[i].node
  <2>1. n \in live /\ key[n] = k /\ PutUpdate(n, v)
    BY <1>5, LookupSeen
  <2> HIDE DEF n
  <2>2. \E r \in {OK, FAIL} : Lru!PutUpdate(key[n], v, r) /\ Reply(r, NULL) /\ UNCHANGED phase
    BY <2>1, PutUpdateSeen
  <2> QED BY <1>4, <1>5, <2>1, <2>2
<1>6. ASSUME current_bytes_size + SizeOf[v] < Capacity, NotFound(k), PutInsert(k, v)
      PROVE  Lru!Put(k, v)
  BY <1>4, <1>6, PutInsertSeen
<1> QED BY <1>3, <1>5, <1>6 DEF lru_cache_put

\* lru_cache_get.
LEMMA GetSeen ==
  ASSUME IInv, phase = "open", NEW k \in Keys, lru_cache_get(k)
  PROVE  Lru!Get(k)
<1>fr. UNCHANGED <<fields, buckets, current_bytes_size>>
  BY DEF lru_cache_get
<1>1. ASSUME NotFound(k), Reply(MISS, NULL), UNCHANGED <<links, phase>> PROVE Lru!Get(k)
  <2>1. ~ Lru!Resident(k)
    BY <1>1, ResidentSeen, LookupSeen
  <2>2. Lru!lru_cache_get(k, MISS, NULL)
    BY <1>1, <1>fr, <2>1, NothingSeen, SameNames DEF Lru!lru_cache_get, links
  <2>3. phase' = IF MISS = CRASH THEN "crashed" ELSE phase
    BY <1>1 DEF MISS, CRASH
  <2> QED BY <2>2, <2>3, <1>1, SameNames DEF Lru!Get
<1>2. ASSUME NEW i \in DOMAIN Chain(k), FoundAt(k, i), GetFound(Chain(k)[i].node)
      PROVE  Lru!Get(k)
  <2> DEFINE n == Chain(k)[i].node
  <2>1. n \in live /\ key[n] = k /\ GetFound(n)
    BY <1>2, LookupSeen
  <2> HIDE DEF n
  <2>2. Lru!Resident(k)
    BY <2>1, ResidentSeen
  <2>3. lruVal[k] = value[n] /\ lruSize[k] = size[n]
    BY <2>1, Sight, Mapped, ViewAt
  <2>4. CASE MemMayFail /\ Reply(FAIL, NULL) /\ UNCHANGED <<links, phase>>
    <3>1. Lru!lru_cache_get(k, FAIL, NULL)
      BY <2>2, <2>4, <1>fr, NothingSeen, SameNames DEF Lru!lru_cache_get, links
    <3>2. phase' = IF FAIL = CRASH THEN "crashed" ELSE phase
      BY <2>4 DEF FAIL, CRASH
    <3> QED BY <3>1, <3>2, <2>4, SameNames DEF Lru!Get
  <2>5. CASE /\ value[n] = NULL /\ size[n] > 0
             /\ phase' = "crashed" /\ Reply(CRASH, NULL) /\ UNCHANGED links
    <3>1. Lru!lru_cache_get(k, CRASH, NULL)
      BY <2>2, <2>3, <2>5, <1>fr, NothingSeen, SameNames DEF Lru!lru_cache_get, links
    <3> QED BY <3>1, <2>5, SameNames DEF Lru!Get
  <2>6. CASE /\ value[n] # NULL \/ size[n] = 0
             /\ move_to_head(n) /\ Reply(OK, value[n]) /\ UNCHANGED phase
    <3>1. Lru!MoveToHead(k)
      BY <2>1, <2>6, <1>fr, MoveSeen DEF move_to_head, fields
    <3>2. UNCHANGED <<lruVal, lruSize, lruBytes>>
      BY <1>fr, Mapped, MappedPrime DEF fields
    <3>3. Lru!lru_cache_get(k, OK, value[n])
      BY <2>2, <2>3, <2>6, <3>1, <3>2, SameNames DEF Lru!lru_cache_get
    <3>4. value[n] \in Contents \cup {NULL}
      BY <2>1, Sight DEF IInv, RestTyped
    <3>5. phase' = IF OK = CRASH THEN "crashed" ELSE phase
      BY <2>6 DEF OK, CRASH
    <3> QED BY <3>3, <3>4, <3>5, <2>6, SameNames DEF Lru!Get
  <2> QED BY <2>1, <2>4, <2>5, <2>6 DEF GetFound
<1> QED BY <1>1, <1>2 DEF lru_cache_get

\* A node leaves the list and is freed.
LEMMA FreeSeen ==
  ASSUME IInv, phase = "open", NEW n \in live, UnlinkNode(n), FreeNode(n),
         current_bytes_size' = current_bytes_size - size[n]
  PROVE  Lru!Unlink(key[n])
<1> DEFINE k == key[n]
           s == KeysOf(mru, key)
<1>0. /\ k \in Keys /\ n \in Nodes /\ Distinct(live, key) /\ \A m \in live : key[m] \in Keys
      /\ live \subseteq Nodes /\ mru \in Seq(Nodes) /\ DOMAIN mru = 1 .. Len(mru)
      /\ \A i \in 1 .. Len(mru) : mru[i] \in live
      /\ \A i \in 1 .. Len(mru) : key[mru[i]] \in Keys
      /\ \A i, j \in 1 .. Len(mru) : mru[i] = mru[j] => i = j
  BY Sight
<1>typ. /\ value \in [Nodes -> Contents \cup {NULL}] /\ size \in [Nodes -> Nat]
        /\ key \in [Nodes -> Keys \cup {NULL}]
  BY DEF IInv, RestTyped, TableTyped
<1>1. /\ live' = live \ {n}
      /\ \A m \in live' : value'[m] = value[m]
      /\ \A m \in live' : size'[m] = size[m]
      /\ \A m \in live' : key'[m] = key[m]
  BY <1>0, <1>typ DEF FreeNode
<1>view. /\ Distinct(live, key) /\ live' = live \ {n}
         /\ \A m \in live : key[m] \in Keys
         /\ \A m \in live' : key'[m] = key[m]
  BY <1>0, <1>1
<1>2. lruVal' = [lruVal EXCEPT ![k] = NULL]
  <2>0. \A m \in live' : value'[m] = value[m]
    BY <1>1
  <2>1. View(live', key', value', NULL) = [View(live, key, value, NULL) EXCEPT ![key[n]] = NULL]
    BY <1>view, <2>0, ViewRemoved
  <2> QED BY <2>1, <1>1, Mapped, MappedPrime
<1>3. lruSize' = [lruSize EXCEPT ![k] = 0]
  <2>0. \A m \in live' : size'[m] = size[m]
    BY <1>1
  <2>1. View(live', key', size', 0) = [View(live, key, size, 0) EXCEPT ![key[n]] = 0]
    BY <1>view, <2>0, ViewRemoved
  <2> QED BY <2>1, <1>1, Mapped, MappedPrime
<1>4. lruSize[k] = size[n]
  BY <1>0, Mapped, ViewAt
<1>5. lruBytes' = [lruBytes EXCEPT ![OnePartition[k]] = @ - lruSize[k]]
  BY <1>0, <1>4, BytesSeen
<1>6. PICK i \in 1 .. Len(mru) : mru[i] = n /\ mru' = RemoveAt(mru, i)
  BY <1>0 DEF UnlinkNode
<1>7. KeysOf(mru', key') = RemoveAt(s, i)
  <2>1. \A m \in 1 .. Len(mru) : m # i => key'[mru[m]] = key[mru[m]]
    BY <1>0, <1>1, <1>6
  <2> QED BY <2>1, <1>0, <1>6, KeysOfRemove
<1>8. i \in DOMAIN s /\ lruOrder[OnePartition[k]] = s /\ OnePartition[k] = 0 /\ Lru!At(k, i)
  BY <1>0, <1>6, ListSeen, ResidentSeen DEF OnePartition
<1>9. lruOrder' = [lruOrder EXCEPT ![0] = Lru!RemoveAt(s, i)]
  <2>1. lruOrder' = [p \in {0} |-> RemoveAt(s, i)]
    BY <1>7, MappedPrime
  <2>2. lruOrder = [p \in {0} |-> s]
    BY Mapped
  <2>3. Lru!RemoveAt(s, i) = RemoveAt(s, i)
    BY DEF Lru!RemoveAt, RemoveAt
  <2> HIDE DEF s
  <2> QED BY <2>1, <2>2, <2>3
<1> HIDE DEF s
<1> QED BY <1>2, <1>3, <1>5, <1>8, <1>9 DEF Lru!Unlink

\* lru_cache_evict.
LEMMA EvictSeen ==
  ASSUME IInv, phase = "open", NEW k \in Keys, lru_cache_evict(k)
  PROVE  Lru!Evict(k)
<1>1. ASSUME NotFound(k), Reply(MISS, NULL),
             UNCHANGED <<links, fields, buckets, current_bytes_size, phase>>
      PROVE  Lru!Evict(k)
  <2>1. ~ Lru!Resident(k)
    BY <1>1, ResidentSeen, LookupSeen
  <2>2. Lru!lru_cache_evict(k, MISS)
    BY <1>1, <2>1, NothingSeen, SameNames DEF Lru!lru_cache_evict, links
  <2> QED BY <2>2, <1>1, SameNames DEF Lru!Evict
<1>2. ASSUME NEW i \in DOMAIN Chain(k), FoundAt(k, i), EvictFound(k, i)
      PROVE  Lru!Evict(k)
  <2> DEFINE n == Chain(k)[i].node
  <2>1. n \in live /\ key[n] = k
    BY <1>2, LookupSeen
  <2>2. /\ UnlinkNode(n) /\ FreeNode(n) /\ current_bytes_size' = current_bytes_size - size[n]
        /\ Reply(OK, NULL) /\ UNCHANGED phase
    BY <1>2 DEF EvictFound
  <2> HIDE DEF n
  <2>3. Lru!Unlink(k)
    BY <2>1, <2>2, FreeSeen
  <2>4. Lru!lru_cache_evict(k, OK)
    BY <2>3, SameNames DEF Lru!lru_cache_evict
  <2> QED BY <2>2, <2>4, SameNames DEF Lru!Evict
<1> QED BY <1>1, <1>2 DEF lru_cache_evict

\* The tail of the list is the last key.
LEMMA TailSeen ==
  ASSUME IInv, phase = "open"
  PROVE  /\ lruOrder[0] = << >> <=> tail = NULL
         /\ tail # NULL => tail \in live /\ lruOrder[0][Len(lruOrder[0])] = key[tail]
<1> DEFINE s == KeysOf(mru, key)
<1>1. /\ s \in Seq(Keys) /\ Len(s) = Len(mru) /\ lruOrder[0] = s
      /\ \A i \in 1 .. Len(mru) : s[i] = key[mru[i]]
  BY ListSeen
<1> HIDE DEF s
<1>2. /\ mru \in Seq(Nodes) /\ Len(mru) \in Nat /\ NULL \notin Nodes
      /\ tail = IF Len(mru) = 0 THEN NULL ELSE mru[Len(mru)]
      /\ \A i \in 1 .. Len(mru) : mru[i] \in live /\ mru[i] \in Nodes
  BY Sight, CacheAssumption DEF IInv, Structure, Linked
<1>3. s = << >> <=> Len(mru) = 0
  BY <1>1, <1>2
<1>4. tail = NULL <=> Len(mru) = 0
  BY <1>2
<1>5. ASSUME tail # NULL PROVE tail \in live /\ s[Len(s)] = key[tail]
  <2>1. Len(mru) \in 1 .. Len(mru) /\ tail = mru[Len(mru)]
    BY <1>2, <1>5
  <2> QED BY <2>1, <1>1, <1>2
<1> QED BY <1>1, <1>3, <1>4, <1>5

\* lru_cache_get_tail_node.
LEMMA GetTailSeen ==
  ASSUME IInv, phase = "open", lru_cache_get_tail_node
  PROVE  Lru!GetTail(0)
<1>1. Lru!lru_cache_get_tail_node(0) = IF tail = NULL THEN NULL ELSE key[tail]
  BY TailSeen DEF Lru!lru_cache_get_tail_node
<1>2. UNCHANGED <<lruOrder, lruVal, lruSize, lruBytes>>
  BY Mapped, MappedPrime DEF lru_cache_get_tail_node, links, fields
<1> QED BY <1>1, <1>2, SameNames DEF Lru!GetTail, lru_cache_get_tail_node

\* lru_cache_remove_tail.
LEMMA RemoveTailSeen ==
  ASSUME IInv, phase = "open", lru_cache_remove_tail
  PROVE  Lru!RemoveTail(0)
<1>1. CASE /\ tail = NULL /\ Reply(FAIL, NULL)
           /\ UNCHANGED <<links, fields, buckets, current_bytes_size, phase>>
  <2>1. Lru!lru_cache_remove_tail(0, FAIL)
    BY <1>1, TailSeen, NothingSeen, SameNames DEF Lru!lru_cache_remove_tail, links
  <2> QED BY <2>1, <1>1, SameNames DEF Lru!RemoveTail
<1>2. CASE /\ tail # NULL /\ UnlinkTail /\ FreeNode(tail)
           /\ current_bytes_size' = current_bytes_size - size[tail]
           /\ Reply(OK, NULL) /\ UNCHANGED phase
  <2>1. tail \in live /\ UnlinkNode(tail)
    BY <1>2, TailSeen, UnlinkTailIsUnlinkNode DEF IInv, Structure
  <2>2. Lru!Unlink(key[tail])
    BY <1>2, <2>1, FreeSeen
  <2>3. Lru!lru_cache_remove_tail(0, OK)
    BY <1>2, <2>2, TailSeen, SameNames DEF Lru!lru_cache_remove_tail
  <2> QED BY <2>3, <1>2, SameNames DEF Lru!RemoveTail
<1> QED BY <1>1, <1>2 DEF lru_cache_remove_tail

\* No node, no key.
LEMMA EmptySeen ==
  ASSUME NEW ky, NEW f, NEW d
  PROVE  KeysOf(<< >>, ky) = << >> /\ View({}, ky, f, d) = [k \in Keys |-> d]
<1>1. KeysOf(<< >>, ky) = << >>
  BY DEF KeysOf
<1>2. View({}, ky, f, d) = [k \in Keys |-> d]
  BY DEF View
<1> QED BY <1>1, <1>2

\* lru_cache_destroy.
LEMMA DestroySeen ==
  ASSUME IInv, phase = "open", lru_cache_destroy
  PROVE  Lru!Destroy
<1>1. live' = {} /\ mru' = << >>
  BY DestroyFreesAll DEF lru_cache_destroy
<1>2. lruOrder' = [p \in {0} |-> << >>]
  BY <1>1, EmptySeen, MappedPrime
<1>3. lruVal' = [k \in Keys |-> NULL] /\ lruSize' = [k \in Keys |-> 0]
  BY <1>1, EmptySeen, MappedPrime
<1>4. UNCHANGED <<lruBytes, reply>> /\ phase' = "destroyed"
  BY Mapped, MappedPrime DEF lru_cache_destroy
<1> QED BY <1>2, <1>3, <1>4 DEF Lru!Destroy

\* The initial state is one of LruSpec.
LEMMA InitSeen == Init => Lru!Init
<1> SUFFICES ASSUME Init PROVE Lru!Init
  OBVIOUS
<1>1. live = {} /\ mru = << >> /\ current_bytes_size = 0
  BY DEF Init
<1>2. lruOrder = [p \in {0} |-> << >>]
  BY <1>1, EmptySeen, Mapped
<1>3. lruVal = [k \in Keys |-> NULL] /\ lruSize = [k \in Keys |-> 0]
  BY <1>1, EmptySeen, Mapped
<1>4. lruBytes = [p \in {0} |-> 0]
  BY <1>1, Mapped
<1>5. Lru!LruInit
  BY <1>2, <1>3, <1>4 DEF Lru!LruInit
<1> QED BY <1>5, SameNames DEF Lru!Init, Init

\* Every step is a step of LruSpec, or leaves its variables alone.
LEMMA NextSeen == IInv /\ [Next]_vars => [Lru!Next]_(Lru!vars)
<1> SUFFICES ASSUME IInv, [Next]_vars PROVE [Lru!Next]_(Lru!vars)
  OBVIOUS
<1>1. CASE UNCHANGED vars
  <2>1. UNCHANGED <<lruOrder, lruVal, lruSize, lruBytes>>
    BY <1>1, Mapped, MappedPrime DEF vars
  <2>2. UNCHANGED Lru!vars
    BY <1>1, <2>1 DEF vars, Lru!vars
  <2> QED BY <2>2
<1>2. CASE phase = "open" /\ Call
  <2>1. Lru!Call
    BY <1>2, PutSeen, GetSeen, EvictSeen, GetTailSeen, RemoveTailSeen, DestroySeen, SameNames
       DEF Call, Lru!Call
  <2> QED BY <1>2, <2>1 DEF Lru!Next
<1> QED BY <1>1, <1>2 DEF Next, Stopped

\* lru_cache.c, with its pointers, chains and failing allocations, answers every
\* sequence of calls as the abstract LRU list does, and keeps its order of use,
\* its values and its byte count.
THEOREM Refinement == Spec => ImplementsLru
<1>1. Init /\ [][Next]_vars /\ []IInv => Lru!Init /\ [][Lru!Next]_(Lru!vars)
  BY InitSeen, NextSeen, PTL
<1> QED BY <1>1, Inductive, PTL DEF Spec, ImplementsLru, Lru!Spec
=============================================================================
