-------------------------- MODULE CacheRacesProofs --------------------------
(***************************************************************************)
(* What is proved of CacheRaces, for any set of keys and threads: what the *)
(* one mutex of the code protects.  Puts may be under way on every thread  *)
(* at once; the operations that do not take the mutex (lru_cache_get,      *)
(* lru_cache_remove_tail, cas_add_to_registry) run while nothing else      *)
(* does, as they do with one client.  What happens otherwise the instances *)
(* MCRaces.cfg (lru_cache_get) and MCRegistryRace.cfg show.                *)
(*                                                                         *)
(* The first part is about linked lists: Linked says that the pointers run *)
(* through a set of nodes both ways, and the lemmas what taking a node out *)
(* and putting it in front, pointer by pointer, do to it.  RaceInv says of *)
(* every statement which pointers were already turned (ListShape) and      *)
(* which part of the registry is already written (RegistryShape).          *)
(***************************************************************************)
EXTENDS CacheRaces, FiniteSetTheorems, TLAPS

\* s lists the n elements of S, each once.
Lists(s, n, S) ==
  /\ s \in [1 .. n -> S]
  /\ \A i, j \in 1 .. n : s[i] = s[j] => i = j
  /\ \A x \in S : \E i \in 1 .. n : s[i] = x

\* Pointers that run through s both ways.
Through(s, n, h, t, nx, pv) ==
  /\ h = IF n = 0 THEN NULL ELSE s[1]
  /\ t = IF n = 0 THEN NULL ELSE s[n]
  /\ \A i \in 1 .. n : nx[s[i]] = IF i = n THEN NULL ELSE s[i + 1]
  /\ \A i \in 1 .. n : pv[s[i]] = IF i = 1 THEN NULL ELSE s[i - 1]

\* The nodes of S are linked, from h to t.
Linked(h, t, nx, pv, S) ==
  \E n \in Nat : \E s \in [1 .. n -> S] : Lists(s, n, S) /\ Through(s, n, h, t, nx, pv)

-----------------------------------------------------------------------------
(* Facts about linked lists.                                               *)

\* No node, no list.
LEMMA LinkedNone ==
  ASSUME NEW nx, NEW pv
  PROVE  Linked(NULL, NULL, nx, pv, {})
<1> DEFINE s == [i \in 1 .. 0 |-> NULL]
<1>1. 0 \in Nat /\ s \in [1 .. 0 -> {}] /\ Lists(s, 0, {}) /\ Through(s, 0, NULL, NULL, nx, pv)
  BY DEF Lists, Through
<1> QED BY <1>1 DEF Linked

\* A single node.
LEMMA LinkedOne ==
  ASSUME NEW k, NEW nx, NEW pv, nx[k] = NULL, pv[k] = NULL
  PROVE  Linked(k, k, nx, pv, {k})
<1> DEFINE s == [i \in 1 .. 1 |-> k]
<1>1. 1 \in Nat /\ s \in [1 .. 1 -> {k}] /\ Lists(s, 1, {k}) /\ Through(s, 1, k, k, nx, pv)
  BY DEF Lists, Through
<1> QED BY <1>1 DEF Linked

\* Only the pointers of its own nodes matter to a list.
LEMMA LinkedSame ==
  ASSUME NEW h, NEW t, NEW nx, NEW pv, NEW S, NEW nx2, NEW pv2,
         Linked(h, t, nx, pv, S), \A x \in S : nx2[x] = nx[x] /\ pv2[x] = pv[x]
  PROVE  Linked(h, t, nx2, pv2, S)
<1>1. PICK n \in Nat : \E s \in [1 .. n -> S] : Lists(s, n, S) /\ Through(s, n, h, t, nx, pv)
  BY DEF Linked
<1>2. PICK s \in [1 .. n -> S] : Lists(s, n, S) /\ Through(s, n, h, t, nx, pv)
  BY <1>1
<1>3. Through(s, n, h, t, nx2, pv2)
  BY <1>2 DEF Through
<1> QED BY <1>2, <1>3 DEF Linked

\* The neighbours of a node.
LEMMA LinkedNeighbours ==
  ASSUME NEW h, NEW t, NEW nx, NEW pv, NEW S, Linked(h, t, nx, pv, S), NULL \notin S
  PROVE  /\ h \in S \/ (h = NULL /\ S = {})
         /\ t \in S \/ (t = NULL /\ S = {})
         /\ \A k \in S : /\ k # h => pv[k] \in S /\ pv[k] # k /\ nx[pv[k]] = k
                         /\ k # t => nx[k] \in S /\ nx[k] # k /\ pv[nx[k]] = k
                         /\ k = h => pv[k] = NULL
                         /\ k = t => nx[k] = NULL
         /\ h = t => S \subseteq {h}
<1>1. PICK n \in Nat : \E s \in [1 .. n -> S] : Lists(s, n, S) /\ Through(s, n, h, t, nx, pv)
  BY DEF Linked
<1>2. PICK s \in [1 .. n -> S] : Lists(s, n, S) /\ Through(s, n, h, t, nx, pv)
  BY <1>1
<1>3. CASE n = 0
  <2>1. S = {}
    BY <1>2, <1>3 DEF Lists
  <2> QED BY <1>2, <1>3, <2>1 DEF Through
<1>4. CASE n # 0
  <2>1. 1 \in 1 .. n /\ n \in 1 .. n /\ h = s[1] /\ t = s[n] /\ h \in S /\ t \in S
    BY <1>2, <1>4 DEF Through
  <2>2. ASSUME NEW k \in S
        PROVE  /\ k # h => pv[k] \in S /\ pv[k] # k /\ nx[pv[k]] = k
               /\ k # t => nx[k] \in S /\ nx[k] # k /\ pv[nx[k]] = k
               /\ k = h => pv[k] = NULL
               /\ k = t => nx[k] = NULL
    <3>1. PICK i \in 1 .. n : s[i] = k
      BY <1>2 DEF Lists
    <3>2. ASSUME k # h PROVE pv[k] \in S /\ pv[k] # k /\ nx[pv[k]] = k
      <4>1. i # 1 /\ i - 1 \in 1 .. n /\ i - 1 # n /\ (i - 1) + 1 = i /\ i - 1 # i
        BY <2>1, <3>1, <3>2
      <4>2. pv[k] = s[i - 1]
        BY <1>2, <3>1, <4>1 DEF Through
      <4>3. s[i - 1] \in S /\ s[i - 1] # s[i]
        BY <1>2, <4>1 DEF Lists
      <4>4. nx[s[i - 1]] = s[i]
        BY <1>2, <4>1 DEF Through
      <4> QED BY <3>1, <4>2, <4>3, <4>4
    <3>3. ASSUME k # t PROVE nx[k] \in S /\ nx[k] # k /\ pv[nx[k]] = k
      <4>1. i # n /\ i + 1 \in 1 .. n /\ i + 1 # 1 /\ (i + 1) - 1 = i /\ i + 1 # i
        BY <2>1, <3>1, <3>3
      <4>2. nx[k] = s[i + 1]
        BY <1>2, <3>1, <4>1 DEF Through
      <4>3. s[i + 1] \in S /\ s[i + 1] # s[i]
        BY <1>2, <4>1 DEF Lists
      <4>4. pv[s[i + 1]] = s[i]
        BY <1>2, <4>1 DEF Through
      <4> QED BY <3>1, <4>2, <4>3, <4>4
    <3>4. ASSUME k = h PROVE pv[k] = NULL
      BY <1>2, <2>1, <3>4 DEF Through
    <3>5. ASSUME k = t PROVE nx[k] = NULL
      BY <1>2, <2>1, <3>5 DEF Through
    <3> QED BY <3>2, <3>3, <3>4, <3>5
  <2>3. ASSUME h = t PROVE S \subseteq {h}
    <3>1. n = 1
      BY <1>2, <2>1, <2>3, ZenonT(60) DEF Lists
    <3> QED BY <1>2, <2>1, <3>1 DEF Lists
  <2> QED BY <2>1, <2>2, <2>3
<1> QED BY <1>3, <1>4

\* s without its i-th element.
Dropped(s, n, i) == [j \in 1 .. (n - 1) |-> IF j < i THEN s[j] ELSE s[j + 1]]

\* What is left is listed once.
LEMMA DroppedLists ==
  ASSUME NEW S, NEW n \in Nat, NEW s \in [1 .. n -> S], Lists(s, n, S), NEW i \in 1 .. n
  PROVE  /\ n - 1 \in Nat
         /\ Dropped(s, n, i) \in [1 .. (n - 1) -> S \ {s[i]}]
         /\ Lists(Dropped(s, n, i), n - 1, S \ {s[i]})
<1> DEFINE d == Dropped(s, n, i)
<1>1. n - 1 \in Nat
  OBVIOUS
<1>2. \A j \in 1 .. (n - 1) : d[j] = IF j < i THEN s[j] ELSE s[j + 1]
  BY DEF Dropped
<1>3. \A j \in 1 .. (n - 1) : d[j] \in S \ {s[i]}
  <2> TAKE j \in 1 .. (n - 1)
  <2>1. j \in 1 .. n /\ j + 1 \in 1 .. n
    OBVIOUS
  <2> QED BY <1>2, <2>1 DEF Lists
<1>4. d \in [1 .. (n - 1) -> S \ {s[i]}]
  BY <1>3 DEF Dropped
<1>5. ASSUME NEW j \in 1 .. (n - 1), NEW m \in 1 .. (n - 1), d[j] = d[m] PROVE j = m
  <2>1. j \in 1 .. n /\ j + 1 \in 1 .. n /\ m \in 1 .. n /\ m + 1 \in 1 .. n
    OBVIOUS
  <2> QED BY <1>2, <1>5, <2>1 DEF Lists
<1>6. ASSUME NEW x \in S \ {s[i]} PROVE \E j \in 1 .. (n - 1) : d[j] = x
  <2>1. PICK m \in 1 .. n : s[m] = x
    BY DEF Lists
  <2>2. CASE m < i
    <3>1. m \in 1 .. (n - 1)
      BY <2>2
    <3> QED BY <1>2, <2>1, <2>2, <3>1
  <2>3. CASE m > i
    <3>1. m - 1 \in 1 .. (n - 1) /\ ~ (m - 1 < i) /\ (m - 1) + 1 = m
      BY <2>3
    <3> QED BY <1>2, <2>1, <3>1
  <2>4. m # i
    BY <2>1
  <2> QED BY <2>2, <2>3, <2>4
<1> HIDE DEF d
<1>7. Lists(d, n - 1, S \ {s[i]})
  BY <1>4, <1>5, <1>6 DEF Lists
<1> QED BY <1>1, <1>4, <1>7 DEF d

\* Every pointer to k becomes the pointer k has.
Bypassed(h, t, nx, pv, S, k, h2, t2, nx2, pv2) ==
  /\ h2 = IF h = k THEN nx[k] ELSE h
  /\ t2 = IF t = k THEN pv[k] ELSE t
  /\ \A x \in S \ {k} : nx2[x] = IF nx[x] = k THEN nx[k] ELSE nx[x]
  /\ \A x \in S \ {k} : pv2[x] = IF pv[x] = k THEN pv[k] ELSE pv[x]

\* Then k has left the list.
LEMMA LinkedWithout ==
  ASSUME NEW h, NEW t, NEW nx, NEW pv, NEW S, NEW k \in S, NEW h2, NEW t2, NEW nx2, NEW pv2,
         Linked(h, t, nx, pv, S), NULL \notin S,
         Bypassed(h, t, nx, pv, S, k, h2, t2, nx2, pv2)
  PROVE  Linked(h2, t2, nx2, pv2, S \ {k})
<1>0. /\ h2 = IF h = k THEN nx[k] ELSE h
      /\ t2 = IF t = k THEN pv[k] ELSE t
      /\ \A x \in S \ {k} : nx2[x] = IF nx[x] = k THEN nx[k] ELSE nx[x]
      /\ \A x \in S \ {k} : pv2[x] = IF pv[x] = k THEN pv[k] ELSE pv[x]
  BY DEF Bypassed
<1>1. PICK n \in Nat : \E s \in [1 .. n -> S] : Lists(s, n, S) /\ Through(s, n, h, t, nx, pv)
  BY DEF Linked
<1>2. PICK s \in [1 .. n -> S] : Lists(s, n, S) /\ Through(s, n, h, t, nx, pv)
  BY <1>1
<1>3. PICK i \in 1 .. n : s[i] = k
  BY <1>2 DEF Lists
<1> DEFINE d == Dropped(s, n, i)
<1>4. n - 1 \in Nat /\ d \in [1 .. (n - 1) -> S \ {k}] /\ Lists(d, n - 1, S \ {k})
  BY <1>2, <1>3, DroppedLists
<1>5. \A j \in 1 .. (n - 1) : d[j] = IF j < i THEN s[j] ELSE s[j + 1]
  BY DEF Dropped
<1> HIDE DEF d
<1>6. /\ \A j \in 1 .. n : nx[s[j]] = IF j = n THEN NULL ELSE s[j + 1]
      /\ \A j \in 1 .. n : pv[s[j]] = IF j = 1 THEN NULL ELSE s[j - 1]
      /\ h = s[1] /\ t = s[n]
  BY <1>2, <1>3 DEF Through
<1>7. \A j, m \in 1 .. n : s[j] = s[m] => j = m
  BY <1>2 DEF Lists
<1>8. h2 = IF n - 1 = 0 THEN NULL ELSE d[1]
  <2>1. CASE i = 1
    <3>1. h2 = nx[s[1]]
      BY <1>0, <1>3, <1>6, <2>1
    <3>2. nx[s[1]] = IF 1 = n THEN NULL ELSE s[1 + 1]
      BY <1>3, <1>6, <2>1
    <3> QED BY <1>3, <1>5, <2>1, <3>1, <3>2
  <2>2. CASE i # 1
    <3>1. h2 = s[1] /\ 1 \in 1 .. (n - 1) /\ 1 < i
      BY <1>0, <1>3, <1>6, <1>7, <2>2
    <3> QED BY <1>5, <3>1
  <2> QED BY <2>1, <2>2
<1>9. t2 = IF n - 1 = 0 THEN NULL ELSE d[n - 1]
  <2>1. CASE i = n
    <3>1. t2 = pv[s[n]]
      BY <1>0, <1>3, <1>6, <2>1
    <3>2. pv[s[n]] = IF n = 1 THEN NULL ELSE s[n - 1]
      BY <1>3, <1>6, <2>1
    <3> QED BY <1>3, <1>5, <2>1, <3>1, <3>2
  <2>2. CASE i # n
    <3>1. t2 = s[n] /\ n - 1 \in 1 .. (n - 1) /\ ~ (n - 1 < i) /\ (n - 1) + 1 = n /\ n - 1 # 0
      BY <1>0, <1>3, <1>6, <1>7, <2>2
    <3> QED BY <1>5, <3>1
  <2> QED BY <2>1, <2>2
<1>10. ASSUME NEW j \in 1 .. (n - 1) PROVE nx2[d[j]] = IF j = n - 1 THEN NULL ELSE d[j + 1]
  <2>1. j \in 1 .. n /\ j + 1 \in 1 .. n /\ (j # n - 1 => j + 2 \in 1 .. n /\ j + 1 \in 1 .. (n - 1))
    OBVIOUS
  <2>2. d[j] \in S \ {k} /\ nx2[d[j]] = IF nx[d[j]] = k THEN nx[k] ELSE nx[d[j]]
    BY <1>0, <1>4
  <2>3. NULL # k
    OBVIOUS
  <2>4. CASE j < i - 1
    <3>1. d[j] = s[j] /\ d[j + 1] = s[j + 1] /\ j # n - 1 /\ j # n
      BY <1>3, <1>5, <2>1, <2>4
    <3>2. nx[s[j]] = s[j + 1] /\ s[j + 1] # k
      BY <1>3, <1>6, <1>7, <2>1, <2>4, <3>1
    <3> QED BY <2>2, <3>1, <3>2
  <2>5. CASE j = i - 1
    <3>1. d[j] = s[j] /\ nx[s[j]] = k /\ j + 1 = i
      BY <1>3, <1>5, <1>6, <2>1, <2>5
    <3>2. nx[k] = IF i = n THEN NULL ELSE s[i + 1]
      BY <1>3, <1>6
    <3>3. ASSUME j # n - 1 PROVE d[j + 1] = s[i + 1] /\ i # n
      BY <1>5, <2>1, <3>1, <3>3
    <3>4. j = n - 1 => i = n
      BY <3>1
    <3> QED BY <2>2, <3>1, <3>2, <3>3, <3>4
  <2>6. CASE j > i - 1
    <3>1. d[j] = s[j + 1] /\ (j # n - 1 => d[j + 1] = s[j + 2] /\ j + 1 # n) /\ (j = n - 1 => j + 1 = n)
      BY <1>3, <1>5, <2>1, <2>6
    <3>2. nx[s[j + 1]] = IF j + 1 = n THEN NULL ELSE s[(j + 1) + 1]
      BY <1>6, <2>1
    <3>3. (j + 1) + 1 = j + 2
      OBVIOUS
    <3>4. j # n - 1 => s[j + 2] # k
      BY <1>3, <1>7, <2>1, <2>6
    <3> QED BY <2>2, <2>3, <3>1, <3>2, <3>3, <3>4
  <2> QED BY <2>4, <2>5, <2>6
<1>11. ASSUME NEW j \in 1 .. (n - 1) PROVE pv2[d[j]] = IF j = 1 THEN NULL ELSE d[j - 1]
  <2>1. j \in 1 .. n /\ j + 1 \in 1 .. n /\ (j # 1 => j - 1 \in 1 .. n /\ j - 1 \in 1 .. (n - 1))
    OBVIOUS
  <2>2. d[j] \in S \ {k} /\ pv2[d[j]] = IF pv[d[j]] = k THEN pv[k] ELSE pv[d[j]]
    BY <1>0, <1>4
  <2>3. NULL # k
    OBVIOUS
  <2>4. CASE j < i
    <3>1. d[j] = s[j] /\ (j # 1 => d[j - 1] = s[j - 1])
      BY <1>3, <1>5, <2>1, <2>4
    <3>2. pv[s[j]] = (IF j = 1 THEN NULL ELSE s[j - 1]) /\ (j # 1 => s[j - 1] # k)
      BY <1>3, <1>6, <1>7, <2>1, <2>4
    <3> QED BY <2>2, <2>3, <3>1, <3>2
  <2>5. CASE j = i
    <3>1. d[j] = s[j + 1] /\ (j + 1) - 1 = j /\ j + 1 # 1
      BY <1>5, <2>5
    <3>2. pv[s[j + 1]] = k
      BY <1>3, <1>6, <2>1, <2>5, <3>1
    <3>3. pv[k] = IF i = 1 THEN NULL ELSE s[i - 1]
      BY <1>3, <1>6
    <3>4. j # 1 => d[j - 1] = s[j - 1]
      BY <1>3, <1>5, <2>1, <2>5
    <3> QED BY <2>2, <2>5, <3>1, <3>2, <3>3, <3>4
  <2>6. CASE j > i
    <3>1. /\ d[j] = s[j + 1] /\ j # 1 /\ d[j - 1] = s[(j - 1) + 1]
          /\ (j - 1) + 1 = j /\ (j + 1) - 1 = j /\ j + 1 # 1
      BY <1>3, <1>5, <2>1, <2>6
    <3>2. pv[s[j + 1]] = s[j] /\ s[j] # k
      BY <1>3, <1>6, <1>7, <2>1, <2>6, <3>1
    <3> QED BY <2>2, <3>1, <3>2
  <2> QED BY <2>4, <2>5, <2>6
<1>12. Through(d, n - 1, h2, t2, nx2, pv2)
  BY <1>8, <1>9, <1>10, <1>11 DEF Through
<1> QED BY <1>4, <1>12 DEF Linked

\* As the code does it: the neighbours that there are, each by one assignment.
Unlinked(h, t, nx, pv, S, k, h2, t2, nx2, pv2) ==
  /\ h2 = IF h = k THEN nx[k] ELSE h
  /\ t2 = IF t = k THEN pv[k] ELSE t
  /\ \A x \in S \ {k} : nx2[x] = IF h # k /\ x = pv[k] THEN nx[k] ELSE nx[x]
  /\ \A x \in S \ {k} : pv2[x] = IF t # k /\ x = nx[k] THEN pv[k] ELSE pv[x]

\* Then k has left the list, too.
LEMMA LinkedUnlinked ==
  ASSUME NEW h, NEW t, NEW nx, NEW pv, NEW S, NEW k \in S, NEW h2, NEW t2, NEW nx2, NEW pv2,
         Linked(h, t, nx, pv, S), NULL \notin S,
         Unlinked(h, t, nx, pv, S, k, h2, t2, nx2, pv2)
  PROVE  Linked(h2, t2, nx2, pv2, S \ {k})
<1>1. /\ h \in S /\ t \in S
      /\ \A y \in S : /\ y # h => pv[y] \in S /\ pv[y] # y /\ nx[pv[y]] = y
                      /\ y # t => nx[y] \in S /\ nx[y] # y /\ pv[nx[y]] = y
                      /\ y = h => pv[y] = NULL
                      /\ y = t => nx[y] = NULL
  BY LinkedNeighbours
<1>2. ASSUME NEW x \in S \ {k} PROVE nx2[x] = IF nx[x] = k THEN nx[k] ELSE nx[x]
  <2>1. nx[x] = k <=> h # k /\ x = pv[k]
    BY <1>1
  <2> QED BY <2>1 DEF Unlinked
<1>3. ASSUME NEW x \in S \ {k} PROVE pv2[x] = IF pv[x] = k THEN pv[k] ELSE pv[x]
  <2>1. pv[x] = k <=> t # k /\ x = nx[k]
    BY <1>1
  <2> QED BY <2>1 DEF Unlinked
<1>4. Bypassed(h, t, nx, pv, S, k, h2, t2, nx2, pv2)
  BY <1>2, <1>3 DEF Bypassed, Unlinked
<1> QED BY <1>4, LinkedWithout

\* k in front of s.
Prefixed(k, s, n) == [j \in 1 .. (n + 1) |-> IF j = 1 THEN k ELSE s[j - 1]]

\* A node that points to the head, and the head back to it, is the new head.
LEMMA LinkedFirst ==
  ASSUME NEW h, NEW t, NEW nx, NEW pv, NEW S, NEW k, NEW nx2, NEW pv2,
         Linked(h, t, nx, pv, S), NULL \notin S, k \notin S, h # NULL,
         nx2[k] = h, pv2[k] = NULL,
         \A x \in S : nx2[x] = nx[x],
         \A x \in S : pv2[x] = IF x = h THEN k ELSE pv[x]
  PROVE  Linked(k, t, nx2, pv2, S \cup {k})
<1>1. PICK n \in Nat : \E s \in [1 .. n -> S] : Lists(s, n, S) /\ Through(s, n, h, t, nx, pv)
  BY DEF Linked
<1>2. PICK s \in [1 .. n -> S] : Lists(s, n, S) /\ Through(s, n, h, t, nx, pv)
  BY <1>1
<1>3. n # 0 /\ 1 \in 1 .. n /\ n \in 1 .. n /\ h = s[1] /\ t = s[n]
  BY <1>2 DEF Through
<1> DEFINE d == Prefixed(k, s, n)
<1>4. \A j \in 1 .. (n + 1) : d[j] = IF j = 1 THEN k ELSE s[j - 1]
  BY DEF Prefixed
<1>5. n + 1 \in Nat /\ 1 \in 1 .. (n + 1) /\ \A j \in 1 .. (n + 1) : j # 1 => j - 1 \in 1 .. n
  OBVIOUS
<1>6. d \in [1 .. (n + 1) -> S \cup {k}]
  <2>1. \A j \in 1 .. (n + 1) : d[j] \in S \cup {k}
    BY <1>4, <1>5
  <2> QED BY <2>1 DEF Prefixed
<1> HIDE DEF d
<1>7. Lists(d, n + 1, S \cup {k})
  <2>1. ASSUME NEW i \in 1 .. (n + 1), NEW j \in 1 .. (n + 1), d[i] = d[j] PROVE i = j
    <3>1. CASE i # 1 /\ j # 1
      <4>1. s[i - 1] = s[j - 1] /\ i - 1 \in 1 .. n /\ j - 1 \in 1 .. n
        BY <1>4, <1>5, <2>1, <3>1
      <4>2. i - 1 = j - 1
        BY <1>2, <4>1 DEF Lists
      <4> QED BY <4>2
    <3>2. CASE i = 1 \/ j = 1
      BY <1>4, <1>5, <2>1, <3>2
    <3> QED BY <3>1, <3>2
  <2>2. ASSUME NEW x \in S PROVE \E j \in 1 .. (n + 1) : d[j] = x
    <3>1. PICK i \in 1 .. n : s[i] = x
      BY <1>2 DEF Lists
    <3>2. i + 1 \in 1 .. (n + 1) /\ i + 1 # 1 /\ (i + 1) - 1 = i
      OBVIOUS
    <3> QED BY <1>4, <3>1, <3>2, ZenonT(60)
  <2>3. d[1] = k
    BY <1>4, <1>5
  <2> QED BY <1>5, <1>6, <2>1, <2>2, <2>3 DEF Lists
<1>8. k = (IF n + 1 = 0 THEN NULL ELSE d[1]) /\ t = IF n + 1 = 0 THEN NULL ELSE d[n + 1]
  <2>1. n + 1 \in 1 .. (n + 1) /\ n + 1 # 1 /\ (n + 1) - 1 = n /\ n + 1 # 0
    BY <1>3
  <2> QED BY <1>3, <1>4, <1>5, <2>1
<1>9. ASSUME NEW i \in 1 .. (n + 1) PROVE nx2[d[i]] = IF i = n + 1 THEN NULL ELSE d[i + 1]
  <2>1. CASE i = 1
    <3>1. 2 \in 1 .. (n + 1) /\ 1 # n + 1 /\ d[1 + 1] = s[1]
      BY <1>3, <1>4
    <3> QED BY <1>3, <1>4, <1>5, <2>1, <3>1
  <2>2. CASE i # 1
    <3>1. i - 1 \in 1 .. n /\ d[i] = s[i - 1] /\ s[i - 1] \in S /\ (i - 1) + 1 = i
      BY <1>2, <1>4, <1>5, <2>2
    <3>2. nx2[d[i]] = IF i - 1 = n THEN NULL ELSE s[i]
      BY <1>2, <3>1 DEF Through
    <3>3. i # n + 1 => i + 1 \in 1 .. (n + 1) /\ i + 1 # 1 /\ (i + 1) - 1 = i
      OBVIOUS
    <3>4. i # n + 1 => d[i + 1] = s[i]
      BY <1>4, <3>3
    <3>5. (i - 1 = n) <=> (i = n + 1)
      OBVIOUS
    <3> QED BY <3>2, <3>4, <3>5
  <2> QED BY <2>1, <2>2
<1>10. ASSUME NEW i \in 1 .. (n + 1) PROVE pv2[d[i]] = IF i = 1 THEN NULL ELSE d[i - 1]
  <2>1. CASE i = 1
    BY <1>4, <1>5, <2>1
  <2>2. CASE i # 1
    <3>1. i - 1 \in 1 .. n /\ d[i] = s[i - 1] /\ s[i - 1] \in S
      BY <1>2, <1>4, <1>5, <2>2
    <3>2. CASE i = 2
      <4>1. d[i] = h /\ d[i - 1] = k
        BY <1>3, <1>4, <1>5, <3>1, <3>2
      <4> QED BY <2>2, <3>1, <4>1
    <3>3. CASE i # 2
      <4>1. i - 1 # 1 /\ (i - 1) - 1 \in 1 .. n /\ i - 1 \in 1 .. (n + 1)
        BY <2>2, <3>3
      <4>2. pv[s[i - 1]] = s[(i - 1) - 1] /\ s[i - 1] # h
        BY <1>2, <1>3, <3>1, <4>1 DEF Through, Lists
      <4>3. d[i - 1] = s[(i - 1) - 1]
        BY <1>4, <4>1
      <4> QED BY <2>2, <3>1, <4>2, <4>3
    <3> QED BY <3>2, <3>3
  <2> QED BY <2>1, <2>2
<1>11. Through(d, n + 1, k, t, nx2, pv2)
  BY <1>8, <1>9, <1>10 DEF Through
<1> QED BY <1>5, <1>6, <1>7, <1>11 DEF Linked

\* Linked is what WellFormed says.
LEMMA LinkedIsWellFormed ==
  ASSUME Linked(list.head, list.tail, list.next, list.prev, live)
  PROVE  WellFormed
<1>1. PICK n \in Nat : \E s \in [1 .. n -> live] :
        Lists(s, n, live) /\ Through(s, n, list.head, list.tail, list.next, list.prev)
  BY DEF Linked
<1>2. PICK s \in [1 .. n -> live] :
        Lists(s, n, live) /\ Through(s, n, list.head, list.tail, list.next, list.prev)
  BY <1>1
<1>3. s \in Bijection(1 .. n, live)
  BY <1>2 DEF Lists, Bijection, Injection, Surjection, IsInjective
<1>4. Cardinality(live) = n
  <2>1. ExistsBijection(1 .. n, live)
    BY <1>3 DEF ExistsBijection
  <2> QED BY <2>1, FS_CountingElements
<1> DEFINE W(m) ==
      \E q \in [1 .. m -> live] :
        /\ \A i, j \in 1 .. m : q[i] = q[j] => i = j
        /\ list.head = (IF m = 0 THEN NULL ELSE q[1])
        /\ list.tail = (IF m = 0 THEN NULL ELSE q[m])
        /\ \A i \in 1 .. m : list.next[q[i]] = (IF i = m THEN NULL ELSE q[i + 1])
        /\ \A i \in 1 .. m : list.prev[q[i]] = (IF i = 1 THEN NULL ELSE q[i - 1])
<1>5. W(n)
  <2> WITNESS s \in [1 .. n -> live]
  <2> QED BY <1>2 DEF Lists, Through
<1>6. W(Cardinality(live)) => WellFormed
  BY DEF WellFormed
<1> HIDE DEF W
<1> QED BY <1>4, <1>5, <1>6

-----------------------------------------------------------------------------
(* The inductive invariant.                                                *)

\* The type of the pointers.
ListRecord == [head : Pointer, tail : Pointer, next : [Keys -> Pointer], prev : [Keys -> Pointer]]
\* The statements of cas_add_to_registry.
AddStatements == {"test", "double", "realloc", "store", "malloc", "copy", "count", "count_up"}

\* The statements of the operations that do not take the mutex, and of no other.
Unlocked == AddStatements \cup {"r_head", "r_none", "r_tail", "r_next", "free"}

\* At most one operation is under way: a put excludes another one by the mutex.
OneAtATime ==
  /\ \A t, u \in Threads : pc[t] # "idle" /\ pc[u] # "idle" => t = u
  /\ \A t \in Threads : op[t] = NULL <=> pc[t] = "idle"
  /\ \A t \in Threads : op[t] = "put" <=> mutex = t
  /\ mutex \in Threads \cup {NULL}
  /\ \A t \in Threads : pc[t] \in Unlocked => op[t] # "put"

\* The types.
RaceTypes ==
  /\ list \in ListRecord
  /\ live \subseteq Keys
  /\ op \in [Threads -> Operations \cup {NULL}]
  /\ pc \in [Threads -> ListStatements \cup AddStatements]
  /\ node \in [Threads -> Pointer]
  /\ slots \in [0 .. MaxSlots -> Keys \cup {Nothing, Blank}]
  /\ added \subseteq Keys
  /\ moved \in BOOLEAN
  /\ entries_count \in Nat /\ capacity \in Nat /\ allocated \in Nat
  /\ local \in [Threads -> Nat]

\* The whole list, and the list without k.
Whole == Linked(list.head, list.tail, list.next, list.prev, live)
\* (k is in the table and not yet, or no longer, in the list)
AllBut(k) == k \in live /\ Linked(list.head, list.tail, list.next, list.prev, live \ {k})

\* The list while an operation on k is at statement l: whole, or with the
\* pointers that were already turned.
ListShape(l, k) ==
  /\ l \in {"idle", "room", "unlock"} \cup AddStatements => Whole
  /\ l = "room" => k \in Keys
  /\ l \in {"m_head", "m_alone", "m_tail", "t1", "u1", "r_head", "r_tail"} => Whole /\ k \in live
  /\ l \in {"m_alone", "m_tail", "t1", "u1", "r_tail"} => list.head # k
  /\ l \in {"t1", "r_head", "r_tail"} => list.tail = k
  /\ l = "u1" => list.tail # k
  /\ l \in {"t2", "u2"} =>
       /\ k \in live /\ list.head # k /\ (l = "t2" <=> list.tail = k)
       /\ \E nx \in [Keys -> Pointer] :
            /\ Linked(list.head, list.tail, nx, list.prev, live)
            /\ \A x \in Keys : list.next[x] = IF x = list.prev[k] THEN nx[k] ELSE nx[x]
  /\ l = "r_none" => /\ k \in live /\ list.head = NULL /\ list.tail = k
                     /\ Linked(k, k, list.next, list.prev, live)
  /\ l = "r_next" => /\ k \in live /\ list.head # k /\ list.tail = list.prev[k]
                     /\ Linked(list.head, k, list.next, list.prev, live)
  /\ l \in {"x1", "x2", "x3", "a1", "a2", "a3", "a4", "free"} => AllBut(k)
  /\ l \in {"x1", "x2", "x3", "x4", "a3", "a4"} => list.head # NULL
  /\ l \in {"x2", "x3", "x4", "a2", "a3", "a4", "e2", "e3"} => list.prev[k] = NULL
  /\ l \in {"x3", "a4", "x4"} => list.next[k] = list.head
  /\ l = "x4" => /\ k \in live
                 /\ \E pv \in [Keys -> Pointer] :
                      /\ Linked(list.head, list.tail, list.next, pv, live \ {k})
                      /\ \A x \in Keys : list.prev[x] = IF x = list.head THEN k ELSE pv[x]
  /\ l \in {"e2", "e3"} => live = {k} /\ list.head = k
  /\ l = "e3" => list.tail = k

\* The registry lists what was added, at every statement.
Listed ==
  /\ entries_count = Cardinality(added)
  /\ {slots[i] : i \in 0 .. (entries_count - 1)} = added

\* And while thread t is at statement l of adding p.
RegistryShape(l, t, p) ==
  /\ moved <=> l = "store"
  /\ l \in ListStatements \cup {"test", "double"} => capacity = allocated /\ entries_count < allocated
  /\ l = "double" => entries_count + 1 >= capacity
  /\ l \in {"realloc", "store", "malloc", "copy", "count", "count_up"} => entries_count + 1 < capacity
  /\ l \in {"store", "malloc", "copy", "count", "count_up"} => capacity = allocated
  /\ l = "copy" => slots[entries_count] = Blank
  /\ l \in {"count", "count_up"} => slots[entries_count] = p
  /\ l = "count_up" => local[t] = entries_count
  /\ l \in AddStatements => p \in Keys \ added

\* The inductive invariant.
RaceInv ==
  /\ RaceTypes
  /\ OneAtATime
  /\ crashed = FALSE
  /\ Listed
  /\ \A t \in Threads, l \in ListStatements \cup AddStatements, k \in Pointer :
       pc[t] = l /\ node[t] = k /\ l # "idle" => ListShape(l, k) /\ RegistryShape(l, t, k)
  /\ Quiet => Whole /\ ~ moved /\ capacity = allocated /\ entries_count < allocated

\* The statements that write a pointer.
SetHead(l, v) == [l EXCEPT !.head = v]
SetTail(l, v) == [l EXCEPT !.tail = v]
SetNext(l, p, v) == [l EXCEPT !.next[p] = v]
SetPrev(l, p, v) == [l EXCEPT !.prev[p] = v]

\* Such a statement changes one pointer and nothing else.
HeadWritten(l, v, q) ==
  q \in ListRecord /\ q.head = v /\ q.tail = l.tail /\ q.next = l.next /\ q.prev = l.prev
TailWritten(l, v, q) ==
  q \in ListRecord /\ q.head = l.head /\ q.tail = v /\ q.next = l.next /\ q.prev = l.prev
NextWritten(l, p, v, q) ==
  /\ q \in ListRecord /\ q.head = l.head /\ q.tail = l.tail /\ q.prev = l.prev
  /\ \A x \in Keys : q.next[x] = IF x = p THEN v ELSE l.next[x]
PrevWritten(l, p, v, q) ==
  /\ q \in ListRecord /\ q.head = l.head /\ q.tail = l.tail /\ q.next = l.next
  /\ \A x \in Keys : q.prev[x] = IF x = p THEN v ELSE l.prev[x]

\* head and tail
LEMMA EndWritten ==
  ASSUME NEW l \in ListRecord, NEW v \in Pointer
  PROVE  HeadWritten(l, v, SetHead(l, v)) /\ TailWritten(l, v, SetTail(l, v))
BY DEF HeadWritten, TailWritten, SetHead, SetTail, ListRecord

\* the next and the prev of a node
LEMMA LinkWritten ==
  ASSUME NEW l \in ListRecord, NEW p \in Keys, NEW v \in Pointer
  PROVE  NextWritten(l, p, v, SetNext(l, p, v)) /\ PrevWritten(l, p, v, SetPrev(l, p, v))
BY DEF NextWritten, PrevWritten, SetNext, SetPrev, ListRecord

-----------------------------------------------------------------------------
(* Threads.                                                                *)

\* An operation begins only when no other is under way.
LEMMA BeginsAlone ==
  ASSUME Overlapping \subseteq {"put"}, RaceInv, NEW t \in Threads, NEW o, NEW n, NEW l,
         Begin(t, o, n, l), o = "put" => mutex = NULL
  PROVE  Quiet /\ mutex = NULL
<1>1. ASSUME NEW u \in Threads, op[u] # NULL PROVE FALSE
  <2>1. o = "put" /\ op[u] = "put"
    BY <1>1 DEF Begin
  <2>2. mutex = u /\ u # NULL
    BY <2>1, RacesAssumption DEF RaceInv, OneAtATime
  <2> QED BY <2>1, <2>2
<1>2. Quiet
  BY <1>1 DEF Quiet, RaceInv, OneAtATime
<1>3. mutex # NULL => op[mutex] = "put"
  BY DEF RaceInv, OneAtATime
<1>4. NULL # "put"
  BY RacesAssumption
<1> QED BY <1>1, <1>2, <1>3, <1>4 DEF RaceInv, OneAtATime

\* After the beginning the thread is the only one at work.
LEMMA Begun ==
  ASSUME Overlapping \subseteq {"put"}, RaceInv,
         NEW t \in Threads, NEW o \in Operations, NEW n \in Pointer,
         NEW l \in (ListStatements \cup AddStatements) \ {"idle"},
         Begin(t, o, n, l), IF o = "put" THEN mutex = NULL /\ mutex' = t ELSE mutex' = mutex,
         l \in Unlocked => o # "put"
  PROVE  /\ OneAtATime' /\ crashed' = FALSE /\ ~ Quiet'
         /\ op' \in [Threads -> Operations \cup {NULL}]
         /\ pc' \in [Threads -> ListStatements \cup AddStatements]
         /\ node' \in [Threads -> Pointer]
         /\ pc' = [pc EXCEPT ![t] = l] /\ node' = [node EXCEPT ![t] = n]
         /\ \A u \in Threads : pc[u] = "idle"
<1>1. Quiet /\ mutex = NULL
  BY BeginsAlone
<1>2. /\ op \in [Threads -> Operations \cup {NULL}]
      /\ pc \in [Threads -> ListStatements \cup AddStatements]
      /\ node \in [Threads -> Pointer]
  BY DEF RaceInv, RaceTypes
<1>3. /\ op' = [op EXCEPT ![t] = o] /\ pc' = [pc EXCEPT ![t] = l] /\ node' = [node EXCEPT ![t] = n]
      /\ crashed' = crashed
  BY DEF Begin
<1>4. /\ op' \in [Threads -> Operations \cup {NULL}]
      /\ pc' \in [Threads -> ListStatements \cup AddStatements]
      /\ node' \in [Threads -> Pointer]
  BY <1>2, <1>3
<1>5. \A u \in Threads : pc[u] = "idle" /\ op[u] = NULL
  BY <1>1 DEF Quiet, RaceInv, OneAtATime
<1>6. t # NULL /\ o # NULL /\ NULL # "put" /\ NULL \notin Threads
  BY RacesAssumption
<1>7. OneAtATime'
  <2>1. \A u \in Threads : /\ pc'[u] = IF u = t THEN l ELSE "idle"
                           /\ op'[u] = IF u = t THEN o ELSE NULL
    BY <1>2, <1>3, <1>5
  <2>2. mutex' = IF o = "put" THEN t ELSE NULL
    BY <1>1
  <2>3. "idle" \notin Unlocked
    BY DEF Unlocked, AddStatements
  <2> QED BY <1>6, <2>1, <2>2, <2>3 DEF OneAtATime
<1>8. ~ Quiet' /\ crashed' = FALSE
  BY <1>2, <1>3 DEF Quiet, RaceInv
<1> QED BY <1>3, <1>4, <1>5, <1>7, <1>8

\* Thread t goes on at l; a put that ends has unlocked.
Went(t, l) ==
  /\ pc' = [pc EXCEPT ![t] = l]
  /\ op' = [op EXCEPT ![t] = IF l = "idle" THEN NULL ELSE op[t]]
  /\ mutex' = IF l = "idle" /\ mutex = t THEN NULL ELSE mutex
  /\ node' = node /\ crashed' = crashed

\* A thread that is not in a put has nothing to unlock.
LEMMA GotoWent ==
  ASSUME RaceInv, NEW t \in Threads, NEW l, Goto(t, l), l = "idle" => op[t] # "put"
  PROVE  Went(t, l)
<1>1. mutex = t => op[t] = "put"
  BY RacesAssumption DEF RaceInv, OneAtATime
<1> QED BY <1>1 DEF Went, Goto

\* It is still the only one at work, until it ends.
LEMMA Proceeded ==
  ASSUME RaceInv, NEW t \in Threads, pc[t] # "idle", NEW l \in ListStatements \cup AddStatements,
         Went(t, l), l \in Unlocked => op[t] # "put"
  PROVE  /\ OneAtATime' /\ crashed' = FALSE /\ (Quiet' <=> l = "idle")
         /\ op' \in [Threads -> Operations \cup {NULL}]
         /\ pc' \in [Threads -> ListStatements \cup AddStatements]
         /\ node' = node /\ pc' = [pc EXCEPT ![t] = l]
         /\ \A u \in Threads \ {t} : pc[u] = "idle"
<1>1. /\ op \in [Threads -> Operations \cup {NULL}]
      /\ pc \in [Threads -> ListStatements \cup AddStatements]
  BY DEF RaceInv, RaceTypes
<1>2. /\ op' = [op EXCEPT ![t] = IF l = "idle" THEN NULL ELSE op[t]] /\ pc' = [pc EXCEPT ![t] = l]
      /\ crashed' = crashed /\ node' = node
      /\ mutex' = IF l = "idle" /\ mutex = t THEN NULL ELSE mutex
  BY DEF Went
<1>3. /\ op' \in [Threads -> Operations \cup {NULL}]
      /\ pc' \in [Threads -> ListStatements \cup AddStatements]
  BY <1>1, <1>2
<1>4. \A u \in Threads \ {t} : pc[u] = "idle" /\ op[u] = NULL /\ mutex # u
  <2>1. \A u \in Threads \ {t} : pc[u] = "idle" /\ op[u] = NULL
    BY DEF RaceInv, OneAtATime
  <2>2. NULL # "put"
    BY RacesAssumption
  <2> QED BY <2>1, <2>2 DEF RaceInv, OneAtATime
<1>5. t # NULL /\ NULL # "put" /\ NULL \notin Threads
  BY RacesAssumption
<1>6. \A u \in Threads : /\ pc'[u] = IF u = t THEN l ELSE "idle"
                         /\ op'[u] = IF u = t /\ l # "idle" THEN op[t] ELSE NULL
  BY <1>1, <1>2, <1>4
<1>7. op[t] # NULL /\ (op[t] = "put" <=> mutex = t) /\ mutex \in {t, NULL}
  BY <1>4 DEF RaceInv, OneAtATime
<1>8. OneAtATime'
  <2>1. "idle" \notin Unlocked
    BY DEF Unlocked, AddStatements
  <2> QED BY <1>2, <1>5, <1>6, <1>7, <2>1 DEF OneAtATime
<1>9. (Quiet' <=> l = "idle") /\ crashed' = FALSE
  BY <1>2, <1>6 DEF Quiet, RaceInv
<1> QED BY <1>2, <1>3, <1>4, <1>8, <1>9

\* The registry between two additions.
Resting == ~ moved /\ capacity = allocated /\ entries_count < allocated

\* The registry rests while a thread works on the list.
LEMMA ListStatementRests ==
  ASSUME RaceInv, NEW t \in Threads, pc[t] \in ListStatements \ {"idle"}
  PROVE  Resting
<1>1. PICK l \in ListStatements \ {"idle"}, k \in Pointer : pc[t] = l /\ node[t] = k
  BY DEF RaceInv, RaceTypes
<1>2. RegistryShape(l, t, k)
  BY <1>1 DEF RaceInv
<1>3. l # "store"
  BY DEF ListStatements
<1> QED BY <1>2, <1>3 DEF RegistryShape, Resting

\* A statement on the list keeps the invariant if it leaves the shape that is
\* due at the next one.
LEMMA ListWent ==
  ASSUME RaceInv, NEW t \in Threads, NEW k \in Pointer, node[t] = k, pc[t] \in ListStatements \ {"idle"},
         NEW l \in ListStatements, Went(t, l), l \in Unlocked => op[t] # "put", UNCHANGED registryVars,
         list' \in ListRecord, live' \subseteq Keys, ListShape(l, k)'
  PROVE  RaceInv'
<1>1. Resting
  BY ListStatementRests
<1>2. /\ OneAtATime' /\ crashed' = FALSE /\ (Quiet' <=> l = "idle")
      /\ op' \in [Threads -> Operations \cup {NULL}]
      /\ pc' \in [Threads -> ListStatements \cup AddStatements]
      /\ node' = node /\ pc' = [pc EXCEPT ![t] = l]
      /\ \A u \in Threads \ {t} : pc[u] = "idle"
  BY Proceeded
<1>3. RaceTypes'
  BY <1>2 DEF RaceInv, RaceTypes, registryVars
<1>4. Listed'
  BY DEF RaceInv, Listed, registryVars
<1>5. Resting'
  BY <1>1 DEF Resting, registryVars
<1>6. ASSUME NEW u \in Threads, NEW m \in ListStatements \cup AddStatements, NEW j \in Pointer,
             pc'[u] = m, node'[u] = j, m # "idle"
      PROVE  ListShape(m, j)' /\ RegistryShape(m, u, j)'
  <2>1. pc \in [Threads -> ListStatements \cup AddStatements]
    BY DEF RaceInv, RaceTypes
  <2>2. u = t /\ m = l /\ j = k
    BY <1>2, <1>6, <2>1
  <2>3. ListShape(m, j)'
    BY <2>2
  <2>4. RegistryShape(m, u, j)'
    BY <1>5, <1>6, <2>2 DEF Resting, RegistryShape, ListStatements, AddStatements
  <2> QED BY <2>3, <2>4
<1>7. ASSUME Quiet' PROVE Whole'
  BY <1>2, <1>7 DEF ListShape
<1> QED BY <1>2, <1>3, <1>4, <1>5, <1>6, <1>7 DEF RaceInv, Resting

\* The same for a statement that leaves the mutex alone.
LEMMA ListGoesOn ==
  ASSUME RaceInv, NEW t \in Threads, NEW k \in Pointer, node[t] = k, pc[t] \in ListStatements \ {"idle"},
         NEW l \in ListStatements, Goto(t, l), UNCHANGED registryVars,
         l \in Unlocked \cup {"idle"} => pc[t] \in Unlocked \/ op[t] # "put",
         list' \in ListRecord, live' \subseteq Keys, ListShape(l, k)'
  PROVE  RaceInv'
<1>1. l \in Unlocked \cup {"idle"} => op[t] # "put"
  BY DEF RaceInv, OneAtATime
<1>2. Went(t, l)
  BY <1>1, GotoWent
<1> QED BY <1>1, <1>2, ListWent

\* The same for the first statement of an operation.
LEMMA ListBegins ==
  ASSUME Overlapping \subseteq {"put"}, RaceInv,
         NEW t \in Threads, NEW o \in Operations, NEW k \in Pointer,
         NEW l \in ListStatements \ {"idle"}, Begin(t, o, k, l),
         IF o = "put" THEN mutex = NULL /\ mutex' = t ELSE mutex' = mutex,
         l \in Unlocked => o # "put",
         UNCHANGED registryVars, list' \in ListRecord, live' \subseteq Keys, ListShape(l, k)'
  PROVE  RaceInv'
<1>1. /\ OneAtATime' /\ crashed' = FALSE /\ ~ Quiet'
      /\ op' \in [Threads -> Operations \cup {NULL}]
      /\ pc' \in [Threads -> ListStatements \cup AddStatements]
      /\ node' \in [Threads -> Pointer]
      /\ pc' = [pc EXCEPT ![t] = l] /\ node' = [node EXCEPT ![t] = k]
      /\ \A u \in Threads : pc[u] = "idle"
  BY Begun
<1>2. Resting
  BY <1>1 DEF RaceInv, Resting, Quiet
<1>3. RaceTypes'
  BY <1>1 DEF RaceInv, RaceTypes, registryVars
<1>4. Listed'
  BY DEF RaceInv, Listed, registryVars
<1>5. Resting'
  BY <1>2 DEF Resting, registryVars
<1>6. ASSUME NEW u \in Threads, NEW m \in ListStatements \cup AddStatements, NEW j \in Pointer,
             pc'[u] = m, node'[u] = j, m # "idle"
      PROVE  ListShape(m, j)' /\ RegistryShape(m, u, j)'
  <2>1. pc \in [Threads -> ListStatements \cup AddStatements] /\ node \in [Threads -> Pointer]
    BY DEF RaceInv, RaceTypes
  <2>2. u = t /\ m = l /\ j = k
    BY <1>1, <1>6, <2>1
  <2>3. ListShape(m, j)'
    BY <2>2
  <2>4. RegistryShape(m, u, j)'
    BY <1>5, <1>6, <2>2 DEF Resting, RegistryShape, ListStatements, AddStatements
  <2> QED BY <2>3, <2>4
<1> QED BY <1>1, <1>3, <1>4, <1>5, <1>6 DEF RaceInv

-----------------------------------------------------------------------------
(* The statements on the list.                                             *)

\* What a thread at statement l finds.
LEMMA AtStatement ==
  ASSUME RaceInv, NEW t \in Threads, NEW l \in ListStatements \ {"idle"}, At(t, l)
  PROVE  /\ pc[t] \in ListStatements \ {"idle"} /\ ListStatements \ {"idle"} # {}
         /\ list \in ListRecord /\ live \subseteq Keys /\ NULL \notin live
         /\ \E k \in Pointer : node[t] = k /\ ListShape(l, k)
BY RacesAssumption DEF RaceInv, RaceTypes, At

\* The tests of move_to_head leave a list with k behind its head.
LEMMA MoveTestsInv ==
  ASSUME RaceInv, NEW t \in Threads, MoveTests(t), UNCHANGED registryVars
  PROVE  RaceInv'
<1>1. CASE Test(t, "m_head", IF list.head = node[t] THEN End(t) ELSE "m_alone")
  <2>1. "m_head" \in ListStatements \ {"idle"} /\ At(t, "m_head")
    BY <1>1 DEF Test, ListStatements
  <2>2. PICK k \in Pointer : node[t] = k /\ ListShape("m_head", k)
    BY <2>1, AtStatement
  <2>3. PICK l \in {"idle", "unlock", "m_alone"} :
          Goto(t, l) /\ (l = "m_alone" => list.head # k) /\ (l = "idle" => op[t] # "put")
    BY <1>1, <2>2 DEF Test, End
  <2>4. list' = list /\ live' = live
    BY <1>1 DEF Test
  <2>5. ListShape(l, k)'
    BY <2>2, <2>3, <2>4 DEF ListShape, Whole, AddStatements
  <2>6. /\ l \in ListStatements /\ pc[t] \in ListStatements \ {"idle"}
        /\ list' \in ListRecord /\ live' \subseteq Keys
    BY <2>1, <2>4, AtStatement DEF ListStatements
  <2> QED BY <2>2, <2>3, <2>5, <2>6, ListGoesOn DEF Unlocked, AddStatements
<1>2. CASE Write(t, "m_alone", {node[t]}, list,
                 IF list.prev[node[t]] = NULL /\ list.next[node[t]] = NULL THEN End(t) ELSE "m_tail")
  <2>1. "m_alone" \in ListStatements \ {"idle"} /\ At(t, "m_alone")
    BY <1>2 DEF Write, ListStatements
  <2>2. PICK k \in Pointer : node[t] = k /\ ListShape("m_alone", k)
    BY <2>1, AtStatement
  <2>3. k \in live
    BY <2>2 DEF ListShape
  <2>4. PICK l \in {"idle", "unlock", "m_tail"} : Goto(t, l) /\ (l = "idle" => op[t] # "put")
    BY <1>2, <2>2, <2>3 DEF Write, End
  <2>5. list' = list /\ live' = live
    BY <1>2, <2>2, <2>3 DEF Write
  <2>6. ListShape(l, k)'
    BY <2>2, <2>4, <2>5 DEF ListShape, Whole, AddStatements
  <2>7. /\ l \in ListStatements /\ pc[t] \in ListStatements \ {"idle"}
        /\ list' \in ListRecord /\ live' \subseteq Keys
    BY <2>1, <2>5, AtStatement DEF ListStatements
  <2> QED BY <2>2, <2>4, <2>6, <2>7, ListGoesOn DEF Unlocked, AddStatements
<1>3. CASE Test(t, "m_tail", IF list.tail = node[t] THEN "t1" ELSE "u1")
  <2>1. "m_tail" \in ListStatements \ {"idle"} /\ At(t, "m_tail")
    BY <1>3 DEF Test, ListStatements
  <2>2. PICK k \in Pointer : node[t] = k /\ ListShape("m_tail", k)
    BY <2>1, AtStatement
  <2>3. PICK l \in {"t1", "u1"} : Goto(t, l) /\ (l = "t1" <=> list.tail = k)
    BY <1>3, <2>2 DEF Test
  <2>4. list' = list /\ live' = live
    BY <1>3 DEF Test
  <2>5. ListShape(l, k)'
    BY <2>2, <2>3, <2>4 DEF ListShape, Whole, AddStatements
  <2>6. /\ l \in ListStatements /\ pc[t] \in ListStatements \ {"idle"}
        /\ list' \in ListRecord /\ live' \subseteq Keys
    BY <2>1, <2>4, AtStatement DEF ListStatements
  <2> QED BY <2>2, <2>3, <2>5, <2>6, ListGoesOn DEF Unlocked, AddStatements
<1> QED BY <1>1, <1>2, <1>3 DEF MoveTests

\* Taking k out, at the tail or in the middle: after both assignments it has left.
LEMMA MoveOutInv ==
  ASSUME RaceInv, NEW t \in Threads, MoveTail(t) \/ MoveMiddle(t), UNCHANGED registryVars
  PROVE  RaceInv'
<1>1. ASSUME NEW l \in {"t1", "u1"}, NEW next \in {"t2", "u2"}, (l = "t1") <=> (next = "t2"),
             Write(t, l, {node[t], list.prev[node[t]]},
                   [list EXCEPT !.next[list.prev[node[t]]] = IF l = "t1" THEN NULL ELSE list.next[node[t]]],
                   next)
      PROVE  RaceInv'
  <2>1. l \in ListStatements \ {"idle"} /\ At(t, l)
    BY <1>1 DEF Write, ListStatements
  <2>2. PICK k \in Pointer : node[t] = k /\ ListShape(l, k)
    BY <2>1, AtStatement
  <2>3. /\ list \in ListRecord /\ live \subseteq Keys /\ NULL \notin live
        /\ list.next \in [Keys -> Pointer] /\ list.prev \in [Keys -> Pointer]
    BY <2>1, AtStatement DEF ListRecord
  <2>4. k \in live /\ Whole /\ list.head # k /\ (l = "t1" <=> list.tail = k)
    BY <2>2 DEF ListShape
  <2>5. list.prev[k] \in live /\ (list.tail = k => list.next[k] = NULL)
    BY <2>3, <2>4, LinkedNeighbours DEF Whole
  <2>6. PICK p \in Keys, v \in Pointer : p = list.prev[k] /\ v = list.next[k] /\ (l = "t1" => v = NULL)
    BY <2>3, <2>4, <2>5
  <2>7. list' = SetNext(list, p, v) /\ live' = live /\ Goto(t, next)
    BY <1>1, <2>2, <2>4, <2>5, <2>6 DEF Write, SetNext
  <2>8. /\ list' \in ListRecord /\ list'.head = list.head /\ list'.tail = list.tail
        /\ list'.prev = list.prev /\ \A x \in Keys : list'.next[x] = IF x = p THEN v ELSE list.next[x]
    <3>1. NextWritten(list, p, v, list')
      BY <2>3, <2>7, LinkWritten
    <3> QED BY <3>1 DEF NextWritten
  <2>9. \E nx \in [Keys -> Pointer] :
          /\ Linked(list'.head, list'.tail, nx, list'.prev, live')
          /\ \A x \in Keys : list'.next[x] = IF x = list'.prev[k] THEN nx[k] ELSE nx[x]
    BY <2>3, <2>4, <2>6, <2>7, <2>8 DEF Whole
  <2>10. ListShape(next, k)'
    BY <1>1, <2>4, <2>7, <2>8, <2>9 DEF ListShape, AddStatements
  <2>11. next \in ListStatements /\ live' \subseteq Keys /\ pc[t] \in ListStatements \ {"idle"}
    BY <2>1, <2>3, <2>7, AtStatement DEF ListStatements
  <2> QED BY <2>2, <2>7, <2>8, <2>10, <2>11, ListGoesOn DEF Unlocked, AddStatements
<1>2. ASSUME NEW l \in {"t2", "u2"},
             IF l = "t2" THEN Write(t, "t2", {node[t]}, [list EXCEPT !.tail = list.prev[node[t]]], "x1")
             ELSE Write(t, "u2", {node[t], list.next[node[t]]},
                        [list EXCEPT !.prev[list.next[node[t]]] = list.prev[node[t]]], "x1")
      PROVE  RaceInv'
  <2>1. l \in ListStatements \ {"idle"} /\ At(t, l)
    BY <1>2 DEF Write, ListStatements
  <2>2. PICK k \in Pointer : node[t] = k /\ ListShape(l, k)
    BY <2>1, AtStatement
  <2>3. /\ list \in ListRecord /\ live \subseteq Keys /\ NULL \notin live
        /\ list.next \in [Keys -> Pointer] /\ list.prev \in [Keys -> Pointer]
    BY <2>1, AtStatement DEF ListRecord
  <2>4. k \in live /\ list.head # k /\ (l = "t2" <=> list.tail = k)
    BY <2>2 DEF ListShape
  <2>5. PICK nx \in [Keys -> Pointer] :
          /\ Linked(list.head, list.tail, nx, list.prev, live)
          /\ \A x \in Keys : list.next[x] = IF x = list.prev[k] THEN nx[k] ELSE nx[x]
    BY <2>2 DEF ListShape
  <2>6. /\ list.prev[k] \in live /\ list.prev[k] # k /\ list.head \in live
        /\ list.tail # k => nx[k] \in live
    BY <2>3, <2>4, <2>5, LinkedNeighbours
  <2>7. \A x \in live : list.next[x] = IF x = list.prev[k] THEN nx[k] ELSE nx[x]
    BY <2>3, <2>5
  <2>8. list.next[k] = nx[k]
    BY <2>4, <2>6, <2>7
  <2>9. PICK p \in Keys, v \in Pointer : p = list.prev[k] /\ v = nx[k] /\ (l = "u2" => v \in live)
    BY <2>3, <2>4, <2>5, <2>6
  <2>10. /\ live' = live /\ Goto(t, "x1")
         /\ list' = IF l = "t2" THEN SetTail(list, p) ELSE SetPrev(list, v, p)
    BY <1>2, <2>2, <2>4, <2>8, <2>9 DEF Write, SetTail, SetPrev
  <2>11. /\ list' \in ListRecord /\ list'.head = list.head /\ list'.next = list.next
         /\ list'.tail = IF list.tail = k THEN p ELSE list.tail
         /\ \A x \in live : list'.prev[x] = IF list.tail # k /\ x = nx[k] THEN list.prev[k] ELSE list.prev[x]
    <3>1. p \in Pointer
      BY DEF Pointer
    <3>2. CASE l = "t2"
      <4>1. TailWritten(list, p, list')
        BY <2>3, <2>10, <3>1, <3>2, EndWritten
      <4> QED BY <2>4, <3>2, <4>1 DEF TailWritten
    <3>3. CASE l = "u2"
      <4>1. v \in Keys /\ list' = SetPrev(list, v, p)
        BY <2>3, <2>9, <2>10, <3>3
      <4>2. /\ list' \in ListRecord /\ list'.head = list.head /\ list'.next = list.next
            /\ list'.tail = list.tail
            /\ \A x \in Keys : list'.prev[x] = IF x = v THEN p ELSE list.prev[x]
        <5>1. PrevWritten(list, v, p, list')
          BY <2>3, <3>1, <4>1, LinkWritten
        <5> QED BY <5>1 DEF PrevWritten
      <4> QED BY <2>3, <2>4, <2>9, <3>3, <4>1, <4>2
    <3> QED BY <3>2, <3>3
  <2>12. Linked(list'.head, list'.tail, list'.next, list'.prev, live \ {k})
    <3>1. Unlinked(list.head, list.tail, nx, list.prev, live, k,
                   list'.head, list'.tail, list'.next, list'.prev)
      BY <2>4, <2>7, <2>9, <2>11 DEF Unlinked
    <3> QED BY <2>3, <2>4, <2>5, <3>1, LinkedUnlinked
  <2>13. ListShape("x1", k)'
    BY <2>3, <2>4, <2>6, <2>10, <2>11, <2>12 DEF ListShape, AllBut, AddStatements
  <2>14. "x1" \in ListStatements /\ live' \subseteq Keys /\ pc[t] \in ListStatements \ {"idle"}
    BY <2>1, <2>3, <2>10, AtStatement DEF ListStatements
  <2> QED BY <2>2, <2>10, <2>11, <2>13, <2>14, ListGoesOn DEF Unlocked, AddStatements
<1> QED BY <1>1, <1>2 DEF MoveTail, MoveMiddle

\* The pointers of k itself do not matter to the list without k.
LEMMA OwnPointers ==
  ASSUME RaceInv, NEW k \in Keys, NEW v \in Pointer, AllBut(k), live' = live,
         NextWritten(list, k, v, list') \/ PrevWritten(list, k, v, list')
  PROVE  /\ AllBut(k)' /\ list' \in ListRecord /\ list'.head = list.head
         /\ NextWritten(list, k, v, list') => list'.next[k] = v /\ list'.prev = list.prev
         /\ PrevWritten(list, k, v, list') => list'.prev[k] = v /\ list'.next = list.next
<1>1. live \subseteq Keys
  BY DEF RaceInv, RaceTypes
<1>2. /\ list' \in ListRecord /\ list'.head = list.head /\ list'.tail = list.tail
      /\ \A x \in live \ {k} : list'.next[x] = list.next[x] /\ list'.prev[x] = list.prev[x]
  BY <1>1 DEF NextWritten, PrevWritten
<1>3. Linked(list'.head, list'.tail, list'.next, list'.prev, live \ {k})
  BY <1>2, LinkedSame DEF AllBut
<1> QED BY <1>2, <1>3 DEF AllBut, NextWritten, PrevWritten

\* prev and next of the node that goes to the front.
LEMMA LinkOwnInv ==
  ASSUME RaceInv, NEW t \in Threads, UNCHANGED registryVars,
         NEW l \in {"x1", "a1", "x2", "a3"}, NEW next \in {"x2", "a2", "x3", "a4"},
         l = "x1" => next = "x2", l = "a1" => next = "a2", l = "x2" => next = "x3", l = "a3" => next = "a4",
         Write(t, l, {node[t]}, IF l \in {"x1", "a1"} THEN [list EXCEPT !.prev[node[t]] = NULL]
                                ELSE [list EXCEPT !.next[node[t]] = list.head], next)
  PROVE  RaceInv'
<1>1. l \in ListStatements \ {"idle"} /\ At(t, l)
  BY DEF Write, ListStatements
<1>2. PICK k \in Pointer : node[t] = k /\ ListShape(l, k)
  BY <1>1, AtStatement
<1>3. list \in ListRecord /\ live \subseteq Keys /\ list.head \in Pointer /\ NULL \in Pointer
  BY <1>1, AtStatement DEF ListRecord, Pointer
<1>4. /\ AllBut(k) /\ k \in Keys /\ k \in live /\ (l \in {"x1", "x2", "a3"} => list.head # NULL)
      /\ (l \in {"x2", "a3"} => list.prev[k] = NULL)
  BY <1>2, <1>3 DEF ListShape, AllBut
<1>5. /\ live' = live /\ Goto(t, next)
      /\ list' = IF l \in {"x1", "a1"} THEN SetPrev(list, k, NULL) ELSE SetNext(list, k, list.head)
  BY <1>2, <1>4 DEF Write, SetPrev, SetNext
<1>6. list' \in ListRecord /\ ListShape(next, k)'
  <2>1. CASE l \in {"x1", "a1"}
    <3>1. PrevWritten(list, k, NULL, list')
      BY <1>3, <1>4, <1>5, <2>1, LinkWritten
    <3>2. AllBut(k)' /\ list' \in ListRecord /\ list'.head = list.head /\ list'.prev[k] = NULL
      BY <1>3, <1>4, <1>5, <3>1, OwnPointers
    <3> QED BY <1>4, <2>1, <3>2 DEF ListShape, AddStatements
  <2>2. CASE l \in {"x2", "a3"}
    <3>1. NextWritten(list, k, list.head, list')
      BY <1>3, <1>4, <1>5, <2>2, LinkWritten
    <3>2. /\ AllBut(k)' /\ list' \in ListRecord /\ list'.head = list.head
          /\ list'.prev = list.prev /\ list'.next[k] = list.head
      BY <1>3, <1>4, <1>5, <3>1, OwnPointers
    <3> QED BY <1>4, <2>2, <3>2 DEF ListShape, AddStatements
  <2> QED BY <2>1, <2>2
<1>7. next \in ListStatements /\ live' \subseteq Keys /\ pc[t] \in ListStatements \ {"idle"}
  BY <1>1, <1>3, <1>5, AtStatement DEF ListStatements
<1> QED BY <1>2, <1>5, <1>6, <1>7, ListGoesOn DEF Unlocked, AddStatements

\* The old head points back to it.
LEMMA LinkBackInv ==
  ASSUME RaceInv, NEW t \in Threads, UNCHANGED registryVars, NEW l \in {"x3", "a4"},
         Write(t, l, IF l = "x3" THEN {list.head} \ {NULL} ELSE {list.head},
               IF l = "x3" /\ list.head = NULL THEN list ELSE [list EXCEPT !.prev[list.head] = node[t]], "x4")
  PROVE  RaceInv'
<1>1. l \in ListStatements \ {"idle"} /\ At(t, l)
  BY DEF Write, ListStatements
<1>2. PICK k \in Pointer : node[t] = k /\ ListShape(l, k)
  BY <1>1, AtStatement
<1>3. /\ list \in ListRecord /\ live \subseteq Keys /\ NULL \notin live
      /\ list.next \in [Keys -> Pointer] /\ list.prev \in [Keys -> Pointer]
  BY <1>1, AtStatement DEF ListRecord
<1>4. /\ AllBut(k) /\ k \in live /\ k \in Keys /\ list.head # NULL
      /\ list.prev[k] = NULL /\ list.next[k] = list.head
  BY <1>2, <1>3 DEF ListShape, AllBut
<1>5. list.head \in live \ {k} /\ list.head \in Keys
  BY <1>3, <1>4, LinkedNeighbours DEF AllBut
<1>6. live' = live /\ Goto(t, "x4") /\ list' = SetPrev(list, list.head, k)
  BY <1>2, <1>4, <1>5 DEF Write, SetPrev
<1>7. PrevWritten(list, list.head, k, list')
  BY <1>3, <1>5, <1>6, LinkWritten
<1>8. /\ list' \in ListRecord /\ list'.head = list.head
      /\ list'.tail = list.tail /\ list'.next = list.next
      /\ \A x \in Keys : list'.prev[x] = IF x = list.head THEN k ELSE list.prev[x]
  BY <1>7 DEF PrevWritten
<1>9. list'.prev[k] = NULL /\ list'.next[k] = list'.head /\ list'.head # NULL
  BY <1>4, <1>5, <1>8
<1>10. \E pv \in [Keys -> Pointer] :
         /\ Linked(list'.head, list'.tail, list'.next, pv, live' \ {k})
         /\ \A x \in Keys : list'.prev[x] = IF x = list'.head THEN k ELSE pv[x]
  BY <1>3, <1>4, <1>6, <1>8 DEF AllBut
<1>11. ListShape("x4", k)'
  BY <1>4, <1>6, <1>9, <1>10 DEF ListShape, AddStatements
<1>12. "x4" \in ListStatements /\ live' \subseteq Keys /\ pc[t] \in ListStatements \ {"idle"}
  BY <1>1, <1>3, <1>6, AtStatement DEF ListStatements
<1> QED BY <1>2, <1>6, <1>8, <1>11, <1>12, ListGoesOn DEF Unlocked, AddStatements

\* And the list has a new head.
LEMMA LinkHeadInv ==
  ASSUME RaceInv, NEW t \in Threads, UNCHANGED registryVars,
         Write(t, "x4", {}, [list EXCEPT !.head = node[t]], End(t))
  PROVE  RaceInv'
<1>1. "x4" \in ListStatements \ {"idle"} /\ At(t, "x4")
  BY DEF Write, ListStatements
<1>2. PICK k \in Pointer : node[t] = k /\ ListShape("x4", k)
  BY <1>1, AtStatement
<1>3. list \in ListRecord /\ live \subseteq Keys /\ NULL \notin live
  BY <1>1, AtStatement
<1>4. k \in live /\ list.head # NULL /\ list.prev[k] = NULL /\ list.next[k] = list.head
  BY <1>2 DEF ListShape
<1>5. PICK pv \in [Keys -> Pointer] :
        /\ Linked(list.head, list.tail, list.next, pv, live \ {k})
        /\ \A x \in Keys : list.prev[x] = IF x = list.head THEN k ELSE pv[x]
  BY <1>2 DEF ListShape
<1>6. PICK l \in {"idle", "unlock"} :
        live' = live /\ Goto(t, l) /\ list' = SetHead(list, k) /\ (l = "idle" => op[t] # "put")
  BY <1>2 DEF Write, SetHead, End
<1>7. HeadWritten(list, k, list')
  BY <1>3, <1>6, EndWritten
<1>8. /\ list' \in ListRecord /\ list'.head = k /\ list'.tail = list.tail /\ list'.next = list.next
      /\ list'.prev = list.prev
  BY <1>7 DEF HeadWritten
<1>9. Linked(k, list.tail, list.next, list.prev, (live \ {k}) \cup {k})
  <2>1. \A x \in live \ {k} : list.prev[x] = IF x = list.head THEN k ELSE pv[x]
    BY <1>3, <1>5
  <2> QED BY <1>3, <1>4, <1>5, <2>1, LinkedFirst
<1>10. (live \ {k}) \cup {k} = live
  BY <1>4
<1>11. ListShape(l, k)'
  BY <1>6, <1>8, <1>9, <1>10 DEF ListShape, Whole, AddStatements
<1>12. l \in ListStatements /\ live' \subseteq Keys /\ pc[t] \in ListStatements \ {"idle"}
  BY <1>1, <1>3, <1>6, AtStatement DEF ListStatements
<1> QED BY <1>2, <1>6, <1>8, <1>11, <1>12, ListGoesOn DEF Unlocked, AddStatements

\* The end of move_to_head.
LEMMA LinkFirstInv ==
  ASSUME RaceInv, NEW t \in Threads, LinkFirst(t), UNCHANGED registryVars
  PROVE  RaceInv'
<1>1. CASE Write(t, "x1", {node[t]}, [list EXCEPT !.prev[node[t]] = NULL], "x2")
  BY <1>1, LinkOwnInv
<1>2. CASE Write(t, "x2", {node[t]}, [list EXCEPT !.next[node[t]] = list.head], "x3")
  BY <1>2, LinkOwnInv
<1>3. CASE Write(t, "x3", {list.head} \ {NULL},
                 IF list.head = NULL THEN list ELSE [list EXCEPT !.prev[list.head] = node[t]], "x4")
  BY <1>3, LinkBackInv
<1>4. CASE Write(t, "x4", {}, [list EXCEPT !.head = node[t]], End(t))
  BY <1>4, LinkHeadInv
<1> QED BY <1>1, <1>2, <1>3, <1>4 DEF LinkFirst

\* The first node of an empty list: head, tail, and no successor.
LEMMA OnlyNodeInv ==
  ASSUME RaceInv, NEW t \in Threads, UNCHANGED registryVars,
         \/ list.head = NULL /\ Write(t, "a2", {}, [list EXCEPT !.head = node[t]], "e2")
         \/ Write(t, "e2", {}, [list EXCEPT !.tail = node[t]], "e3")
         \/ Write(t, "e3", {node[t]}, [list EXCEPT !.next[node[t]] = NULL], End(t))
  PROVE  RaceInv'
<1>1. PICK l \in {"a2", "e2", "e3"} :
        /\ At(t, l)
        /\ l = "a2" => list.head = NULL /\ Write(t, "a2", {}, [list EXCEPT !.head = node[t]], "e2")
        /\ l = "e2" => Write(t, "e2", {}, [list EXCEPT !.tail = node[t]], "e3")
        /\ l = "e3" => Write(t, "e3", {node[t]}, [list EXCEPT !.next[node[t]] = NULL], End(t))
  BY DEF Write
<1>2. l \in ListStatements \ {"idle"}
  BY DEF ListStatements
<1>3. PICK k \in Pointer : node[t] = k /\ ListShape(l, k)
  BY <1>1, <1>2, AtStatement
<1>4. /\ list \in ListRecord /\ live \subseteq Keys /\ NULL \notin live /\ NULL \in Pointer
      /\ pc[t] \in ListStatements \ {"idle"}
  BY <1>1, <1>2, AtStatement DEF Pointer
<1>5. list.prev[k] = NULL
  BY <1>3 DEF ListShape
<1>6. CASE l = "a2"
  <2>1. k \in live /\ live \ {k} = {}
    BY <1>1, <1>3, <1>4, <1>6, LinkedNeighbours DEF ListShape, AllBut
  <2>2. live' = live /\ Goto(t, "e2") /\ list' = SetHead(list, k)
    BY <1>1, <1>3, <1>6 DEF Write, SetHead
  <2>3. HeadWritten(list, k, list')
    BY <1>4, <2>2, EndWritten
  <2>4. ListShape("e2", k)' /\ list' \in ListRecord
    BY <1>5, <2>1, <2>2, <2>3 DEF ListShape, HeadWritten, AddStatements
  <2> QED BY <1>3, <1>4, <2>2, <2>4, ListGoesOn DEF ListStatements, Unlocked, AddStatements
<1>7. CASE l = "e2"
  <2>1. live = {k} /\ list.head = k
    BY <1>3, <1>7 DEF ListShape
  <2>2. live' = live /\ Goto(t, "e3") /\ list' = SetTail(list, k)
    BY <1>1, <1>3, <1>7 DEF Write, SetTail
  <2>3. TailWritten(list, k, list')
    BY <1>4, <2>2, EndWritten
  <2>4. ListShape("e3", k)' /\ list' \in ListRecord
    BY <1>5, <2>1, <2>2, <2>3 DEF ListShape, TailWritten, AddStatements
  <2> QED BY <1>3, <1>4, <2>2, <2>4, ListGoesOn DEF ListStatements, Unlocked, AddStatements
<1>8. CASE l = "e3"
  <2>1. live = {k} /\ list.head = k /\ list.tail = k /\ k \in Keys
    BY <1>3, <1>4, <1>8 DEF ListShape
  <2>2. PICK m \in {"idle", "unlock"} :
          live' = live /\ Goto(t, m) /\ list' = SetNext(list, k, NULL) /\ (m = "idle" => op[t] # "put")
    BY <1>1, <1>3, <1>8, <2>1 DEF Write, SetNext, End
  <2>3. NextWritten(list, k, NULL, list')
    BY <1>4, <2>1, <2>2, LinkWritten
  <2>4. /\ list' \in ListRecord /\ list'.head = k /\ list'.tail = k
        /\ list'.prev[k] = NULL /\ list'.next[k] = NULL
    BY <1>5, <2>1, <2>3 DEF NextWritten
  <2>5. Linked(k, k, list'.next, list'.prev, {k})
    BY <2>4, LinkedOne
  <2>6. ListShape(m, k)'
    BY <2>1, <2>2, <2>4, <2>5 DEF ListShape, Whole, AddStatements
  <2> QED BY <1>3, <1>4, <2>2, <2>4, <2>6, ListGoesOn DEF ListStatements, Unlocked, AddStatements
<1> QED BY <1>6, <1>7, <1>8

\* A new node enters the list.
LEMMA AddToHeadInv ==
  ASSUME RaceInv, NEW t \in Threads, add_to_head(t), UNCHANGED registryVars
  PROVE  RaceInv'
<1>1. CASE Write(t, "a1", {node[t]}, [list EXCEPT !.prev[node[t]] = NULL], "a2")
  BY <1>1, LinkOwnInv
<1>2. CASE list.head # NULL /\ Test(t, "a2", "a3")
  <2>1. "a2" \in ListStatements \ {"idle"} /\ "a3" \in ListStatements /\ At(t, "a2")
    BY <1>2 DEF Test, ListStatements
  <2>2. PICK k \in Pointer : node[t] = k /\ ListShape("a2", k)
    BY <2>1, AtStatement
  <2>3. Goto(t, "a3") /\ list' = list /\ live' = live
    BY <1>2 DEF Test
  <2>4. ListShape("a3", k)'
    BY <1>2, <2>2, <2>3 DEF ListShape, AllBut, AddStatements
  <2>5. list' \in ListRecord /\ live' \subseteq Keys /\ pc[t] \in ListStatements \ {"idle"}
    BY <2>1, <2>3, AtStatement
  <2> QED BY <2>1, <2>2, <2>3, <2>4, <2>5, ListGoesOn DEF Unlocked, AddStatements
<1>3. CASE \/ list.head = NULL /\ Write(t, "a2", {}, [list EXCEPT !.head = node[t]], "e2")
           \/ Write(t, "e2", {}, [list EXCEPT !.tail = node[t]], "e3")
           \/ Write(t, "e3", {node[t]}, [list EXCEPT !.next[node[t]] = NULL], End(t))
  BY <1>3, OnlyNodeInv
<1>4. CASE Write(t, "a3", {node[t]}, [list EXCEPT !.next[node[t]] = list.head], "a4")
  BY <1>4, LinkOwnInv
<1>5. CASE Write(t, "a4", {list.head}, [list EXCEPT !.prev[list.head] = node[t]], "x4")
  BY <1>5, LinkBackInv
<1> QED BY <1>1, <1>2, <1>3, <1>4, <1>5 DEF add_to_head

\* lru_cache_remove_tail takes the last node out and frees it.
LEMMA RemoveTailInv ==
  ASSUME Overlapping \subseteq {"put"}, RaceInv, NEW t \in Threads,
         lru_cache_remove_tail(t), UNCHANGED registryVars
  PROVE  RaceInv'
<1>0. /\ list \in ListRecord /\ live \subseteq Keys /\ NULL \notin live /\ NULL \in Pointer
      /\ list.tail \in Pointer /\ NULL \notin Keys
  BY RacesAssumption DEF RaceInv, RaceTypes, ListRecord, Pointer
<1>1. CASE list.tail # NULL /\ Begin(t, "drop", list.tail, "r_head") /\ UNCHANGED <<listVars, mutex>>
  <2>1. "drop" \in Operations /\ "r_head" \in ListStatements \ {"idle"} /\ "drop" # "put"
    BY <1>1 DEF Begin, ListStatements
  <2>2. Whole
    BY <1>1, <2>1, BeginsAlone DEF RaceInv
  <2>3. list.tail \in live
    BY <1>0, <1>1, <2>2, LinkedNeighbours DEF Whole
  <2>4. list' = list /\ live' = live /\ mutex' = mutex
    BY <1>1 DEF listVars
  <2>5. PICK k \in Pointer : k = list.tail
    BY <1>0
  <2>6. ListShape("r_head", k)'
    BY <2>2, <2>3, <2>4, <2>5 DEF ListShape, Whole, AddStatements
  <2>7. Begin(t, "drop", k, "r_head")
    BY <1>1, <2>5
  <2> QED BY <1>0, <2>1, <2>4, <2>6, <2>7, ListBegins
<1>2. CASE list.head # list.tail /\ Test(t, "r_head", "r_tail")
  <2>1. "r_head" \in ListStatements \ {"idle"} /\ "r_tail" \in ListStatements /\ At(t, "r_head")
    BY <1>2 DEF Test, ListStatements
  <2>2. PICK k \in Pointer : node[t] = k /\ ListShape("r_head", k)
    BY <2>1, AtStatement
  <2>3. Goto(t, "r_tail") /\ list' = list /\ live' = live
    BY <1>2 DEF Test
  <2>4. ListShape("r_tail", k)'
    BY <1>2, <2>2, <2>3 DEF ListShape, Whole, AddStatements
  <2>5. pc[t] \in ListStatements \ {"idle"} /\ pc[t] \in Unlocked
    BY <2>1, AtStatement DEF At, Unlocked
  <2> QED BY <1>0, <2>1, <2>2, <2>3, <2>4, <2>5, ListGoesOn
<1>3. CASE /\ list.head = list.tail /\ At(t, "r_head")
           /\ list' = [list EXCEPT !.head = NULL] /\ Goto(t, "r_none") /\ UNCHANGED live
  <2>1. "r_head" \in ListStatements \ {"idle"} /\ "r_none" \in ListStatements
    BY DEF ListStatements
  <2>2. PICK k \in Pointer : node[t] = k /\ ListShape("r_head", k)
    BY <1>3, <2>1, AtStatement
  <2>3. HeadWritten(list, NULL, list') /\ live' = live
    BY <1>0, <1>3, EndWritten DEF SetHead
  <2>4. k \in live /\ list.tail = k /\ Linked(k, k, list.next, list.prev, live)
    BY <1>3, <2>2 DEF ListShape, Whole
  <2>5. ListShape("r_none", k)' /\ list' \in ListRecord
    BY <2>3, <2>4 DEF ListShape, HeadWritten, AddStatements
  <2>6. pc[t] \in ListStatements \ {"idle"} /\ pc[t] \in Unlocked
    BY <1>3, <2>1, AtStatement DEF At, Unlocked
  <2> QED BY <1>0, <1>3, <2>1, <2>2, <2>3, <2>5, <2>6, ListGoesOn
<1>4. CASE /\ At(t, "r_none")
           /\ list' = [list EXCEPT !.tail = NULL] /\ Goto(t, "free") /\ UNCHANGED live
  <2>1. "r_none" \in ListStatements \ {"idle"} /\ "free" \in ListStatements
    BY DEF ListStatements
  <2>2. PICK k \in Pointer : node[t] = k /\ ListShape("r_none", k)
    BY <1>4, <2>1, AtStatement
  <2>3. TailWritten(list, NULL, list') /\ live' = live
    BY <1>0, <1>4, EndWritten DEF SetTail
  <2>4. k \in live /\ list.head = NULL /\ Linked(k, k, list.next, list.prev, live)
    BY <2>2 DEF ListShape
  <2>5. live \ {k} = {}
    BY <1>0, <2>4, LinkedNeighbours
  <2>6. list'.head = NULL /\ list'.tail = NULL /\ list' \in ListRecord
    BY <2>3, <2>4 DEF TailWritten
  <2>7. Linked(NULL, NULL, list'.next, list'.prev, {})
    BY LinkedNone
  <2>8. AllBut(k)'
    BY <2>3, <2>4, <2>5, <2>6, <2>7 DEF AllBut
  <2>9. ListShape("free", k)'
    BY <2>8 DEF ListShape, AddStatements
  <2>10. pc[t] \in ListStatements \ {"idle"} /\ pc[t] \in Unlocked
    BY <1>4, <2>1, AtStatement DEF At, Unlocked
  <2> QED BY <1>0, <1>4, <2>1, <2>2, <2>3, <2>6, <2>9, <2>10, ListGoesOn
<1>5. CASE Write(t, "r_tail", {node[t]}, [list EXCEPT !.tail = list.prev[node[t]]], "r_next")
  <2>1. "r_tail" \in ListStatements \ {"idle"} /\ "r_next" \in ListStatements /\ At(t, "r_tail")
    BY <1>5 DEF Write, ListStatements
  <2>2. PICK k \in Pointer : node[t] = k /\ ListShape("r_tail", k)
    BY <2>1, AtStatement
  <2>3. k \in live /\ list.head # k /\ list.tail = k /\ Whole
    BY <2>2 DEF ListShape
  <2>4. PICK p \in Pointer : p = list.prev[k]
    BY <1>0, <2>3 DEF ListRecord
  <2>5. live' = live /\ Goto(t, "r_next") /\ list' = SetTail(list, p)
    BY <1>5, <2>2, <2>3, <2>4 DEF Write, SetTail
  <2>6. TailWritten(list, p, list')
    BY <1>0, <2>5, EndWritten
  <2>7. ListShape("r_next", k)' /\ list' \in ListRecord
    BY <2>3, <2>4, <2>5, <2>6 DEF ListShape, Whole, TailWritten, AddStatements
  <2>8. pc[t] \in ListStatements \ {"idle"} /\ pc[t] \in Unlocked
    BY <2>1, AtStatement DEF At, Unlocked
  <2> QED BY <1>0, <2>1, <2>2, <2>5, <2>7, <2>8, ListGoesOn
<1>6. CASE Write(t, "r_next", {list.tail}, [list EXCEPT !.next[list.tail] = NULL], "free")
  <2>1. "r_next" \in ListStatements \ {"idle"} /\ "free" \in ListStatements /\ At(t, "r_next")
    BY <1>6 DEF Write, ListStatements
  <2>2. PICK k \in Pointer : node[t] = k /\ ListShape("r_next", k)
    BY <2>1, AtStatement
  <2>3. /\ k \in live /\ list.head # k /\ list.tail = list.prev[k]
        /\ Linked(list.head, k, list.next, list.prev, live)
    BY <2>2 DEF ListShape
  <2>4. list.prev[k] \in live /\ list.next[k] = NULL
    BY <1>0, <2>3, LinkedNeighbours
  <2>5. PICK p \in Keys : p = list.tail
    BY <1>0, <2>3, <2>4
  <2>6. live' = live /\ Goto(t, "free") /\ list' = SetNext(list, p, NULL)
    BY <1>6, <2>3, <2>4, <2>5 DEF Write, SetNext
  <2>7. NextWritten(list, p, NULL, list')
    BY <1>0, <2>6, LinkWritten
  <2>8. /\ list' \in ListRecord /\ list'.head = list.head /\ list'.tail = p /\ list'.prev = list.prev
        /\ \A x \in live : list'.next[x] = IF x = p THEN NULL ELSE list.next[x]
    BY <1>0, <2>5, <2>7 DEF NextWritten
  <2>9. Unlinked(list.head, k, list.next, list.prev, live, k,
                 list'.head, list'.tail, list'.next, list'.prev)
    BY <2>3, <2>4, <2>5, <2>8 DEF Unlinked
  <2>10. Linked(list'.head, list'.tail, list'.next, list'.prev, live \ {k})
    BY <1>0, <2>3, <2>9, LinkedUnlinked
  <2>11. ListShape("free", k)'
    BY <2>3, <2>6, <2>10 DEF ListShape, AllBut, AddStatements
  <2>12. pc[t] \in ListStatements \ {"idle"} /\ pc[t] \in Unlocked
    BY <2>1, AtStatement DEF At, Unlocked
  <2> QED BY <1>0, <2>1, <2>2, <2>6, <2>8, <2>11, <2>12, ListGoesOn
<1>7. CASE /\ At(t, "free") /\ live' = live \ {node[t]}
           /\ IF node[t] \in live THEN Goto(t, "idle") ELSE Crash
           /\ UNCHANGED list
  <2>1. "free" \in ListStatements \ {"idle"} /\ "idle" \in ListStatements
    BY DEF ListStatements
  <2>2. PICK k \in Pointer : node[t] = k /\ ListShape("free", k)
    BY <1>7, <2>1, AtStatement
  <2>3. AllBut(k)
    BY <2>2 DEF ListShape
  <2>4. live' = live \ {k} /\ list' = list /\ Goto(t, "idle")
    BY <1>7, <2>2, <2>3 DEF AllBut
  <2>5. ListShape("idle", k)'
    BY <2>3, <2>4 DEF ListShape, Whole, AllBut
  <2>6. pc[t] \in ListStatements \ {"idle"} /\ pc[t] \in Unlocked
    BY <1>7, <2>1, AtStatement DEF At, Unlocked
  <2> QED BY <1>0, <2>1, <2>2, <2>4, <2>5, <2>6, ListGoesOn
<1> QED BY <1>1, <1>2, <1>3, <1>4, <1>5, <1>6, <1>7 DEF lru_cache_remove_tail

\* lru_cache_put, with the mutex, and lru_cache_get find the list whole.
LEMMA PutGetBeginInv ==
  ASSUME Overlapping \subseteq {"put"}, RaceInv, NEW t \in Threads, NEW k \in Keys,
         PutLocks(t, k) \/ lru_cache_get(t, k), UNCHANGED registryVars
  PROVE  RaceInv'
<1>1. PICK o \in {"put", "get"}, l \in {"room", "m_head"} :
        /\ Begin(t, o, k, l) /\ (l = "m_head" => k \in live)
        /\ IF o = "put" THEN mutex = NULL /\ mutex' = t ELSE mutex' = mutex
        /\ live' = live /\ list' = list
  BY DEF PutLocks, lru_cache_get, listVars
<1>2. o \in Operations /\ k \in Pointer /\ list' \in ListRecord /\ live' \subseteq Keys
  BY <1>1 DEF Begin, RaceInv, RaceTypes, Pointer
<1>3. Whole
  BY <1>1, BeginsAlone DEF RaceInv
<1>4. ListShape(l, k)'
  BY <1>1, <1>3 DEF ListShape, Whole, AddStatements
<1>5. l \in ListStatements \ {"idle"} /\ l \notin Unlocked
  BY DEF ListStatements, Unlocked, AddStatements
<1> QED BY <1>1, <1>2, <1>4, <1>5, ListBegins

\* With the mutex: a put returns early and leaves the list alone, finds its
\* node, or gives the table a new node before the list has it.
LEMMA PutInv ==
  ASSUME RaceInv, NEW t \in Threads, PutReturnsEarly(t) \/ PutStores(t), UNCHANGED registryVars
  PROVE  RaceInv'
<1>1. "room" \in ListStatements \ {"idle"} /\ At(t, "room")
  BY DEF PutReturnsEarly, PutStores, Test, ListStatements
<1>2. list \in ListRecord /\ live \subseteq Keys /\ pc[t] \in ListStatements \ {"idle"}
  BY <1>1, AtStatement
<1>3. PICK k \in Pointer : node[t] = k /\ ListShape("room", k)
  BY <1>1, AtStatement
<1>4. Whole /\ k \in Keys /\ NULL \in Pointer
  BY <1>3 DEF ListShape, Pointer
<1>5. {"unlock", "m_head", "a1"} \subseteq ListStatements \ (Unlocked \cup {"idle"})
  BY DEF ListStatements, Unlocked, AddStatements
<1>6. CASE PutReturnsEarly(t)
  <2>1. Goto(t, "unlock") /\ list' = list /\ live' = live
    BY <1>6 DEF PutReturnsEarly, Test
  <2>2. ListShape("unlock", k)'
    BY <1>4, <2>1 DEF ListShape, Whole, AddStatements
  <2> QED BY <1>2, <1>3, <1>5, <2>1, <2>2, ListGoesOn
<1>7. CASE PutStores(t) /\ k \in live
  <2>1. Goto(t, "m_head") /\ list' = list /\ live' = live
    BY <1>3, <1>7 DEF PutStores
  <2>2. ListShape("m_head", k)'
    BY <1>4, <1>7, <2>1 DEF ListShape, Whole, AddStatements
  <2> QED BY <1>2, <1>3, <1>5, <2>1, <2>2, ListGoesOn
<1>8. CASE PutStores(t) /\ k \notin live
  <2>1. /\ Goto(t, "a1") /\ live' = live \cup {k}
        /\ list' = [list EXCEPT !.next[k] = NULL, !.prev[k] = NULL]
    BY <1>3, <1>8 DEF PutStores
  <2>2. /\ list' \in ListRecord /\ list'.head = list.head /\ list'.tail = list.tail
        /\ \A x \in live : list'.next[x] = list.next[x] /\ list'.prev[x] = list.prev[x]
    BY <1>2, <1>4, <1>8, <2>1 DEF ListRecord
  <2>3. Linked(list'.head, list'.tail, list'.next, list'.prev, live)
    BY <1>4, <2>2, LinkedSame DEF Whole
  <2>4. live' \ {k} = live /\ k \in live' /\ live' \subseteq Keys
    BY <1>2, <1>4, <1>8, <2>1
  <2>5. ListShape("a1", k)'
    BY <2>3, <2>4 DEF ListShape, AllBut, AddStatements
  <2> QED BY <1>2, <1>3, <1>5, <2>1, <2>2, <2>4, <2>5, ListGoesOn
<1> QED BY <1>6, <1>7, <1>8

\* The unlock at the end of every put, of the early returns too.
LEMMA PutUnlocksInv ==
  ASSUME RaceInv, NEW t \in Threads, PutUnlocks(t), UNCHANGED registryVars
  PROVE  RaceInv'
<1>1. "unlock" \in ListStatements \ {"idle"} /\ At(t, "unlock") /\ "idle" \in ListStatements
  BY DEF PutUnlocks, ListStatements
<1>2. list \in ListRecord /\ live \subseteq Keys /\ pc[t] \in ListStatements \ {"idle"}
  BY <1>1, AtStatement
<1>3. PICK k \in Pointer : node[t] = k /\ ListShape("unlock", k)
  BY <1>1, AtStatement
<1>4. list' = list /\ live' = live
  BY DEF PutUnlocks, listVars
<1>5. ListShape("idle", k)'
  BY <1>3, <1>4 DEF ListShape, Whole, AddStatements
<1>6. mutex \in {t, NULL}
  <2>1. \A u \in Threads \ {t} : op[u] = NULL
    BY <1>2 DEF RaceInv, OneAtATime
  <2>2. NULL # "put"
    BY RacesAssumption
  <2> QED BY <2>1, <2>2 DEF RaceInv, OneAtATime
<1>7. Went(t, "idle")
  BY <1>6 DEF Went, PutUnlocks
<1>8. "idle" \notin Unlocked
  BY DEF Unlocked, AddStatements
<1> QED BY <1>1, <1>2, <1>3, <1>4, <1>5, <1>7, <1>8, ListWent

-----------------------------------------------------------------------------
(* The statements on the registry.                                         *)

\* The types of the registry.
RegistryTypes ==
  /\ slots \in [0 .. MaxSlots -> Keys \cup {Nothing, Blank}]
  /\ added \subseteq Keys
  /\ moved \in BOOLEAN
  /\ entries_count \in Nat /\ capacity \in Nat /\ allocated \in Nat
  /\ local \in [Threads -> Nat]

\* A statement on the registry keeps the invariant if it leaves the shape that
\* is due at the next one.
LEMMA RegistryGoesOn ==
  ASSUME RaceInv, NEW t \in Threads, NEW p \in Pointer, node[t] = p, pc[t] \in AddStatements,
         NEW l \in AddStatements \cup {"idle"}, Goto(t, l), UNCHANGED listVars,
         RegistryTypes', Listed', RegistryShape(l, t, p)'
  PROVE  RaceInv'
<1>1. pc[t] # "idle" /\ l \in ListStatements \cup AddStatements
  BY DEF AddStatements, ListStatements
<1>2. /\ OneAtATime' /\ crashed' = FALSE /\ (Quiet' <=> l = "idle")
      /\ op' \in [Threads -> Operations \cup {NULL}]
      /\ pc' \in [Threads -> ListStatements \cup AddStatements]
      /\ node' = node /\ pc' = [pc EXCEPT ![t] = l]
      /\ \A u \in Threads \ {t} : pc[u] = "idle"
  <2>1. op[t] # "put"
    BY DEF RaceInv, OneAtATime, Unlocked
  <2>2. Went(t, l)
    BY <2>1, GotoWent
  <2> QED BY <1>1, <2>1, <2>2, Proceeded
<1>3. RaceTypes'
  BY <1>2 DEF RaceInv, RaceTypes, RegistryTypes, listVars
<1>4. Whole'
  <2>1. PICK m \in AddStatements : pc[t] = m
    OBVIOUS
  <2>2. ListShape(m, p)
    BY <1>1, <2>1 DEF RaceInv
  <2>3. Whole
    BY <2>2 DEF ListShape
  <2> QED BY <2>3 DEF Whole, listVars
<1>5. ASSUME NEW u \in Threads, NEW m \in ListStatements \cup AddStatements, NEW j \in Pointer,
             pc'[u] = m, node'[u] = j, m # "idle"
      PROVE  ListShape(m, j)' /\ RegistryShape(m, u, j)'
  <2>1. pc \in [Threads -> ListStatements \cup AddStatements]
    BY DEF RaceInv, RaceTypes
  <2>2. u = t /\ m = l /\ j = p
    BY <1>2, <1>5, <2>1
  <2>3. m \in AddStatements
    BY <1>5, <2>2
  <2>4. ListShape(m, j)'
    BY <1>4, <2>3 DEF ListShape, AddStatements
  <2> QED BY <2>2, <2>4
<1>6. ASSUME Quiet' PROVE Resting'
  BY <1>2, <1>6 DEF RegistryShape, Resting, ListStatements
<1> QED BY <1>2, <1>3, <1>4, <1>5, <1>6 DEF RaceInv, Resting

\* What a thread at statement l of an addition finds.
LEMMA AtAddition ==
  ASSUME RaceInv, NEW t \in Threads, NEW l \in AddStatements, At(t, l)
  PROVE  /\ pc[t] \in AddStatements /\ RegistryTypes /\ Listed
         /\ \E p \in Pointer : node[t] = p /\ RegistryShape(l, t, p)
<1>1. l # "idle"
  BY DEF AddStatements
<1> QED BY <1>1 DEF RaceInv, RaceTypes, RegistryTypes, At

\* There is a slot for every path that is not listed yet.
LEMMA SlotForPath ==
  ASSUME RegistryTypes, Listed, NEW p \in Keys \ added
  PROVE  /\ IsFiniteSet(added) /\ entries_count + 1 <= MaxSlots
         /\ Cardinality(added \cup {p}) = entries_count + 1
<1>1. IsFiniteSet(Keys)
  BY RegistryAssumption
<1>2. added \subseteq Keys /\ added \cup {p} \subseteq Keys
  BY DEF RegistryTypes
<1>3. IsFiniteSet(added)
  BY <1>1, <1>2, FS_Subset
<1>4. Cardinality(added \cup {p}) = Cardinality(added) + 1
  BY <1>3, FS_AddElement
<1>5. Cardinality(added \cup {p}) <= Cardinality(Keys)
  BY <1>1, <1>2, FS_Subset
<1> QED BY <1>3, <1>4, <1>5 DEF Listed, MaxSlots

\* cas_add_to_registry begins; its path is not in the registry.
LEMMA AddInv ==
  ASSUME Overlapping \subseteq {"put"}, RaceInv, NEW t \in Threads, NEW p \in Keys,
         Add(t, p), UNCHANGED listVars
  PROVE  RaceInv'
<1>1. /\ p \notin added /\ Begin(t, "add", p, "test") /\ mutex' = mutex /\ UNCHANGED registryVars
      /\ "add" \in Operations /\ "add" # "put"
  BY DEF Add, Begin
<1>2. "test" \in (ListStatements \cup AddStatements) \ {"idle"} /\ p \in Pointer
  BY DEF AddStatements, Pointer
<1>3. /\ OneAtATime' /\ crashed' = FALSE /\ ~ Quiet'
      /\ op' \in [Threads -> Operations \cup {NULL}]
      /\ pc' \in [Threads -> ListStatements \cup AddStatements]
      /\ node' \in [Threads -> Pointer]
      /\ pc' = [pc EXCEPT ![t] = "test"] /\ node' = [node EXCEPT ![t] = p]
      /\ \A u \in Threads : pc[u] = "idle"
  BY <1>1, <1>2, Begun
<1>4. Whole /\ Resting
  BY <1>3 DEF RaceInv, Resting, Quiet
<1>5. RaceTypes' /\ Listed'
  BY <1>1, <1>3 DEF RaceInv, RaceTypes, Listed, registryVars, listVars
<1>6. Whole'
  BY <1>4 DEF Whole, listVars
<1>7. Resting' /\ p \in Keys \ added'
  BY <1>1, <1>4 DEF Resting, registryVars
<1>8. ASSUME NEW u \in Threads, NEW m \in ListStatements \cup AddStatements, NEW j \in Pointer,
             pc'[u] = m, node'[u] = j, m # "idle"
      PROVE  ListShape(m, j)' /\ RegistryShape(m, u, j)'
  <2>1. pc \in [Threads -> ListStatements \cup AddStatements] /\ node \in [Threads -> Pointer]
    BY DEF RaceInv, RaceTypes
  <2>2. u = t /\ m = "test" /\ j = p
    BY <1>3, <1>8, <2>1
  <2>3. ListShape(m, j)'
    BY <1>6, <2>2 DEF ListShape, AddStatements
  <2>4. RegistryShape(m, u, j)'
    BY <1>7, <2>2 DEF Resting, RegistryShape, AddStatements
  <2> QED BY <2>3, <2>4
<1> QED BY <1>3, <1>5, <1>8 DEF RaceInv

\* Room is made before a slot is used: the test, the doubling, the new array.
LEMMA GrowInv ==
  ASSUME RaceInv, NEW t \in Threads, UNCHANGED listVars,
         TestRoom(t) \/ Double(t) \/ Realloc(t) \/ StoreEntries(t)
  PROVE  RaceInv'
<1>1. PICK l \in {"test", "double", "realloc", "store"} :
        /\ At(t, l)
        /\ l = "test" => TestRoom(t)
        /\ l = "double" => Double(t)
        /\ l = "realloc" => Realloc(t)
        /\ l = "store" => StoreEntries(t)
  BY DEF TestRoom, Double, Realloc, StoreEntries
<1>2. l \in AddStatements
  BY DEF AddStatements
<1>3. pc[t] \in AddStatements /\ RegistryTypes /\ Listed
  BY <1>1, <1>2, AtAddition
<1>4. PICK p \in Pointer : node[t] = p /\ RegistryShape(l, t, p)
  BY <1>1, <1>2, AtAddition
<1>5. p \in Keys \ added /\ (moved <=> l = "store")
  BY <1>2, <1>4 DEF RegistryShape
<1>6. slots' = slots /\ entries_count' = entries_count /\ added' = added /\ local' = local
  BY <1>1 DEF TestRoom, Double, Realloc, StoreEntries, registryVars
<1>7. Listed'
  BY <1>3, <1>6 DEF Listed
<1>8. PICK m \in {"double", "realloc", "store", "malloc"} :
        Goto(t, m) /\ RegistryTypes' /\ RegistryShape(m, t, p)'
  <2>1. CASE l = "test"
    <3>1. PICK m \in {"double", "malloc"} :
            /\ Goto(t, m) /\ (m = "double" <=> entries_count + 1 >= capacity)
            /\ UNCHANGED registryVars
      BY <1>1, <2>1 DEF TestRoom
    <3>2. ~ moved /\ capacity = allocated /\ entries_count < allocated
      BY <1>4, <2>1 DEF RegistryShape
    <3>3. ~ moved' /\ capacity' = capacity /\ allocated' = allocated /\ moved' \in BOOLEAN
      BY <1>3, <3>1, <3>2 DEF registryVars, RegistryTypes
    <3>4. RegistryTypes'
      BY <1>3, <1>6, <3>3 DEF RegistryTypes
    <3>5. RegistryShape(m, t, p)'
      BY <1>3, <1>5, <1>6, <3>1, <3>2, <3>3 DEF RegistryShape, RegistryTypes, ListStatements
    <3> QED BY <3>1, <3>4, <3>5
  <2>2. CASE l = "double"
    <3>1. Goto(t, "realloc") /\ capacity' = 2 * capacity /\ allocated' = allocated /\ moved' = moved
      BY <1>1, <2>2 DEF Double
    <3>2. ~ moved /\ capacity = allocated /\ entries_count < allocated
      BY <1>4, <2>2 DEF RegistryShape
    <3>3. entries_count' + 1 < capacity' /\ capacity' \in Nat
      BY <1>3, <1>6, <3>1, <3>2 DEF RegistryTypes
    <3>4. RegistryTypes'
      BY <1>3, <1>6, <3>1, <3>3 DEF RegistryTypes
    <3>5. RegistryShape("realloc", t, p)'
      BY <1>5, <1>6, <3>1, <3>2, <3>3 DEF RegistryShape, ListStatements
    <3> QED BY <3>1, <3>4, <3>5
  <2>3. CASE l = "realloc"
    <3>1. Goto(t, "store") /\ moved' = TRUE /\ allocated' = capacity /\ capacity' = capacity
      BY <1>1, <1>5, <2>3 DEF Realloc
    <3>2. entries_count + 1 < capacity
      BY <1>4, <2>3 DEF RegistryShape
    <3>3. RegistryTypes'
      BY <1>3, <1>6, <3>1 DEF RegistryTypes
    <3>4. RegistryShape("store", t, p)'
      BY <1>5, <1>6, <3>1, <3>2 DEF RegistryShape, ListStatements
    <3> QED BY <3>1, <3>3, <3>4
  <2>4. CASE l = "store"
    <3>1. Goto(t, "malloc") /\ moved' = FALSE /\ allocated' = allocated /\ capacity' = capacity
      BY <1>1, <2>4 DEF StoreEntries
    <3>2. entries_count + 1 < capacity /\ capacity = allocated
      BY <1>4, <2>4 DEF RegistryShape
    <3>3. RegistryTypes'
      BY <1>3, <1>6, <3>1 DEF RegistryTypes
    <3>4. RegistryShape("malloc", t, p)'
      BY <1>5, <1>6, <3>1, <3>2 DEF RegistryShape, ListStatements
    <3> QED BY <3>1, <3>3, <3>4
  <2> QED BY <2>1, <2>2, <2>3, <2>4
<1>9. m \in AddStatements
  BY DEF AddStatements
<1> QED BY <1>3, <1>4, <1>7, <1>8, <1>9, RegistryGoesOn

\* The next free slot gets a string and the string the path; what is listed
\* stays where it is.
LEMMA FillInv ==
  ASSUME RaceInv, NEW t \in Threads, UNCHANGED listVars, Malloc(t) \/ Copy(t)
  PROVE  RaceInv'
<1>1. PICK l \in {"malloc", "copy"} :
        At(t, l) /\ (l = "malloc" => Malloc(t)) /\ (l = "copy" => Copy(t))
  BY DEF Malloc, Copy
<1>2. l \in AddStatements
  BY DEF AddStatements
<1>3. pc[t] \in AddStatements /\ RegistryTypes /\ Listed
  BY <1>1, <1>2, AtAddition
<1>4. PICK p \in Pointer : node[t] = p /\ RegistryShape(l, t, p)
  BY <1>1, <1>2, AtAddition
<1>5. /\ p \in Keys \ added /\ ~ moved /\ entries_count + 1 < capacity /\ capacity = allocated
      /\ l = "copy" => slots[entries_count] = Blank
  BY <1>2, <1>4 DEF RegistryShape
<1>6. entries_count + 1 <= MaxSlots
  BY <1>3, <1>5, SlotForPath
<1>7. PICK x \in Keys \cup {Blank}, m \in {"copy", "count"} :
        /\ slots' = [slots EXCEPT ![entries_count] = x] /\ Goto(t, m)
        /\ (m = "copy" => x = Blank) /\ (m = "count" => x = p)
        /\ entries_count' = entries_count /\ capacity' = capacity /\ allocated' = allocated
        /\ moved' = moved /\ local' = local /\ added' = added
  <2>1. ~ (entries_count >= allocated) /\ Blank # Nothing
    BY <1>3, <1>5, RegistryAssumption DEF RegistryTypes
  <2>2. CASE l = "malloc"
    BY <1>1, <1>5, <2>1, <2>2 DEF Malloc, StoreSlot
  <2>3. CASE l = "copy"
    BY <1>1, <1>4, <1>5, <2>1, <2>3 DEF Copy, StoreSlot
  <2> QED BY <2>2, <2>3
<1>8. MaxSlots \in Nat
  BY RegistryAssumption, FS_CardinalityType DEF MaxSlots
<1>9. /\ entries_count \in 0 .. MaxSlots /\ slots'[entries_count] = x
      /\ \A i \in 0 .. (entries_count - 1) : slots'[i] = slots[i]
  BY <1>3, <1>6, <1>7, <1>8 DEF RegistryTypes
<1>10. RegistryTypes'
  BY <1>3, <1>7 DEF RegistryTypes
<1>11. Listed'
  BY <1>3, <1>7, <1>9 DEF Listed
<1>12. RegistryShape(m, t, p)'
  BY <1>5, <1>7, <1>9 DEF RegistryShape, ListStatements
<1>13. m \in AddStatements
  BY DEF AddStatements
<1> QED BY <1>3, <1>4, <1>7, <1>10, <1>11, <1>12, <1>13, RegistryGoesOn

\* entries_count is read and counted up; the path is listed now.
LEMMA CountInv ==
  ASSUME RaceInv, NEW t \in Threads, UNCHANGED listVars, ReadCount(t) \/ CountUp(t)
  PROVE  RaceInv'
<1>1. PICK l \in {"count", "count_up"} :
        At(t, l) /\ (l = "count" => ReadCount(t)) /\ (l = "count_up" => CountUp(t))
  BY DEF ReadCount, CountUp
<1>2. l \in AddStatements
  BY DEF AddStatements
<1>3. pc[t] \in AddStatements /\ RegistryTypes /\ Listed
  BY <1>1, <1>2, AtAddition
<1>4. PICK p \in Pointer : node[t] = p /\ RegistryShape(l, t, p)
  BY <1>1, <1>2, AtAddition
<1>5. /\ p \in Keys \ added /\ ~ moved /\ entries_count + 1 < capacity /\ capacity = allocated
      /\ slots[entries_count] = p /\ (l = "count_up" => local[t] = entries_count)
  BY <1>2, <1>4 DEF RegistryShape
<1>6. CASE l = "count"
  <2>1. /\ local' = [local EXCEPT ![t] = entries_count] /\ Goto(t, "count_up")
        /\ UNCHANGED <<slots, entries_count, capacity, allocated, moved, added>>
    BY <1>1, <1>6 DEF ReadCount
  <2>2. RegistryTypes' /\ local'[t] = entries_count
    BY <1>3, <2>1 DEF RegistryTypes
  <2>3. Listed'
    BY <1>3, <2>1 DEF Listed
  <2>4. RegistryShape("count_up", t, p)'
    BY <1>5, <2>1, <2>2 DEF RegistryShape, ListStatements
  <2>5. "count_up" \in AddStatements
    BY DEF AddStatements
  <2> QED BY <1>3, <1>4, <2>1, <2>2, <2>3, <2>4, <2>5, RegistryGoesOn
<1>7. CASE l = "count_up"
  <2>1. /\ entries_count' = entries_count + 1 /\ added' = added \cup {p}
        /\ local' = [local EXCEPT ![t] = 0] /\ Goto(t, "idle")
        /\ UNCHANGED <<slots, capacity, allocated, moved>>
    BY <1>1, <1>4, <1>5, <1>7 DEF CountUp
  <2>2. RegistryTypes'
    BY <1>3, <1>5, <2>1 DEF RegistryTypes
  <2>3. Cardinality(added \cup {p}) = entries_count + 1
    BY <1>3, <1>5, SlotForPath
  <2>4. {slots[i] : i \in 0 .. ((entries_count + 1) - 1)} = added \cup {p}
    <3>1. entries_count \in Nat /\ {slots[i] : i \in 0 .. (entries_count - 1)} = added
      BY <1>3 DEF RegistryTypes, Listed
    <3>2. \A i : i \in 0 .. ((entries_count + 1) - 1) <=> i \in 0 .. (entries_count - 1) \/ i = entries_count
      BY <3>1
    <3> QED BY <1>5, <3>1, <3>2
  <2>5. Listed'
    BY <2>1, <2>3, <2>4 DEF Listed
  <2>6. RegistryShape("idle", t, p)'
    BY <1>5, <2>1 DEF RegistryShape, AddStatements
  <2> QED BY <1>3, <1>4, <2>1, <2>2, <2>5, <2>6, RegistryGoesOn
<1> QED BY <1>6, <1>7

-----------------------------------------------------------------------------
(* The theorems.                                                           *)

\* An empty list and an empty registry.
LEMMA InitRaceInv == Init => RaceInv
<1> SUFFICES ASSUME Init PROVE RaceInv
  OBVIOUS
<1>1. /\ NULL \notin Keys \cup Threads \cup {"get", "put", "drop", "add"} /\ IsFiniteSet(Keys)
      /\ InitialCapacity \in Nat \ {0}
  BY RacesAssumption, RegistryAssumption
<1>2. RaceTypes
  BY <1>1 DEF Init, ListInit, RaceTypes, ListRecord, Pointer, ListStatements
<1>3. OneAtATime
  BY <1>1 DEF Init, ListInit, OneAtATime
<1>4. Listed
  BY FS_EmptySet DEF Init, Listed
<1>5. Whole
  BY LinkedNone DEF Init, ListInit, Whole
<1> QED BY <1>1, <1>2, <1>3, <1>4, <1>5 DEF RaceInv, Init, ListInit

\* Every statement of every operation keeps the invariant.
LEMMA NextRaceInv ==
  ASSUME Overlapping \subseteq {"put"}
  PROVE  RaceInv /\ [Next]_vars => RaceInv'
<1> SUFFICES ASSUME RaceInv, [Next]_vars PROVE RaceInv'
  OBVIOUS
<1>1. CASE Next
  <2>1. PICK t \in Threads : \/ ListStep(t) /\ UNCHANGED registryVars
                             \/ RegistryStep(t) /\ UNCHANGED listVars
    BY <1>1 DEF Next
  <2>2. CASE ListStep(t) /\ UNCHANGED registryVars
    <3>1. ASSUME NEW k \in Keys, lru_cache_get(t, k) PROVE RaceInv'
      BY <2>2, <3>1, PutGetBeginInv
    <3>2. CASE lru_cache_put(t)
      BY <2>2, <3>2, PutGetBeginInv, PutInv, PutUnlocksInv DEF lru_cache_put
    <3>3. CASE lru_cache_remove_tail(t)
      BY <2>2, <3>3, RemoveTailInv
    <3>4. CASE move_to_head(t)
      BY <2>2, <3>4, MoveTestsInv, MoveOutInv, LinkFirstInv DEF move_to_head
    <3>5. CASE add_to_head(t)
      BY <2>2, <3>5, AddToHeadInv
    <3> QED BY <2>2, <3>1, <3>2, <3>3, <3>4, <3>5 DEF ListStep
  <2>3. CASE RegistryStep(t) /\ UNCHANGED listVars
    BY <2>3, AddInv, GrowInv, FillInv, CountInv DEF RegistryStep
  <2> QED BY <2>1, <2>2, <2>3
<1>2. CASE UNCHANGED vars
  <2>1. /\ UNCHANGED <<list, live, mutex, op, pc, node, crashed>>
        /\ UNCHANGED <<slots, entries_count, capacity, allocated, moved, local, added>>
    BY <1>2 DEF vars, listVars, threadVars, registryVars
  <2>2. RaceTypes' /\ OneAtATime' /\ crashed' = FALSE /\ Listed'
    BY <2>1 DEF RaceInv, RaceTypes, OneAtATime, Listed
  <2>3. \A t \in Threads, l \in ListStatements \cup AddStatements, k \in Pointer :
          pc'[t] = l /\ node'[t] = k /\ l # "idle" => ListShape(l, k)' /\ RegistryShape(l, t, k)'
    <3> TAKE t \in Threads, l \in ListStatements \cup AddStatements, k \in Pointer
    <3> HAVE pc'[t] = l /\ node'[t] = k /\ l # "idle"
    <3>1. ListShape(l, k) /\ RegistryShape(l, t, k)
      BY <2>1 DEF RaceInv
    <3>2. ListShape(l, k)'
      BY <2>1, <3>1 DEF ListShape, Whole, AllBut
    <3>3. RegistryShape(l, t, k)'
      BY <2>1, <3>1 DEF RegistryShape
    <3> QED BY <3>2, <3>3
  <2>4. (Quiet => Whole /\ ~ moved /\ capacity = allocated /\ entries_count < allocated)'
    BY <2>1 DEF RaceInv, Quiet, Whole
  <2> QED BY <2>2, <2>3, <2>4 DEF RaceInv
<1> QED BY <1>1, <1>2

\* The invariant holds always.
LEMMA AlwaysRaceInv ==
  ASSUME Overlapping \subseteq {"put"}
  PROVE  Spec => []RaceInv
<1>1. Init => RaceInv
  BY InitRaceInv
<1>2. RaceInv /\ [Next]_vars => RaceInv'
  BY NextRaceInv
<1> QED BY <1>1, <1>2, PTL DEF Spec

\* lru_cache_put may be under way on every thread at once, as long as nothing
\* that does not take the mutex is: the types hold, and the mutex is never left
\* with a thread that has returned, be it at the end, because the value finds
\* no room or because an allocation failed.  There is always a slot left between
\* two additions.
THEOREM RaceTypesHold ==
  ASSUME Overlapping \subseteq {"put"}
  PROVE  Spec => []TypeOK
<1>1. RaceInv => TypeOK
  <2> SUFFICES ASSUME RaceInv PROVE TypeOK
    OBVIOUS
  <2>1. mutex \in {t \in Threads : pc[t] # "idle"} \cup {NULL}
    <3>1. NULL # "put"
      BY RacesAssumption
    <3> QED BY <3>1 DEF RaceInv, OneAtATime
  <2>2. ListTypeOK
    BY <2>1 DEF ListTypeOK, RaceInv, RaceTypes, ListRecord
  <2> QED BY <2>2 DEF TypeOK, RaceInv, RaceTypes, AddStatements
<1> QED BY <1>1, AlwaysRaceInv, PTL

\* Puts from any number of threads, in any interleaving of their statements,
\* with gets and removals of the tail between them: no pointer that is followed
\* is null or freed, and the list is whole whenever no operation is under way.
THEOREM MutexProtectsTheList ==
  ASSUME Overlapping \subseteq {"put"}
  PROVE  Spec => []ListSurvivesThreads
<1>1. RaceInv => ListSurvivesThreads
  BY LinkedIsWellFormed DEF RaceInv, ListSurvivesThreads, Whole
<1> QED BY <1>1, AlwaysRaceInv, PTL
=============================================================================
