------------------------------ MODULE DataFacts ------------------------------
(***************************************************************************)
(* Facts about data that the proofs share: what Cons and RemoveAt of       *)
(* SequencesExt return, element by element; induction on numbers and on    *)
(* finite sets, as the existence of a least counterexample; functions that *)
(* are defined step by step; what FlattenSeq joins; and what MapThenSumSet *)
(* of FiniteSetsExt adds up, in whatever order.                            *)
(***************************************************************************)
EXTENDS Integers, Sequences, SequencesExt, SequenceTheorems, FiniteSetTheorems, TLAPS

\* Putting an element in front of a sequence.
LEMMA ConsProps ==
  ASSUME NEW S, NEW s \in Seq(S), NEW e \in S
  PROVE  /\ Cons(e, s) \in Seq(S)
         /\ Len(Cons(e, s)) = Len(s) + 1
         /\ Cons(e, s)[1] = e
         /\ \A j \in 1 .. Len(s) : Cons(e, s)[j + 1] = s[j]
BY DEF Cons

\* The same, indexed by the positions of the longer sequence.
LEMMA ConsShift ==
  ASSUME NEW S, NEW s \in Seq(S), NEW e \in S
  PROVE  \A j \in 2 .. (Len(s) + 1) : Cons(e, s)[j] = s[j - 1]
<1>1. ASSUME NEW j \in 2 .. (Len(s) + 1) PROVE Cons(e, s)[j] = s[j - 1]
  <2>1. j - 1 \in 1 .. Len(s) /\ (j - 1) + 1 = j
    BY <1>1
  <2> QED BY <2>1, ConsProps
<1> QED BY <1>1

\* Taking the i-th element out of a sequence.
LEMMA RemoveAtProps ==
  ASSUME NEW S, NEW s \in Seq(S), NEW i \in 1 .. Len(s)
  PROVE  /\ RemoveAt(s, i) \in Seq(S)
         /\ Len(RemoveAt(s, i)) = Len(s) - 1
         /\ \A j \in 1 .. (Len(s) - 1) :
              RemoveAt(s, i)[j] = IF j < i THEN s[j] ELSE s[j + 1]
<1> DEFINE a == SubSeq(s, 1, i - 1)
           b == SubSeq(s, i + 1, Len(s))
<1>0. Len(s) \in Nat /\ i \in Nat
  OBVIOUS
<1>1. a \in Seq(S) /\ Len(a) = i - 1 /\ \A j \in 1 .. (i - 1) : a[j] = s[j]
  BY <1>0
<1>2. b \in Seq(S) /\ Len(b) = Len(s) - i
  BY <1>0
<1>3. \A j \in 1 .. (Len(s) - i) : b[j] = s[i + j]
  BY <1>0
<1> HIDE DEF a, b
<1>4. /\ a \o b \in Seq(S) /\ Len(a \o b) = Len(s) - 1
      /\ \A j \in 1 .. (Len(s) - 1) : (a \o b)[j] = IF j < i THEN a[j] ELSE b[j - (i - 1)]
  <2>1. a \in Seq(S) /\ b \in Seq(S)
    BY <1>1, <1>2
  <2>2. a \o b \in Seq(S) /\ Len(a \o b) = Len(a) + Len(b)
    BY <2>1
  <2>3. \A j \in 1 .. (Len(a) + Len(b)) :
          (a \o b)[j] = IF j <= Len(a) THEN a[j] ELSE b[j - Len(a)]
    BY <2>1
  <2>4. Len(a) + Len(b) = Len(s) - 1
    BY <1>0, <1>1, <1>2
  <2>5. Len(a) = i - 1
    BY <1>1
  <2>6. \A j \in 1 .. (Len(s) - 1) : j < i <=> j <= i - 1
    BY <1>0
  <2> QED BY <2>2, <2>3, <2>4, <2>5, <2>6
<1>5. \A j \in 1 .. (Len(s) - 1) : j >= i => b[j - (i - 1)] = s[j + 1]
  <2> TAKE j \in 1 .. (Len(s) - 1)
  <2>1. j >= i => j - (i - 1) \in 1 .. (Len(s) - i) /\ i + (j - (i - 1)) = j + 1
    BY <1>0
  <2> QED BY <2>1, <1>3
<1>6. RemoveAt(s, i) = a \o b
  BY DEF RemoveAt, a, b
<1> QED BY <1>0, <1>1, <1>4, <1>5, <1>6

\* Moving the i-th element of a sequence to its front.
LEMMA ToFrontProps ==
  ASSUME NEW S, NEW s \in Seq(S), NEW i \in 1 .. Len(s), NEW e \in S, e = s[i]
  PROVE  /\ Cons(e, RemoveAt(s, i)) \in Seq(S)
         /\ Len(Cons(e, RemoveAt(s, i))) = Len(s)
         /\ Cons(e, RemoveAt(s, i))[1] = e
         /\ \A j \in 2 .. Len(s) :
              Cons(e, RemoveAt(s, i))[j] = IF j <= i THEN s[j - 1] ELSE s[j]
<1> DEFINE q == RemoveAt(s, i)
<1> DEFINE r == Cons(e, q)
<1>0. Len(s) \in Nat /\ i \in Nat
  OBVIOUS
<1>1. q \in Seq(S)
  BY RemoveAtProps
<1>2. Len(q) = Len(s) - 1
  BY RemoveAtProps
<1>3. \A j \in 1 .. (Len(s) - 1) : q[j] = IF j < i THEN s[j] ELSE s[j + 1]
  BY RemoveAtProps
<1> HIDE DEF q
<1>4. r \in Seq(S) /\ Len(r) = Len(q) + 1 /\ r[1] = e
  BY <1>1, ConsProps, ZenonT(60)
<1>5. \A j \in 2 .. (Len(q) + 1) : r[j] = q[j - 1]
  BY <1>1, ConsShift
<1> HIDE DEF r
<1>6. ASSUME NEW j \in 2 .. Len(s) PROVE r[j] = IF j <= i THEN s[j - 1] ELSE s[j]
  <2>1. j - 1 \in 1 .. (Len(s) - 1) /\ j \in 2 .. (Len(q) + 1) /\ (j - 1) + 1 = j
    BY <1>0, <1>2, <1>6
  <2>2. r[j] = IF j - 1 < i THEN s[j - 1] ELSE s[(j - 1) + 1]
    BY <2>1, <1>3, <1>5
  <2> QED BY <2>1, <2>2, <1>0
<1>7. Len(r) = Len(s)
  BY <1>0, <1>2, <1>4
<1> QED BY <1>4, <1>6, <1>7 DEF r, q

\* The elements of a sequence without repetitions, after the i-th is taken out.
LEMMA RemoveAtRange ==
  ASSUME NEW S, NEW s \in Seq(S), NEW i \in 1 .. Len(s),
         \A a, b \in DOMAIN s : s[a] = s[b] => a = b
  PROVE  Range(RemoveAt(s, i)) = Range(s) \ {s[i]}
<1> DEFINE q == RemoveAt(s, i)
<1>0. Len(s) \in Nat /\ i \in Nat /\ DOMAIN s = 1 .. Len(s)
  OBVIOUS
<1>1. /\ q \in Seq(S) /\ Len(q) = Len(s) - 1
      /\ \A j \in 1 .. (Len(s) - 1) : q[j] = IF j < i THEN s[j] ELSE s[j + 1]
  BY RemoveAtProps
<1> HIDE DEF q
<1>2. DOMAIN q = 1 .. (Len(s) - 1)
  BY <1>1
<1>3. ASSUME NEW x \in Range(q) PROVE x \in Range(s) \ {s[i]}
  <2>1. PICK j \in 1 .. (Len(s) - 1) : x = q[j]
    BY <1>2, <1>3 DEF Range
  <2>2. PICK m \in 1 .. Len(s) : x = s[m] /\ m # i
    <3>1. CASE j < i
      BY <3>1, <2>1, <1>1, <1>0
    <3>2. CASE j >= i
      <4>1. x = s[j + 1] /\ j + 1 \in 1 .. Len(s) /\ j + 1 # i
        BY <3>2, <2>1, <1>1, <1>0
      <4> QED BY <4>1
    <3> QED BY <3>1, <3>2, <1>0
  <2> QED BY <2>2, <1>0 DEF Range
<1>4. ASSUME NEW x \in Range(s) \ {s[i]} PROVE x \in Range(q)
  <2>1. PICK m \in 1 .. Len(s) : x = s[m] /\ m # i
    BY <1>4, <1>0 DEF Range
  <2>2. CASE m < i
    <3>1. m \in 1 .. (Len(s) - 1) /\ q[m] = s[m]
      BY <2>2, <1>0, <1>1
    <3> QED BY <3>1, <2>1, <1>2 DEF Range
  <2>3. CASE m > i
    <3>1. m - 1 \in 1 .. (Len(s) - 1) /\ q[m - 1] = s[m]
      <4>1. m - 1 \in 1 .. (Len(s) - 1) /\ ~ (m - 1 < i) /\ (m - 1) + 1 = m
        BY <2>3, <1>0
      <4>2. q[m - 1] = s[(m - 1) + 1]
        BY <4>1, <1>1
      <4> QED BY <4>1, <4>2
    <3> QED BY <3>1, <2>1, <1>2 DEF Range
  <2> QED BY <2>1, <2>2, <2>3, <1>0
<1> QED BY <1>3, <1>4 DEF q

\* The elements of a sequence with one put in front.
LEMMA ConsRange ==
  ASSUME NEW S, NEW s \in Seq(S), NEW e \in S
  PROVE  Range(Cons(e, s)) = {e} \cup Range(s)
<1> DEFINE q == Cons(e, s)
<1>1. /\ q \in Seq(S) /\ Len(q) = Len(s) + 1 /\ q[1] = e
      /\ \A j \in 1 .. Len(s) : q[j + 1] = s[j]
  BY ConsProps
<1>1a. \A j \in 2 .. (Len(s) + 1) : q[j] = s[j - 1]
  BY ConsShift
<1> HIDE DEF q
<1>2. Len(s) \in Nat /\ DOMAIN s = 1 .. Len(s) /\ DOMAIN q = 1 .. (Len(s) + 1)
  BY <1>1
<1>3. ASSUME NEW x \in Range(q) PROVE x \in {e} \cup Range(s)
  <2>1. PICK j \in 1 .. (Len(s) + 1) : x = q[j]
    BY <1>3, <1>2 DEF Range
  <2>2. CASE j = 1
    BY <2>1, <2>2, <1>1
  <2>3. CASE j # 1
    <3>1. j \in 2 .. (Len(s) + 1) /\ j - 1 \in DOMAIN s
      BY <2>3, <1>2
    <3> QED BY <3>1, <2>1, <1>1a DEF Range
  <2> QED BY <2>2, <2>3
<1>4. e \in Range(q)
  BY <1>1, <1>2 DEF Range
<1>5. ASSUME NEW x \in Range(s) PROVE x \in Range(q)
  <2>1. PICK j \in 1 .. Len(s) : x = s[j]
    BY <1>5, <1>2 DEF Range
  <2>2. j + 1 \in DOMAIN q /\ q[j + 1] = x
    BY <2>1, <1>1, <1>2
  <2> QED BY <2>2 DEF Range
<1> QED BY <1>3, <1>4, <1>5 DEF q

\* Moving the first element to the front changes nothing.
LEMMA ToFrontFirst ==
  ASSUME NEW S, NEW s \in Seq(S), Len(s) > 0, NEW e \in S, e = s[1]
  PROVE  Cons(e, RemoveAt(s, 1)) = s
<1> DEFINE r == Cons(e, RemoveAt(s, 1))
<1>0. Len(s) \in Nat /\ 1 \in 1 .. Len(s)
  OBVIOUS
<1>1. r \in Seq(S)
  BY <1>0, ToFrontProps
<1>2. Len(r) = Len(s)
  BY <1>0, ToFrontProps
<1>3. r[1] = e
  BY <1>0, ToFrontProps
<1>4. \A j \in 2 .. Len(s) : r[j] = IF j <= 1 THEN s[j - 1] ELSE s[j]
  BY <1>0, ToFrontProps
<1> HIDE DEF r
<1>5. ASSUME NEW j \in 1 .. Len(s) PROVE r[j] = s[j]
  <2>1. CASE j = 1
    BY <2>1, <1>3
  <2>2. CASE j # 1
    <3>1. j \in 2 .. Len(s) /\ ~ (j <= 1)
      BY <2>2, <1>0
    <3> QED BY <3>1, <1>4
  <2> QED BY <2>1, <2>2
<1>6. r = s
  BY <1>1, <1>2, <1>5, SeqEqual
<1> QED BY <1>6 DEF r
\* A sequence stays free of duplicates when a new element is put in front.
LEMMA ConsInjective ==
  ASSUME NEW S, NEW s \in Seq(S), NEW e \in S, e \notin Range(s),
         \A a, b \in DOMAIN s : s[a] = s[b] => a = b
  PROVE  \A a, b \in DOMAIN Cons(e, s) : Cons(e, s)[a] = Cons(e, s)[b] => a = b
<1> DEFINE q == Cons(e, s)
<1>0. Len(s) \in Nat
  OBVIOUS
<1>dom. DOMAIN s = 1 .. Len(s)
  OBVIOUS
<1>1. q \in Seq(S) /\ Len(q) = Len(s) + 1 /\ q[1] = e
  BY ConsProps
<1>2. \A j \in 2 .. (Len(s) + 1) : q[j] = s[j - 1]
  BY ConsShift
<1>3. \A j \in 1 .. Len(s) : s[j] # e
  BY <1>dom DEF Range
<1>4. \A a, b \in 1 .. Len(s) : s[a] = s[b] => a = b
  BY <1>dom
<1> HIDE DEF q
<1>5. DOMAIN q = 1 .. (Len(s) + 1)
  BY <1>1
<1>6. ASSUME NEW a \in 1 .. (Len(s) + 1), NEW b \in 1 .. (Len(s) + 1), q[a] = q[b]
      PROVE  a = b
  <2>1. a # 1 => a \in 2 .. (Len(s) + 1) /\ a - 1 \in 1 .. Len(s)
    BY <1>0
  <2>2. b # 1 => b \in 2 .. (Len(s) + 1) /\ b - 1 \in 1 .. Len(s)
    BY <1>0
  <2>3. CASE a = 1 \/ b = 1
    BY <2>1, <2>2, <2>3, <1>1, <1>2, <1>3, <1>6
  <2>4. CASE a # 1 /\ b # 1
    <3>1. s[a - 1] = s[b - 1]
      BY <2>1, <2>2, <2>4, <1>2, <1>6
    <3>2. a - 1 = b - 1
      BY <3>1, <2>1, <2>2, <2>4, <1>4
    <3> QED BY <3>2, <1>0
  <2> QED BY <2>3, <2>4
<1> QED BY <1>5, <1>6 DEF q

\* It stays so when an element is taken out.
LEMMA RemoveAtInjective ==
  ASSUME NEW S, NEW s \in Seq(S), NEW i \in 1 .. Len(s),
         \A a, b \in DOMAIN s : s[a] = s[b] => a = b
  PROVE  \A a, b \in DOMAIN RemoveAt(s, i) :
           RemoveAt(s, i)[a] = RemoveAt(s, i)[b] => a = b
<1> DEFINE q == RemoveAt(s, i)
           at(j) == IF j < i THEN j ELSE j + 1
<1>0. Len(s) \in Nat /\ i \in Nat
  OBVIOUS
<1>1. q \in Seq(S) /\ Len(q) = Len(s) - 1
  BY RemoveAtProps
<1>2. \A j \in 1 .. (Len(s) - 1) : q[j] = IF j < i THEN s[j] ELSE s[j + 1]
  BY RemoveAtProps
<1>3. \A a, b \in 1 .. Len(s) : s[a] = s[b] => a = b
  OBVIOUS
<1> HIDE DEF q
<1>4. DOMAIN q = 1 .. (Len(s) - 1)
  BY <1>1
<1>5. ASSUME NEW j \in 1 .. (Len(s) - 1) PROVE at(j) \in 1 .. Len(s) /\ q[j] = s[at(j)]
  BY <1>0, <1>2, <1>5
<1>6. ASSUME NEW a \in 1 .. (Len(s) - 1), NEW b \in 1 .. (Len(s) - 1), q[a] = q[b]
      PROVE  a = b
  <2>1. at(a) = at(b)
    <3> HIDE DEF at
    <3> QED BY <1>3, <1>5, <1>6
  <2> QED BY <2>1, <1>0
<1> QED BY <1>4, <1>6 DEF q

-----------------------------------------------------------------------------
(* Induction, with the property given as a set.                            *)

\* A non-empty set of natural numbers has a least element.
LEMMA LeastElement ==
  ASSUME NEW T, T \subseteq Nat, T # {}
  PROVE  \E m \in T : \A n \in T : m <= n
<1> DEFINE R == StrictSubsetOrdering(Nat)
           F == {0 .. n : n \in T}
<1>1. F \subseteq FiniteSubsetsOf(Nat) /\ F # {}
  <2>1. ASSUME NEW n \in T PROVE 0 .. n \in FiniteSubsetsOf(Nat)
    <3>1. n \in Int /\ 0 \in Int
      OBVIOUS
    <3>2. IsFiniteSet(0 .. n)
      BY <3>1, FS_Interval
    <3>3. 0 .. n \subseteq Nat
      BY <3>1
    <3> QED BY <3>2, <3>3 DEF FiniteSubsetsOf
  <2> QED BY <2>1
<1>2. IsWellFoundedOn(R, FiniteSubsetsOf(Nat))
  BY FS_StrictSubsetOrderingWellFounded
<1> HIDE DEF R
<1>3. PICK x \in F : \A y \in F : <<y, x>> \notin R
  <2> HIDE DEF F
  <2> QED BY <1>1, <1>2, WFMin
<1>4. PICK m \in T : x = 0 .. m
  OBVIOUS
<1>5. ASSUME NEW n \in T, n < m PROVE FALSE
  <2>1. 0 .. n \subseteq 0 .. m /\ m \in 0 .. m /\ m \notin 0 .. n
    BY <1>5
  <2>2. 0 .. n \subseteq Nat /\ 0 .. m \subseteq Nat
    OBVIOUS
  <2>3. <<0 .. n, 0 .. m>> \in R
    BY <2>1, <2>2 DEF R, StrictSubsetOrdering
  <2> QED BY <2>3, <1>3, <1>4
<1> QED BY <1>5

\* Induction on the natural numbers up to n, for a property given as a set.
LEMMA Induction ==
  ASSUME NEW n \in Nat, NEW S, 0 \in S, \A i \in 0 .. (n - 1) : i \in S => i + 1 \in S
  PROVE  \A i \in 0 .. n : i \in S
<1> DEFINE T == {i \in 0 .. n : i \notin S}
<1>1. SUFFICES ASSUME T # {} PROVE FALSE
  OBVIOUS
<1>2. PICK m \in T : \A i \in T : m <= i
  <2>1. T \subseteq Nat
    OBVIOUS
  <2> HIDE DEF T
  <2> QED BY <1>1, <2>1, LeastElement
<1>3. m # 0 /\ m - 1 \in 0 .. (n - 1) /\ m - 1 \in 0 .. n
  OBVIOUS
<1>4. m - 1 \notin T
  BY <1>2, <1>3
<1>5. m - 1 \in S
  BY <1>3, <1>4
<1>6. (m - 1) + 1 = m
  BY <1>3
<1> QED BY <1>3, <1>5, <1>6

\* f starts at a, and step[i] leads from its value at i - 1 to the one at i.
Iterates(f, n, a, step) == f[0] = a /\ \A i \in 1 .. n : f[i] = step[i][f[i - 1]]

\* A function may be defined in this way.
LEMMA Iteration ==
  ASSUME NEW n \in Nat, NEW A, NEW a \in A, NEW step \in [1 .. n -> [A -> A]]
  PROVE  \E f \in [0 .. n -> A] : Iterates(f, n, a, step)
<1> DEFINE Is(f, m) == f[0] = a /\ \A i \in 1 .. m : f[i] = step[i][f[i - 1]]
           S == {m \in 0 .. n : \E f \in [0 .. m -> A] : Is(f, m)}
<1>1. 0 \in S
  <2>1. [i \in 0 .. 0 |-> a] \in [0 .. 0 -> A] /\ Is([i \in 0 .. 0 |-> a], 0)
    OBVIOUS
  <2>2. 0 \in 0 .. n
    OBVIOUS
  <2> HIDE DEF Is
  <2> QED BY <2>1, <2>2
<1>2. ASSUME NEW m \in 0 .. (n - 1), m \in S PROVE m + 1 \in S
  <2>1. PICK f \in [0 .. m -> A] : Is(f, m)
    BY <1>2
  <2> DEFINE g == [i \in 0 .. (m + 1) |-> IF i <= m THEN f[i] ELSE step[i][f[i - 1]]]
  <2>2. m + 1 \in 1 .. n /\ m \in 0 .. m /\ (m + 1) - 1 = m /\ m + 1 \in 0 .. n
    OBVIOUS
  <2>3. step[m + 1][f[m]] \in A
    BY <2>2
  <2>4. ASSUME NEW i \in 0 .. (m + 1)
        PROVE  g[i] \in A /\ (i <= m => g[i] = f[i]) /\ g[m + 1] = step[m + 1][f[m]]
    <3>1. i \in 0 .. m \/ i = m + 1
      OBVIOUS
    <3>2. m + 1 \in 0 .. (m + 1) /\ ~ (m + 1 <= m)
      OBVIOUS
    <3> QED BY <3>1, <3>2, <2>2, <2>3
  <2>5. g \in [0 .. (m + 1) -> A]
    BY <2>4
  <2>6. g[0] = a
    BY <2>1, <2>4
  <2>7. ASSUME NEW i \in 1 .. (m + 1) PROVE g[i] = step[i][g[i - 1]]
    <3>1. i \in 0 .. (m + 1) /\ i - 1 \in 0 .. (m + 1) /\ i - 1 <= m /\ (i = m + 1 \/ i \in 1 .. m)
      OBVIOUS
    <3> HIDE DEF g
    <3>2. g[i - 1] = f[i - 1]
      BY <3>1, <2>4
    <3>3. CASE i = m + 1
      BY <3>1, <3>2, <3>3, <2>2, <2>4
    <3>4. CASE i \in 1 .. m
      <4>1. g[i] = f[i]
        BY <3>1, <3>4, <2>4
      <4> QED BY <4>1, <3>2, <3>4, <2>1
    <3> QED BY <3>1, <3>3, <3>4
  <2> HIDE DEF g
  <2> QED BY <2>2, <2>5, <2>6, <2>7
<1>3. \A i \in 0 .. n : i \in S
  <2> HIDE DEF S
  <2> QED BY <1>1, <1>2, Induction
<1>4. n \in 0 .. n
  OBVIOUS
<1> QED BY <1>3, <1>4 DEF Iterates

-----------------------------------------------------------------------------
(* Sequences of sequences, joined.                                         *)

\* g[i] joins the first i of the sequences in ss.
Joins(g, ss) == g[0] = << >> /\ \A i \in 1 .. Len(ss) : g[i] = g[i - 1] \o ss[i]

\* f joins them as FlattenSeq does, which starts with the first one.
Flattens(f, ss) ==
  f = [i \in 1 .. Len(ss) |-> IF i = 1 THEN ss[i] ELSE f[i - 1] \o ss[i]]

\* The function FlattenSeq builds.
FlattensOf(ss) == CHOOSE f : Flattens(f, ss)

\* FlattenSeq returns the last of them.
LEMMA FlattenSeqIs ==
  ASSUME NEW ss
  PROVE  FlattenSeq(ss) = IF Len(ss) = 0 THEN ss ELSE FlattensOf(ss)[Len(ss)]
BY DEF FlattenSeq, FlattensOf, Flattens

\* FlattenSeq joins all of them.
LEMMA FlattenJoins ==
  ASSUME NEW S, NEW ss \in Seq(Seq(S)), NEW g, Joins(g, ss)
  PROVE  FlattenSeq(ss) = g[Len(ss)]
<1> DEFINE n == Len(ss)
           f == FlattensOf(ss)
           h == [i \in 1 .. n |-> g[i]]
           T == {i \in 0 .. n : i = 0 \/ f[i] = g[i]}
<1>0. n \in Nat /\ g[0] = << >> /\ \A i \in 1 .. n : g[i] = g[i - 1] \o ss[i]
  <2>1. n \in Nat
    OBVIOUS
  <2>2. g[0] = << >> /\ \A i \in 1 .. n : g[i] = g[i - 1] \o ss[i]
    BY Zenon DEF Joins
  <2> QED BY <2>1, <2>2
<1>1. CASE n = 0
  <2>1. ss = << >>
    BY <1>1
  <2> QED BY <2>1, <1>0, <1>1, FlattenSeqIs
<1>2. CASE n # 0
  <2>1. 1 \in 1 .. n /\ g[1] = ss[1]
    <3>1. 1 \in 1 .. n /\ 1 - 1 = 0
      BY <1>0, <1>2
    <3>2. ss[1] \in Seq(S)
      BY <3>1
    <3>3. g[1] = << >> \o ss[1]
      BY <3>1, <1>0
    <3> QED BY <3>1, <3>2, <3>3, ConcatEmptySeq
  <2>2. Flattens(h, ss)
    <3>1. ASSUME NEW i \in 1 .. n
          PROVE  h[i] = IF i = 1 THEN ss[i] ELSE h[i - 1] \o ss[i]
      <4>1. i # 1 => i - 1 \in 1 .. n
        BY <1>0
      <4>2. h[i] = g[i] /\ (i # 1 => h[i - 1] = g[i - 1]) /\ g[i] = g[i - 1] \o ss[i]
        BY <4>1, <1>0
      <4> HIDE DEF h
      <4> QED BY <4>2, <2>1
    <3>2. h = [i \in 1 .. n |-> h[i]]
      OBVIOUS
    <3> HIDE DEF h
    <3> QED BY <3>1, <3>2 DEF Flattens
  <2> HIDE DEF h
  <2>3. Flattens(f, ss)
    BY <2>2 DEF FlattensOf
  <2> HIDE DEF f
  <2>4. \A i \in 1 .. n : f[i] = IF i = 1 THEN ss[i] ELSE f[i - 1] \o ss[i]
    BY <2>3 DEF Flattens
  <2> HIDE DEF n
  <2>5. 0 \in T
    BY <1>0
  <2>6. ASSUME NEW i \in 0 .. (n - 1), i \in T PROVE i + 1 \in T
    <3>1. i + 1 \in 1 .. n /\ i + 1 \in 0 .. n /\ (i + 1) - 1 = i
      BY <1>0
    <3>2. f[i + 1] = IF i + 1 = 1 THEN ss[i + 1] ELSE f[i] \o ss[i + 1]
      BY <3>1, <2>4
    <3>3. g[i + 1] = g[i] \o ss[i + 1]
      BY <3>1, <1>0
    <3>4. i = 0 => f[i + 1] = g[i + 1]
      BY <3>2, <2>1
    <3>5. i # 0 => f[i + 1] = g[i + 1]
      <4>1. i # 0 => f[i] = g[i] /\ i + 1 # 1
        BY <2>6
      <4> HIDE DEF T
      <4> QED BY <4>1, <3>2, <3>3
    <3> QED BY <3>1, <3>4, <3>5
  <2>7. \A i \in 0 .. n : i \in T
    <3> HIDE DEF T
    <3> QED BY <1>0, <2>5, <2>6, Induction
  <2>8. n \in 0 .. n
    BY <1>0
  <2>9. f[n] = g[n]
    BY <2>7, <2>8, <1>2
  <2> QED BY <2>9, <1>2, FlattenSeqIs DEF f, n
<1> QED BY <1>1, <1>2

\* The joins of the first parts of a sequence of sequences.
LEMMA JoinsExist ==
  ASSUME NEW S, NEW ss \in Seq(Seq(S))
  PROVE  \E g \in [0 .. Len(ss) -> Seq(S)] :
           Joins(g, ss) /\ \A i \in 0 .. Len(ss) : FlattenSeq(SubSeq(ss, 1, i)) = g[i]
<1> DEFINE n == Len(ss)
           A == Seq(S)
           step == [i \in 1 .. n |-> [v \in A |-> v \o ss[i]]]
<1>0. n \in Nat /\ << >> \in A
  OBVIOUS
<1>1. step \in [1 .. n -> [A -> A]]
  <2>1. ASSUME NEW i \in 1 .. n, NEW v \in A PROVE v \o ss[i] \in A
    <3>1. ss[i] \in Seq(S)
      OBVIOUS
    <3> QED BY <3>1, ConcatProperties
  <2> QED BY <2>1
<1>2. PICK g \in [0 .. n -> A] : Iterates(g, n, << >>, step)
  <2> HIDE DEF n, A, step
  <2> QED BY <1>0, <1>1, Iteration
<1>3. g[0] = << >> /\ \A i \in 1 .. n : g[i] = g[i - 1] \o ss[i]
  <2>1. ASSUME NEW i \in 1 .. n PROVE g[i] = g[i - 1] \o ss[i]
    <3>1. i - 1 \in 0 .. n
      BY <1>0
    <3>2. g[i - 1] \in A
      BY <3>1, <1>2
    <3>3. step[i][g[i - 1]] = g[i - 1] \o ss[i]
      BY <3>2
    <3> HIDE DEF step
    <3> QED BY <3>3, <1>2 DEF Iterates
  <2> QED BY <2>1, <1>2 DEF Iterates
<1>4. ASSUME NEW i \in 0 .. n PROVE FlattenSeq(SubSeq(ss, 1, i)) = g[i]
  <2> DEFINE t == SubSeq(ss, 1, i)
  <2>1. \A j \in 1 .. i : j \in 1 .. n /\ ss[j] \in Seq(S)
    BY <1>0
  <2>2. t \in Seq(Seq(S)) /\ Len(t) = i /\ \A j \in 1 .. i : t[j] = ss[j]
    <3>1. /\ t \in Seq(Seq(S)) /\ Len(t) = IF 1 <= i THEN i - 1 + 1 ELSE 0
          /\ \A j \in 1 .. (i - 1 + 1) : t[j] = ss[1 + j - 1]
      BY <2>1, <1>0, SubSeqProperties
    <3> HIDE DEF t
    <3> QED BY <3>1, <1>0
  <2> HIDE DEF t
  <2>3. Joins(g, t)
    BY <1>3, <2>1, <2>2 DEF Joins
  <2> QED BY <2>2, <2>3, FlattenJoins DEF t
<1> QED BY <1>2, <1>3, <1>4 DEF Joins

-----------------------------------------------------------------------------
(* Sums over finite sets.                                                  *)

\* The sum of f[x] for the elements x of S.
Total(f, S) == MapThenSumSet(LAMBDA x : f[x], S)

\* A non-empty set of subsets of a finite set has a smallest one.
LEMMA LeastSubset ==
  ASSUME NEW S, IsFiniteSet(S), NEW B, B \subseteq SUBSET S, B # {}
  PROVE  \E T \in B : IsFiniteSet(T) /\ \A U \in B : U \subseteq T => U = T
<1> DEFINE R == StrictSubsetOrdering(S)
<1>1. IsWellFoundedOn(R, FiniteSubsetsOf(S)) /\ FiniteSubsetsOf(S) = SUBSET S
  BY FS_StrictSubsetOrderingWellFounded, FS_FiniteSubsetsOfFinite
<1> HIDE DEF R
<1>2. PICK T \in B : \A U \in B : <<U, T>> \notin R
  BY <1>1, WFMin
<1>3. ASSUME NEW U \in B, U \subseteq T, U # T PROVE FALSE
  <2>1. <<U, T>> \in R
    BY <1>3 DEF R, StrictSubsetOrdering
  <2> QED BY <2>1, <1>2
<1>4. IsFiniteSet(T)
  BY FS_Subset
<1> QED BY <1>3, <1>4

\* The element a fold takes first.
Some(s) == CHOOSE x \in s : TRUE

\* It is one.
LEMMA SomeIn ==
  ASSUME NEW S, S # {}
  PROVE  Some(S) \in S
BY DEF Some

\* g gives the totals of the subsets of S, as the fold computes them.
Totals(g, f, S) ==
  g = [s \in SUBSET S |-> IF s = {} THEN 0 ELSE f[Some(s)] + g[s \ {Some(s)}]]

\* The function the fold defines, if there is one.
TotalsOf(f, S) == CHOOSE g : Totals(g, f, S)

\* The sum is its value at S.
LEMMA TotalIs ==
  ASSUME NEW f, NEW S
  PROVE Total(f, S) = TotalsOf(f, S)[S]
BY DEF Total, MapThenSumSet, MapThenFoldSet, Totals, TotalsOf, Some

\* The totals of a set and of a subset of it agree: there are no other ones.
LEMMA TotalsAgree ==
  ASSUME NEW f, NEW S, IsFiniteSet(S), NEW T \in SUBSET S, NEW g, NEW h,
         Totals(g, f, S), Totals(h, f, T)
  PROVE  \A s \in SUBSET T : g[s] = h[s]
<1> DEFINE B == {s \in SUBSET T : g[s] # h[s]}
<1>1. SUFFICES ASSUME B # {} PROVE FALSE
  OBVIOUS
<1>2. PICK s \in B : \A u \in B : u \subseteq s => u = s
  <2>1. B \subseteq SUBSET S
    OBVIOUS
  <2> HIDE DEF B
  <2> QED BY <1>1, <2>1, LeastSubset
<1>3. /\ g[s] = IF s = {} THEN 0 ELSE f[Some(s)] + g[s \ {Some(s)}]
      /\ h[s] = IF s = {} THEN 0 ELSE f[Some(s)] + h[s \ {Some(s)}]
  <2>1. s \in SUBSET S /\ s \in SUBSET T
    OBVIOUS
  <2> QED BY <2>1 DEF Totals
<1>4. s # {}
  BY <1>3
<1>5. s \ {Some(s)} # s /\ s \ {Some(s)} \subseteq s
  BY <1>4, SomeIn
<1>6. g[s \ {Some(s)}] = h[s \ {Some(s)}]
  BY <1>2, <1>5
<1> QED BY <1>3, <1>4, <1>6

\* There are totals of every finite set: those of a least set without them could
\* be put together from the totals of its subsets.
LEMMA TotalsExist ==
  ASSUME NEW f, NEW S, IsFiniteSet(S)
  PROVE  Totals(TotalsOf(f, S), f, S)
<1> DEFINE B == {T \in SUBSET S : ~ \E g : Totals(g, f, T)}
<1>1. SUFFICES ASSUME B # {} PROVE FALSE
  <2>1. \E g : Totals(g, f, S)
    BY <1>1
  <2> QED BY <2>1 DEF TotalsOf
<1>2. PICK T \in B : IsFiniteSet(T) /\ \A U \in B : U \subseteq T => U = T
  <2>1. B \subseteq SUBSET S
    OBVIOUS
  <2> HIDE DEF B
  <2> QED BY <1>1, <2>1, LeastSubset
<1>3. ASSUME NEW U \in SUBSET T, U # T PROVE Totals(TotalsOf(f, U), f, U)
  <2>1. U \notin B /\ U \in SUBSET S
    BY <1>2, <1>3
  <2>2. \E g : Totals(g, f, U)
    BY <2>1
  <2> QED BY <2>2 DEF TotalsOf
<1> DEFINE rest(s) == s \ {Some(s)}
           g == [s \in SUBSET T |->
                  IF s # T THEN TotalsOf(f, s)[s]
                  ELSE IF T = {} THEN 0 ELSE f[Some(T)] + TotalsOf(f, rest(T))[rest(T)]]
<1>4. ASSUME NEW s \in SUBSET T
      PROVE  g[s] = IF s = {} THEN 0 ELSE f[Some(s)] + g[rest(s)]
  <2>1. CASE s = {} /\ s = T
    BY <2>1
  <2>2. CASE s = {} /\ s # T
    <3>1. Totals(TotalsOf(f, s), f, s)
      BY <1>3, <2>2
    <3> HIDE DEF rest
    <3>2. TotalsOf(f, s)[s] = 0
      BY <3>1, <2>2 DEF Totals
    <3> QED BY <3>2, <2>2
  <2>3. ASSUME s # {} PROVE rest(s) \in SUBSET s /\ rest(s) # s /\ rest(s) # T
    BY <2>3, SomeIn
  <2>4. CASE s # {} /\ s = T
    <3>1. g[rest(s)] = TotalsOf(f, rest(s))[rest(s)]
      BY <2>3, <2>4
    <3> QED BY <3>1, <2>4
  <2>5. CASE s # {} /\ s # T
    <3>1. Totals(TotalsOf(f, s), f, s) /\ Totals(TotalsOf(f, rest(s)), f, rest(s))
      BY <1>3, <2>3, <2>5
    <3>2. IsFiniteSet(s)
      BY <1>2, FS_Subset
    <3>3. TotalsOf(f, s)[rest(s)] = TotalsOf(f, rest(s))[rest(s)]
      BY <3>1, <3>2, <2>3, <2>5, TotalsAgree, SMTT(60)
    <3>4. TotalsOf(f, s)[s] = f[Some(s)] + TotalsOf(f, s)[rest(s)]
      BY <3>1, <2>5 DEF Totals
    <3>5. g[rest(s)] = TotalsOf(f, rest(s))[rest(s)]
      BY <2>3, <2>5
    <3> QED BY <3>3, <3>4, <3>5, <2>5
  <2> QED BY <2>1, <2>2, <2>4, <2>5
<1>5. Totals(g, f, T)
  BY <1>4 DEF Totals
<1>6. \E h : Totals(h, f, T)
  BY <1>5
<1> QED BY <1>6

\* How the fold adds up.
LEMMA TotalStep ==
  ASSUME NEW f, NEW S, IsFiniteSet(S)
  PROVE  Total(f, S) = IF S = {} THEN 0 ELSE f[Some(S)] + Total(f, S \ {Some(S)})
<1>1. Totals(TotalsOf(f, S), f, S)
  BY TotalsExist
<1>2. TotalsOf(f, S)[S] = IF S = {} THEN 0 ELSE f[Some(S)] + TotalsOf(f, S)[S \ {Some(S)}]
  BY <1>1 DEF Totals
<1>3. ASSUME S # {} PROVE TotalsOf(f, S)[S \ {Some(S)}] = Total(f, S \ {Some(S)})
  <2> DEFINE U == S \ {Some(S)}
  <2>1. U \in SUBSET S /\ IsFiniteSet(U)
    BY FS_Subset
  <2>2. Totals(TotalsOf(f, U), f, U)
    BY <2>1, TotalsExist
  <2> HIDE DEF U
  <2>3. TotalsOf(f, S)[U] = TotalsOf(f, U)[U]
    BY <1>1, <2>1, <2>2, TotalsAgree
  <2> QED BY <2>3, TotalIs DEF U
<1> QED BY <1>2, <1>3, TotalIs

\* A sum of natural numbers is one.
LEMMA TotalNat ==
  ASSUME NEW S, IsFiniteSet(S), NEW f, \A x \in S : f[x] \in Nat
  PROVE  Total(f, S) \in Nat
<1> DEFINE B == {T \in SUBSET S : Total(f, T) \notin Nat}
<1>1. SUFFICES ASSUME B # {} PROVE FALSE
  OBVIOUS
<1>2. PICK T \in B : IsFiniteSet(T) /\ \A U \in B : U \subseteq T => U = T
  <2>1. B \subseteq SUBSET S
    OBVIOUS
  <2> HIDE DEF B
  <2> QED BY <1>1, <2>1, LeastSubset
<1> DEFINE U == T \ {Some(T)}
<1>3. Total(f, T) = IF T = {} THEN 0 ELSE f[Some(T)] + Total(f, U)
  BY <1>2, TotalStep
<1>4. T # {}
  BY <1>3
<1>5. Some(T) \in S /\ U \subseteq T /\ U # T /\ U \in SUBSET S
  BY <1>4, SomeIn
<1>6. Total(f, U) \in Nat
  BY <1>2, <1>5
<1> HIDE DEF U
<1>7. f[Some(T)] \in Nat
  BY <1>5
<1>8. Total(f, T) \in Nat
  BY <1>3, <1>4, <1>6, <1>7
<1> QED BY <1>8

\* Any element may be added last, not only the one the fold takes.
LEMMA TotalWithout ==
  ASSUME NEW S, IsFiniteSet(S), NEW f, \A x \in S : f[x] \in Nat, NEW e \in S
  PROVE  Total(f, S) = f[e] + Total(f, S \ {e})
<1> DEFINE Bad(T) == \E x \in T : Total(f, T) # f[x] + Total(f, T \ {x})
           B == {T \in SUBSET S : Bad(T)}
<1>1. SUFFICES ASSUME B # {} PROVE FALSE
  OBVIOUS
<1>2. PICK T \in B : IsFiniteSet(T) /\ \A U \in B : U \subseteq T => U = T
  <2>1. B \subseteq SUBSET S
    OBVIOUS
  <2> HIDE DEF B
  <2> QED BY <1>1, <2>1, LeastSubset
<1>3. PICK x \in T : Total(f, T) # f[x] + Total(f, T \ {x})
  OBVIOUS
<1>4. T \subseteq S /\ \A U \in SUBSET T : U # T => ~ Bad(U)
  BY <1>2
<1> HIDE DEF B
<1> DEFINE y == Some(T)
<1>5. y \in T /\ Total(f, T) = f[y] + Total(f, T \ {y})
  BY <1>2, SomeIn, TotalStep
<1> HIDE DEF y
<1>6. x # y
  BY <1>3, <1>5
<1>7. Total(f, T \ {y}) = f[x] + Total(f, (T \ {y}) \ {x})
  BY <1>4, <1>5, <1>6
<1>8. Total(f, T \ {x}) = f[y] + Total(f, (T \ {x}) \ {y})
  BY <1>4, <1>5, <1>6
<1>9. (T \ {y}) \ {x} = (T \ {x}) \ {y}
  OBVIOUS
<1>10. Total(f, (T \ {x}) \ {y}) \in Nat
  <2>1. IsFiniteSet((T \ {x}) \ {y}) /\ \A z \in (T \ {x}) \ {y} : f[z] \in Nat
    BY <1>2, <1>4, FS_Subset
  <2> QED BY <2>1, TotalNat
<1>11. f[x] \in Nat /\ f[y] \in Nat
  BY <1>4, <1>5
<1> QED BY <1>3, <1>5, <1>7, <1>8, <1>9, <1>10, <1>11

\* The sum depends only on the numbers added up.
LEMMA TotalSame ==
  ASSUME NEW S, IsFiniteSet(S), NEW f, NEW g, \A x \in S : f[x] = g[x]
  PROVE  Total(f, S) = Total(g, S)
<1> DEFINE B == {T \in SUBSET S : Total(f, T) # Total(g, T)}
<1>1. SUFFICES ASSUME B # {} PROVE FALSE
  OBVIOUS
<1>2. PICK T \in B : IsFiniteSet(T) /\ \A U \in B : U \subseteq T => U = T
  <2>1. B \subseteq SUBSET S
    OBVIOUS
  <2> HIDE DEF B
  <2> QED BY <1>1, <2>1, LeastSubset
<1> DEFINE U == T \ {Some(T)}
<1>3. /\ Total(f, T) = IF T = {} THEN 0 ELSE f[Some(T)] + Total(f, U)
      /\ Total(g, T) = IF T = {} THEN 0 ELSE g[Some(T)] + Total(g, U)
  BY <1>2, TotalStep
<1>4. T # {}
  BY <1>3
<1>5. Some(T) \in S /\ U \subseteq T /\ U # T /\ U \in SUBSET S
  BY <1>4, SomeIn
<1>6. Total(f, U) = Total(g, U)
  BY <1>2, <1>5
<1> HIDE DEF U
<1> QED BY <1>3, <1>4, <1>5, <1>6

\* The range of a finite sequence is finite.
LEMMA RangeFinite ==
  ASSUME NEW S, NEW s \in Seq(S)
  PROVE  IsFiniteSet(Range(s))
<1>1. s \in Surjection(1 .. Len(s), Range(s))
  BY DEF Surjection, Range
<1>2. IsFiniteSet(1 .. Len(s))
  BY FS_Interval
<1> QED BY <1>1, <1>2, FS_Surjection

\* One of the numbers that are added up changes.
LEMMA TotalChanged ==
  ASSUME NEW S, IsFiniteSet(S), NEW e \in S, NEW f, NEW g,
         \A x \in S : f[x] \in Nat, g[e] \in Nat, \A x \in S \ {e} : g[x] = f[x]
  PROVE  Total(g, S) = Total(f, S) + (g[e] - f[e])
<1>1. \A x \in S : g[x] \in Nat
  OBVIOUS
<1>3. IsFiniteSet(S \ {e})
  BY FS_Subset
<1>4. Total(f, S \ {e}) = Total(g, S \ {e})
  BY <1>3, TotalSame
<1>5. Total(f, S) = f[e] + Total(f, S \ {e}) /\ Total(g, S) = g[e] + Total(g, S \ {e})
  BY <1>1, TotalWithout
<1>6. Total(f, S \ {e}) \in Nat
  BY <1>3, TotalNat
<1> QED BY <1>4, <1>5, <1>6, <1>1

\* A number is added.
LEMMA TotalAdded ==
  ASSUME NEW S, IsFiniteSet(S), NEW e, e \notin S, NEW f, NEW g,
         \A x \in S : f[x] \in Nat, g[e] \in Nat, \A x \in S : g[x] = f[x]
  PROVE  Total(g, S \cup {e}) = Total(f, S) + g[e]
<1>1. \A x \in S \cup {e} : g[x] \in Nat
  OBVIOUS
<1>3. IsFiniteSet(S \cup {e}) /\ (S \cup {e}) \ {e} = S
  BY FS_AddElement
<1>4. Total(f, S) = Total(g, S)
  BY TotalSame
<1>5. Total(g, S \cup {e}) = g[e] + Total(g, S)
  BY <1>1, <1>3, TotalWithout
<1>6. Total(f, S) \in Nat
  BY TotalNat
<1> QED BY <1>4, <1>5, <1>6

\* A number is taken out.
LEMMA TotalRemoved ==
  ASSUME NEW S, IsFiniteSet(S), NEW e \in S, NEW f, NEW g,
         \A x \in S : f[x] \in Nat, \A x \in S \ {e} : g[x] = f[x]
  PROVE  Total(g, S \ {e}) = Total(f, S) - f[e]
<1>3. IsFiniteSet(S \ {e})
  BY FS_Subset
<1>4. Total(f, S \ {e}) = Total(g, S \ {e})
  BY <1>3, TotalSame
<1>5. Total(f, S) = f[e] + Total(f, S \ {e})
  BY TotalWithout
<1>6. Total(f, S \ {e}) \in Nat /\ f[e] \in Nat
  BY <1>3, TotalNat
<1> QED BY <1>4, <1>5, <1>6
=============================================================================
