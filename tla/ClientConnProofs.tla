-------------------------- MODULE ClientConnProofs --------------------------
(***************************************************************************)
(* Proofs about the parser and the connection, for every alphabet, every   *)
(* set of clients and every limit.  First what the parser makes of a part  *)
(* of a stream is compared with what it makes of more of it (CommandStays, *)
(* ErrorStays); then a command, written as clients write it, is shown to   *)
(* be read back whatever follows it (CommandRead); and then the inductive  *)
(* invariant of the connection is shown to be kept: what was dispatched,   *)
(* what is pending and what is on its way make up the stream.              *)
(***************************************************************************)
EXTENDS ClientConn, DataFacts

-----------------------------------------------------------------------------
(* The parser on a stream and on the part of it that has arrived.          *)

\* d is what has arrived of e.
Arrived(d, e) == Len(d) <= Len(e) /\ \A i \in 1 .. Len(d) : e[i] = d[i]

\* The first CRLF.
FirstCrlf(d, pos, f) ==
  f \in pos .. (Len(d) - 2) /\ CrlfAt(d, f) /\ \A i \in pos .. (f - 1) : ~ CrlfAt(d, i)

\* buffer_find_crlf finds it.
LEMMA CrlfFound ==
  ASSUME NEW d \in Seq(Bytes), NEW pos \in Nat
  PROVE  \/ buffer_find_crlf(d, pos) = -1 /\ \A i \in pos .. (Len(d) - 2) : ~ CrlfAt(d, i)
         \/ FirstCrlf(d, pos, buffer_find_crlf(d, pos))
<1> DEFINE found == {i \in pos .. (Len(d) - 2) : CrlfAt(d, i)}
<1>0. Len(d) \in Nat
  OBVIOUS
<1>1. buffer_find_crlf(d, pos) = IF found = {} THEN -1 ELSE Min(found)
  BY DEF buffer_find_crlf
<1>2. CASE found = {}
  BY <1>1, <1>2
<1>3. CASE found # {}
  <2>1. found \subseteq Nat
    BY <1>0
  <2>2. \E m \in found : \A n \in found : m <= n
    <3> HIDE DEF found
    <3> QED BY <1>3, <2>1, LeastElement
  <2>3. Min(found) \in found /\ \A n \in found : Min(found) <= n
    <3> HIDE DEF found
    <3> QED BY <2>2 DEF Min
  <2> DEFINE f == Min(found)
  <2>4. f \in found /\ \A n \in found : f <= n
    BY <2>3
  <2>5. buffer_find_crlf(d, pos) = f
    BY <1>1, <1>3
  <2> HIDE DEF f
  <2>6. f \in pos .. (Len(d) - 2) /\ CrlfAt(d, f)
    BY <2>4
  <2>7. ASSUME NEW i \in pos .. (f - 1) PROVE ~ CrlfAt(d, i)
    <3>1. i \in pos .. (Len(d) - 2) /\ ~ (f <= i)
      BY <1>0, <2>6
    <3> QED BY <3>1, <2>4
  <2> QED BY <2>5, <2>6, <2>7 DEF FirstCrlf
<1> QED BY <1>2, <1>3

\* There is only one.
LEMMA CrlfUnique ==
  ASSUME NEW d \in Seq(Bytes), NEW pos \in Nat, NEW f, FirstCrlf(d, pos, f)
  PROVE  buffer_find_crlf(d, pos) = f
<1> DEFINE g == buffer_find_crlf(d, pos)
<1>0. Len(d) \in Nat /\ f \in pos .. (Len(d) - 2) /\ CrlfAt(d, f)
  BY DEF FirstCrlf
<1>1. FirstCrlf(d, pos, g)
  <2> HIDE DEF g
  <2>1. \/ g = -1 /\ \A i \in pos .. (Len(d) - 2) : ~ CrlfAt(d, i)
        \/ FirstCrlf(d, pos, g)
    BY CrlfFound DEF g
  <2> QED BY <2>1, <1>0
<1> HIDE DEF g
<1>2. g \in pos .. (Len(d) - 2) /\ CrlfAt(d, g)
  BY <1>1 DEF FirstCrlf
<1>3. ~ (f < g)
  BY <1>0, <1>1, <1>2 DEF FirstCrlf
<1>4. ~ (g < f)
  BY <1>0, <1>2 DEF FirstCrlf
<1> QED BY <1>0, <1>2, <1>3, <1>4 DEF g

\* A CRLF that has arrived stays the first one.
LEMMA CrlfStays ==
  ASSUME NEW d \in Seq(Bytes), NEW e \in Seq(Bytes), Arrived(d, e), NEW pos \in Nat,
         buffer_find_crlf(d, pos) # -1
  PROVE  buffer_find_crlf(e, pos) = buffer_find_crlf(d, pos)
<1> DEFINE f == buffer_find_crlf(d, pos)
<1>1. FirstCrlf(d, pos, f)
  BY CrlfFound
<1> HIDE DEF f
<1>2. Len(d) \in Nat /\ Len(e) \in Nat /\ Len(d) <= Len(e)
  BY DEF Arrived
<1>3. f \in pos .. (Len(d) - 2) /\ f \in pos .. (Len(e) - 2)
  BY <1>1, <1>2 DEF FirstCrlf
<1>4. ASSUME NEW i \in pos .. f PROVE CrlfAt(e, i) <=> CrlfAt(d, i)
  <2>1. i + 1 \in 1 .. Len(d) /\ i + 2 \in 1 .. Len(d)
    BY <1>2, <1>3
  <2>2. e[i + 1] = d[i + 1] /\ e[i + 2] = d[i + 2]
    BY <2>1 DEF Arrived
  <2> QED BY <2>2 DEF CrlfAt
<1>5. CrlfAt(e, f)
  <2>1. f \in pos .. f
    BY <1>3
  <2> QED BY <2>1, <1>1, <1>4 DEF FirstCrlf
<1>6. \A i \in pos .. (f - 1) : ~ CrlfAt(e, i)
  <2>1. \A i \in pos .. (f - 1) : i \in pos .. f
    BY <1>3
  <2> QED BY <2>1, <1>1, <1>4 DEF FirstCrlf
<1>7. FirstCrlf(e, pos, f)
  BY <1>3, <1>5, <1>6 DEF FirstCrlf
<1> QED BY <1>7, CrlfUnique DEF f

\* Equal parts of two streams.
LEMMA SamePart ==
  ASSUME NEW d \in Seq(Bytes), NEW e \in Seq(Bytes), Arrived(d, e),
         NEW a \in Nat, NEW b \in Int, b <= Len(d)
  PROVE  SubSeq(e, a + 1, b) = SubSeq(d, a + 1, b)
<1>0. Len(d) \in Nat /\ Len(e) \in Nat /\ Len(d) <= Len(e)
  BY DEF Arrived
<1>1. \A i \in (a + 1) .. b : i \in 1 .. Len(d) /\ i \in 1 .. Len(e)
  BY <1>0
<1>2. \A i \in (a + 1) .. b : d[i] \in Bytes /\ e[i] \in Bytes /\ e[i] = d[i]
  BY <1>1 DEF Arrived
<1> DEFINE s == SubSeq(d, a + 1, b)
           t == SubSeq(e, a + 1, b)
           n == IF a + 1 <= b THEN b - a ELSE 0
<1>3. s \in Seq(Bytes) /\ Len(s) = n /\ \A i \in 1 .. (b - a) : s[i] = d[a + i]
  <2>1. /\ s \in Seq(Bytes) /\ Len(s) = IF a + 1 <= b THEN b - (a + 1) + 1 ELSE 0
        /\ \A i \in 1 .. (b - (a + 1) + 1) : s[i] = d[(a + 1) + i - 1]
    BY <1>2, SubSeqProperties
  <2> HIDE DEF s
  <2> QED BY <2>1
<1>4. t \in Seq(Bytes) /\ Len(t) = n /\ \A i \in 1 .. (b - a) : t[i] = e[a + i]
  <2>1. /\ t \in Seq(Bytes) /\ Len(t) = IF a + 1 <= b THEN b - (a + 1) + 1 ELSE 0
        /\ \A i \in 1 .. (b - (a + 1) + 1) : t[i] = e[(a + 1) + i - 1]
    BY <1>2, SubSeqProperties
  <2> HIDE DEF t
  <2> QED BY <2>1
<1> HIDE DEF s, t
<1>5. ASSUME NEW i \in 1 .. Len(s) PROVE s[i] = t[i]
  <2>1. i \in 1 .. (b - a) /\ a + i \in (a + 1) .. b
    BY <1>3
  <2> QED BY <2>1, <1>2, <1>3, <1>4
<1>6. s = t
  BY <1>3, <1>4, <1>5, SeqEqual
<1> QED BY <1>6 DEF s, t

\* What read_integer returns.
LEMMA IntegerRead ==
  ASSUME NEW d \in Seq(Bytes), NEW pos \in Nat
  PROVE  /\ read_integer(d, pos).res \in {PARSE_OK, PARSE_INCOMPLETE, PARSE_ERROR}
         /\ read_integer(d, pos).res = PARSE_OK => read_integer(d, pos).pos \in (pos + 2) .. Len(d)
         /\ read_integer(d, pos).res # PARSE_OK => read_integer(d, pos).pos = pos
         /\ read_integer(d, pos).res = PARSE_INCOMPLETE <=> buffer_find_crlf(d, pos) = -1
<1> DEFINE f == buffer_find_crlf(d, pos)
<1>1. f = -1 \/ f \in pos .. (Len(d) - 2)
  BY CrlfFound DEF FirstCrlf
<1>2. read_integer(d, pos) = IntegerUpTo(d, pos, f)
  BY DEF read_integer
<1> HIDE DEF f
<1> QED BY <1>1, <1>2
        DEF f, IntegerUpTo, IntegerIn, PARSE_OK, PARSE_INCOMPLETE, PARSE_ERROR

\* What was read stays so.
LEMMA IntegerStays ==
  ASSUME NEW d \in Seq(Bytes), NEW e \in Seq(Bytes), Arrived(d, e), NEW pos \in Nat,
         read_integer(d, pos).res # PARSE_INCOMPLETE
  PROVE  read_integer(e, pos) = read_integer(d, pos)
<1> DEFINE f == buffer_find_crlf(d, pos)
<1>1. f # -1
  BY IntegerRead
<1>2. buffer_find_crlf(e, pos) = f
  BY <1>1, CrlfStays
<1>3. f \in Int /\ f <= Len(d)
  BY <1>1, CrlfFound DEF FirstCrlf
<1> HIDE DEF f
<1>4. SubSeq(e, pos + 1, f) = SubSeq(d, pos + 1, f)
  BY <1>3, SamePart
<1> QED BY <1>1, <1>2, <1>4 DEF f, read_integer, IntegerUpTo

\* A bulk string as it is read.
Strings == Seq(Bytes) \cup {NullString}

\* What a step of the parser can end with.
Results == {PARSE_OK, PARSE_INCOMPLETE, PARSE_ERROR}

\* Where reading elements of d can arrive.
Readings(d) == [res : Results, pos : 0 .. Len(d), elements : Seq(Strings)]

\* What read_bulk_string returns.
LEMMA BulkRead ==
  ASSUME NEW d \in Seq(Bytes), NEW pos \in 0 .. Len(d)
  PROVE  /\ read_bulk_string(d, pos).res \in Results
         /\ read_bulk_string(d, pos).pos \in 0 .. Len(d)
         /\ read_bulk_string(d, pos).str \in Strings
         /\ read_bulk_string(d, pos).res = PARSE_OK => read_bulk_string(d, pos).pos > pos
<1> USE DEF PARSE_OK, PARSE_INCOMPLETE, PARSE_ERROR, Results, NoString
<1>0. Len(d) \in Nat /\ MAX_STR_LEN \in Nat
  BY ParserAssumption
<1>1. NullString \in Strings
  BY DEF Strings
<1>2. CASE buffer_peek(d, pos) # "$"
  BY <1>0, <1>1, <1>2 DEF read_bulk_string
<1>3. CASE buffer_peek(d, pos) = "$"
  <2>1. pos + 1 \in 0 .. Len(d)
    BY <1>0, <1>3 DEF buffer_peek, buffer_has_bytes
  <2> DEFINE n == read_integer(d, pos + 1)
  <2>2. /\ n.res \in Results
        /\ n.pos \in 0 .. Len(d) /\ n.pos > pos
    BY <1>0, <2>1, IntegerRead
  <2>3. read_bulk_string(d, pos) = BulkData(d, n)
    BY <1>3 DEF read_bulk_string
  <2> HIDE DEF n
  <2>4. CASE ~ (n.val \in 0 .. MAX_STR_LEN)
    BY <1>0, <1>1, <2>2, <2>3, <2>4 DEF BulkData
  <2>5. CASE n.val \in 0 .. MAX_STR_LEN
    <3>1. SubSeq(d, n.pos + 1, n.pos + n.val) \in Strings \/ ~ (n.pos + (n.val + 2) <= Len(d))
      <4>1. SUFFICES ASSUME n.pos + (n.val + 2) <= Len(d)
                     PROVE  SubSeq(d, n.pos + 1, n.pos + n.val) \in Seq(Bytes)
        BY DEF Strings
      <4>2. n.pos + n.val \in Int /\ n.pos + 1 \in Int
        BY <1>0, <2>2, <2>5
      <4>3. \A i \in (n.pos + 1) .. (n.pos + n.val) : i \in 1 .. Len(d)
        BY <1>0, <2>2, <2>5, <4>1
      <4> QED BY <4>2, <4>3, SubSeqProperties
    <3> QED BY <1>0, <1>1, <2>2, <2>3, <2>5, <3>1, SMTT(60) DEF BulkData, buffer_has_bytes
  <2> QED BY <2>4, <2>5
<1> QED BY <1>2, <1>3

\* The data of a bulk string that was read or refused stays so.
LEMMA BulkDataStays ==
  ASSUME NEW d \in Seq(Bytes), NEW e \in Seq(Bytes), Arrived(d, e),
         NEW n, n.res = PARSE_OK => n.pos \in 0 .. Len(d),
         BulkData(d, n).res # PARSE_INCOMPLETE
  PROVE  BulkData(e, n) = BulkData(d, n)
<1> USE DEF PARSE_OK, PARSE_INCOMPLETE, PARSE_ERROR, NoString
<1>0. Len(d) \in Nat /\ Len(e) \in Nat /\ Len(d) <= Len(e) /\ MAX_STR_LEN \in Nat
  BY ParserAssumption DEF Arrived
<1>1. CASE n.res # PARSE_OK \/ n.val = -1 \/ n.val \notin 0 .. MAX_STR_LEN
  BY <1>1 DEF BulkData
<1>2. CASE n.res = PARSE_OK /\ n.val # -1 /\ n.val \in 0 .. MAX_STR_LEN
  <2>1. n.pos \in 0 .. Len(d)
    BY <1>2
  <2>2. n.pos + (n.val + 2) <= Len(d)
    BY <1>2 DEF BulkData, buffer_has_bytes
  <2>3. n.pos + (n.val + 2) <= Len(e)
    BY <1>0, <1>2, <2>1, <2>2
  <2> DEFINE stop == n.pos + n.val
  <2>4. stop + 1 \in 1 .. Len(d) /\ stop + 2 \in 1 .. Len(d) /\ stop \in Int /\ stop <= Len(d)
    <3>1. PICK a \in Int, v \in Int : a = n.pos /\ v = n.val
      BY <1>0, <1>2, <2>1
    <3>2. 0 <= a /\ 0 <= v /\ a + (v + 2) <= Len(d)
      BY <1>0, <1>2, <2>1, <2>2, <3>1
    <3>3. a + v + 1 \in 1 .. Len(d) /\ a + v + 2 \in 1 .. Len(d) /\ a + v <= Len(d)
      BY <1>0, <3>2
    <3> QED BY <3>1, <3>3
  <2>5. CrlfAt(e, stop) <=> CrlfAt(d, stop)
    BY <2>4 DEF Arrived, CrlfAt
  <2>6. SubSeq(e, n.pos + 1, stop) = SubSeq(d, n.pos + 1, stop)
    <3> HIDE DEF stop
    <3>1. n.pos \in Nat
      BY <1>0, <2>1
    <3> QED BY <2>4, <3>1, SamePart
  <2> HIDE DEF stop
  <2> QED BY <1>2, <2>2, <2>3, <2>5, <2>6 DEF BulkData, buffer_has_bytes, stop
<1> QED BY <1>1, <1>2

\* e goes on with an element where d ends.
ElementFollows(d, e) == Len(e) > Len(d) /\ e[Len(d) + 1] = "$"

\* A bulk string that was read stays so.  One that was refused does too, unless
\* nothing of it had arrived.
LEMMA BulkStays ==
  ASSUME NEW d \in Seq(Bytes), NEW e \in Seq(Bytes), Arrived(d, e), NEW pos \in 0 .. Len(d)
  PROVE  /\ read_bulk_string(d, pos).res = PARSE_OK =>
              read_bulk_string(e, pos) = read_bulk_string(d, pos)
         /\ read_bulk_string(d, pos).res = PARSE_ERROR =>
              read_bulk_string(e, pos).res = PARSE_ERROR \/ ElementFollows(d, e)
<1> USE DEF PARSE_OK, PARSE_INCOMPLETE, PARSE_ERROR
<1>0. Len(d) \in Nat /\ Len(e) \in Nat /\ Len(d) <= Len(e)
  BY DEF Arrived
<1>1. CASE pos = Len(d)
  <2>1. read_bulk_string(d, pos).res = PARSE_ERROR
    BY <1>0, <1>1 DEF read_bulk_string, buffer_peek, buffer_has_bytes, NoString
  <2>2. buffer_peek(e, pos) = "$" => ElementFollows(d, e)
    BY <1>0, <1>1 DEF buffer_peek, buffer_has_bytes, ElementFollows
  <2>3. buffer_peek(e, pos) # "$" => read_bulk_string(e, pos).res = PARSE_ERROR
    BY DEF read_bulk_string, NoString
  <2> QED BY <2>1, <2>2, <2>3
<1>2. CASE pos # Len(d)
  <2>1. pos + 1 \in 1 .. Len(d)
    BY <1>0, <1>2
  <2>2. buffer_peek(e, pos) = buffer_peek(d, pos)
    BY <1>0, <2>1 DEF buffer_peek, buffer_has_bytes, Arrived
  <2>3. CASE buffer_peek(d, pos) # "$"
    BY <2>2, <2>3 DEF read_bulk_string
  <2>4. CASE buffer_peek(d, pos) = "$"
    <3> DEFINE n == read_integer(d, pos + 1)
    <3>1. read_bulk_string(d, pos) = BulkData(d, n)
      BY <2>4 DEF read_bulk_string
    <3>2. read_bulk_string(e, pos) = BulkData(e, read_integer(e, pos + 1))
      BY <2>2, <2>4 DEF read_bulk_string
    <3>3. n.res = PARSE_OK => n.pos \in 0 .. Len(d)
      BY <1>0, <2>1, IntegerRead
    <3>4. n.res # PARSE_INCOMPLETE => read_integer(e, pos + 1) = n
      BY <2>1, IntegerStays
    <3>5. n.res = PARSE_INCOMPLETE => BulkData(d, n).res = PARSE_INCOMPLETE
      BY DEF BulkData, NoString
    <3> HIDE DEF n
    <3>6. BulkData(d, n).res # PARSE_INCOMPLETE => BulkData(e, n) = BulkData(d, n)
      BY <3>3, BulkDataStays
    <3> QED BY <3>1, <3>2, <3>4, <3>5, <3>6
  <2> QED BY <2>3, <2>4
<1> QED BY <1>1, <1>2

\* The loop over the elements begins with nothing read.
AtFirst(pos) == [res |-> PARSE_OK, pos |-> pos, elements |-> << >>]

\* r[i] is what reading i elements from pos on arrives at.
Rounds(r, d, pos, count) ==
  r = [i \in 0 .. count |-> IF i = 0 THEN AtFirst(pos) ELSE NextElement(d, r[i - 1])]

\* The rounds of the loop.
RoundsOf(d, pos, count) == CHOOSE r : Rounds(r, d, pos, count)

\* ReadElements returns the last of the rounds.
LEMMA ReadElementsIs ==
  ASSUME NEW d, NEW pos, NEW count
  PROVE  ReadElements(d, pos, count) = RoundsOf(d, pos, count)[count]
BY DEF ReadElements, RoundsOf, Rounds, AtFirst

\* One round.
LEMMA NextReading ==
  ASSUME NEW d \in Seq(Bytes), NEW st \in Readings(d)
  PROVE  /\ NextElement(d, st) \in Readings(d)
         /\ NextElement(d, st).res = PARSE_OK =>
              st.res = PARSE_OK /\ NextElement(d, st).pos > st.pos
<1>1. CASE st.res # PARSE_OK
  BY <1>1 DEF NextElement, Readings
<1>2. CASE st.res = PARSE_OK
  <2> DEFINE b == read_bulk_string(d, st.pos)
  <2>1. st.pos \in 0 .. Len(d) /\ st.elements \in Seq(Strings)
    BY DEF Readings
  <2>2. /\ b.res \in Results /\ b.pos \in 0 .. Len(d) /\ b.str \in Strings
        /\ b.res = PARSE_OK => b.pos > st.pos
    BY <2>1, BulkRead
  <2>3. NextElement(d, st) = [res |-> b.res, pos |-> b.pos, elements |-> Append(st.elements, b.str)]
    BY <1>2 DEF NextElement, AddElement
  <2> HIDE DEF b
  <2>4. Append(st.elements, b.str) \in Seq(Strings)
    BY <2>1, <2>2
  <2> QED BY <1>2, <2>2, <2>3, <2>4 DEF Readings
<1> QED BY <1>1, <1>2

\* The rounds exist, and each follows from the one before.
LEMMA RoundsExist ==
  ASSUME NEW d \in Seq(Bytes), NEW pos \in 0 .. Len(d), NEW count \in Nat
  PROVE  /\ RoundsOf(d, pos, count) \in [0 .. count -> Readings(d)]
         /\ RoundsOf(d, pos, count)[0] = AtFirst(pos)
         /\ \A i \in 1 .. count :
              RoundsOf(d, pos, count)[i] = NextElement(d, RoundsOf(d, pos, count)[i - 1])
<1> DEFINE A == Readings(d)
           step == [i \in 1 .. count |-> [st \in A |-> NextElement(d, st)]]
<1>1. AtFirst(pos) \in A
  BY DEF AtFirst, Readings, Results
<1>2. step \in [1 .. count -> [A -> A]]
  BY NextReading
<1>3. PICK f \in [0 .. count -> A] : Iterates(f, count, AtFirst(pos), step)
  <2> HIDE DEF A, step
  <2> QED BY <1>1, <1>2, Iteration
<1>4. ASSUME NEW i \in 1 .. count PROVE i - 1 \in 0 .. count /\ f[i] = NextElement(d, f[i - 1])
  <2>1. i - 1 \in 0 .. count
    OBVIOUS
  <2>2. f[i - 1] \in A
    BY <2>1, <1>3
  <2> HIDE DEF A
  <2> QED BY <2>1, <2>2, <1>3 DEF Iterates
<1> HIDE DEF A, step
<1>5. Rounds(f, d, pos, count)
  <2>1. ASSUME NEW i \in 0 .. count
        PROVE  f[i] = IF i = 0 THEN AtFirst(pos) ELSE NextElement(d, f[i - 1])
    <3>1. i # 0 => i \in 1 .. count
      OBVIOUS
    <3> QED BY <3>1, <1>3, <1>4 DEF Iterates
  <2> QED BY <2>1, <1>3 DEF Rounds
<1> DEFINE r == RoundsOf(d, pos, count)
<1>6. Rounds(r, d, pos, count)
  BY <1>5 DEF RoundsOf
<1> HIDE DEF r
<1>7. r[0] = AtFirst(pos)
  <2>1. 0 \in 0 .. count
    OBVIOUS
  <2> QED BY <2>1, <1>6 DEF Rounds
<1>8. ASSUME NEW i \in 1 .. count PROVE i - 1 \in 0 .. count /\ r[i] = NextElement(d, r[i - 1])
  <2>1. i - 1 \in 0 .. count /\ i \in 0 .. count /\ i # 0
    OBVIOUS
  <2> QED BY <2>1, <1>6 DEF Rounds
<1> DEFINE S == {i \in 0 .. count : r[i] \in A}
<1>9. 0 \in S
  BY <1>1, <1>7
<1>10. ASSUME NEW i \in 0 .. (count - 1), i \in S PROVE i + 1 \in S
  <2>1. i + 1 \in 1 .. count /\ (i + 1) - 1 = i /\ i + 1 \in 0 .. count /\ r[i] \in A
    BY <1>10
  <2>2. r[i + 1] = NextElement(d, r[i])
    BY <2>1, <1>8
  <2> QED BY <2>1, <2>2, NextReading DEF A
<1>11. \A i \in 0 .. count : i \in S
  <2> HIDE DEF S
  <2> QED BY <1>9, <1>10, Induction
<1>12. r \in [0 .. count -> A]
  <2>1. r = [i \in 0 .. count |-> IF i = 0 THEN AtFirst(pos) ELSE NextElement(d, r[i - 1])]
    BY <1>6 DEF Rounds
  <2>2. DOMAIN r = 0 .. count /\ r = [i \in 0 .. count |-> r[i]]
    BY <2>1
  <2>3. \A i \in 0 .. count : r[i] \in A
    BY <1>11
  <2> QED BY <2>2, <2>3
<1> QED BY <1>7, <1>8, <1>12 DEF r, A

\* Elements that were read stay so.  A refusal does too, unless it came from
\* looking for an element where nothing had arrived.
LEMMA RoundsStay ==
  ASSUME NEW d \in Seq(Bytes), NEW e \in Seq(Bytes), Arrived(d, e),
         NEW pos \in 0 .. Len(d), NEW count \in Nat
  PROVE  /\ ReadElements(d, pos, count).res = PARSE_OK =>
              ReadElements(e, pos, count) = ReadElements(d, pos, count)
         /\ ReadElements(d, pos, count).res = PARSE_ERROR =>
              ReadElements(e, pos, count).res = PARSE_ERROR \/ ElementFollows(d, e)
<1> DEFINE r == RoundsOf(d, pos, count)
           q == RoundsOf(e, pos, count)
           Kept(i) == /\ r[i].res = PARSE_OK => q[i] = r[i]
                      /\ r[i].res = PARSE_ERROR => q[i].res = PARSE_ERROR \/ ElementFollows(d, e)
           S == {i \in 0 .. count : Kept(i)}
<1>0. Len(d) \in Nat /\ Len(e) \in Nat /\ pos \in 0 .. Len(e)
  BY DEF Arrived
<1>1. /\ r \in [0 .. count -> Readings(d)] /\ r[0] = AtFirst(pos)
      /\ \A i \in 1 .. count : r[i] = NextElement(d, r[i - 1])
  BY RoundsExist
<1>2. /\ q \in [0 .. count -> Readings(e)] /\ q[0] = AtFirst(pos)
      /\ \A i \in 1 .. count : q[i] = NextElement(e, q[i - 1])
  BY <1>0, RoundsExist
<1>3. ReadElements(d, pos, count) = r[count] /\ ReadElements(e, pos, count) = q[count]
  BY ReadElementsIs
<1> HIDE DEF r, q
<1>4. 0 \in S
  BY <1>1, <1>2 DEF AtFirst, PARSE_OK, PARSE_ERROR
<1>5. ASSUME NEW i \in 0 .. (count - 1), i \in S PROVE i + 1 \in S
  <2>1. /\ i + 1 \in 1 .. count /\ (i + 1) - 1 = i
        /\ i + 1 \in 0 .. count /\ i \in 0 .. count /\ Kept(i)
    BY <1>5
  <2>2. r[i + 1] = NextElement(d, r[i]) /\ q[i + 1] = NextElement(e, q[i])
    BY <2>1, <1>1, <1>2
  <2>3. CASE r[i].res # PARSE_OK
    <3>1. r[i + 1] = r[i]
      BY <2>2, <2>3 DEF NextElement
    <3>2. q[i].res = PARSE_ERROR => q[i + 1] = q[i]
      BY <2>2 DEF NextElement, PARSE_OK, PARSE_ERROR
    <3> QED BY <2>1, <2>3, <3>1, <3>2
  <2>4. CASE r[i].res = PARSE_OK
    <3> DEFINE b == read_bulk_string(d, r[i].pos)
               c == read_bulk_string(e, r[i].pos)
    <3>1. r[i].pos \in 0 .. Len(d)
      BY <2>1, <1>1 DEF Readings
    <3>2. /\ b.res = PARSE_OK => c = b
          /\ b.res = PARSE_ERROR => c.res = PARSE_ERROR \/ ElementFollows(d, e)
      BY <3>1, BulkStays
    <3>3. r[i + 1] = AddElement(r[i], b) /\ q[i + 1] = AddElement(r[i], c)
      BY <2>1, <2>2, <2>4 DEF NextElement
    <3> HIDE DEF b, c
    <3>4. r[i + 1].res = b.res /\ q[i + 1].res = c.res
      BY <3>3 DEF AddElement
    <3>5. c = b => q[i + 1] = r[i + 1]
      BY <3>3
    <3> QED BY <2>1, <3>2, <3>4, <3>5
  <2> QED BY <2>3, <2>4
<1>6. \A i \in 0 .. count : i \in S
  <2> HIDE DEF S
  <2> QED BY <1>4, <1>5, Induction
<1>7. Kept(count)
  <2>1. count \in 0 .. count
    OBVIOUS
  <2> QED BY <2>1, <1>6
<1> QED BY <1>3, <1>7

\* The command is somewhere in the bytes.
LEMMA ParseBounds ==
  ASSUME NEW d \in Seq(Bytes), NEW memFails \in BOOLEAN
  PROVE  /\ resp_parse(d, memFails).consumed \in {PARSE_INCOMPLETE, PARSE_ERROR} \cup 1 .. Len(d)
         /\ resp_parse(d, memFails).elements \in Seq(Strings)
<1> USE DEF PARSE_OK, PARSE_INCOMPLETE, PARSE_ERROR
<1> DEFINE n == read_integer(d, 1)
           e == ReadElements(d, n.pos, n.val)
<1>0. Len(d) \in Nat /\ MAX_ARGS \in Nat /\ << >> \in Seq(Strings)
  BY ParserAssumption
<1>1. n.res \in Results /\ (n.res = PARSE_OK => n.pos \in 3 .. Len(d))
  BY IntegerRead DEF Results
<1>2. ASSUME n.res = PARSE_OK, n.val \in 1 .. MAX_ARGS
      PROVE  e \in Readings(d) /\ (e.res = PARSE_OK => e.pos \in 1 .. Len(d))
  <2> DEFINE r == RoundsOf(d, n.pos, n.val)
             S == {i \in 0 .. n.val : r[i].res = PARSE_OK => r[i].pos >= n.pos}
  <2> HIDE DEF n
  <2>1. n.pos \in 0 .. Len(d) /\ n.val \in Nat /\ n.pos >= 3 /\ n.pos \in Nat
    BY <1>0, <1>1, <1>2
  <2>2. /\ r \in [0 .. n.val -> Readings(d)] /\ r[0] = AtFirst(n.pos)
        /\ \A i \in 1 .. n.val : r[i] = NextElement(d, r[i - 1])
    BY <2>1, RoundsExist, SMTT(60)
  <2>3. e = r[n.val]
    BY ReadElementsIs
  <2> HIDE DEF r
  <2>4. 0 \in S
    BY <2>1, <2>2 DEF AtFirst
  <2>5. ASSUME NEW i \in 0 .. (n.val - 1), i \in S PROVE i + 1 \in S
    <3>1. i + 1 \in 1 .. n.val /\ (i + 1) - 1 = i /\ i + 1 \in 0 .. n.val /\ i \in 0 .. n.val
      BY <2>1
    <3>2. r[i + 1] = NextElement(d, r[i]) /\ r[i] \in Readings(d) /\ r[i + 1] \in Readings(d)
      BY <2>2, <3>1
    <3>3. r[i + 1].res = PARSE_OK => r[i].res = PARSE_OK /\ r[i + 1].pos > r[i].pos
      BY <3>2, NextReading
    <3>4. r[i].pos \in Nat /\ r[i + 1].pos \in Nat
      BY <1>0, <3>2 DEF Readings
    <3>5. r[i].res = PARSE_OK => r[i].pos >= n.pos
      BY <2>5
    <3>6. r[i + 1].res = PARSE_OK => r[i + 1].pos >= n.pos
      BY <2>1, <3>3, <3>4, <3>5
    <3> QED BY <3>1, <3>6
  <2>6. \A i \in 0 .. n.val : i \in S
    <3> HIDE DEF S
    <3> QED BY <2>1, <2>4, <2>5, Induction
  <2>7. n.val \in 0 .. n.val
    BY <2>1
  <2>8. e \in Readings(d) /\ (e.res = PARSE_OK => e.pos >= n.pos)
    BY <2>2, <2>3, <2>6, <2>7
  <2> HIDE DEF e
  <2> QED BY <1>0, <2>1, <2>8 DEF Readings
<1> HIDE DEF n, e
<1>3. /\ AfterHeader(d, n, memFails).consumed \in {PARSE_INCOMPLETE, PARSE_ERROR} \cup 1 .. Len(d)
      /\ AfterHeader(d, n, memFails).elements \in Seq(Strings)
  <2>1. CASE n.res # PARSE_OK
    BY <1>0, <1>1, <2>1 DEF AfterHeader, Verdict, Results
  <2>2. CASE n.res = PARSE_OK /\ (n.val \notin 1 .. MAX_ARGS \/ memFails)
    BY <1>0, <2>2 DEF AfterHeader, Verdict
  <2>3. CASE n.res = PARSE_OK /\ ~ (n.val \notin 1 .. MAX_ARGS \/ memFails)
    <3>1. AfterHeader(d, n, memFails) = CommandOf(e)
      BY <2>3 DEF AfterHeader, e
    <3> QED BY <1>0, <1>2, <2>3, <3>1 DEF CommandOf, Verdict, Readings, Results
  <2> QED BY <2>1, <2>2, <2>3
<1> QED BY <1>0, <1>3 DEF resp_parse, Verdict, n

\* What resp_parse makes of d while no allocation fails.
Meaning(d) == resp_parse(d, FALSE)

\* The same, from the number n of the header on.
Told(d, n) == AfterHeader(d, n, FALSE)

\* How resp_parse gets to its answer.
LEMMA ParseCases ==
  ASSUME NEW d
  PROVE  /\ Len(d) < MIN_BUFFER_SIZE => Meaning(d) = Verdict(PARSE_INCOMPLETE)
         /\ ~ (Len(d) < MIN_BUFFER_SIZE) /\ d[1] # "*" => Meaning(d) = Verdict(PARSE_ERROR)
         /\ ~ (Len(d) < MIN_BUFFER_SIZE) /\ d[1] = "*" =>
              Meaning(d) = Told(d, read_integer(d, 1))
BY DEF Meaning, Told, resp_parse

\* How a parse that yields no command is reported.
LEMMA VerdictIs ==
  ASSUME NEW res
  PROVE  Verdict(res).consumed = res
BY DEF Verdict

\* How it goes on after the header.
LEMMA HeaderCases ==
  ASSUME NEW d, NEW n
  PROVE  /\ n.res # PARSE_OK => Told(d, n) = Verdict(n.res)
         /\ n.res = PARSE_OK /\ n.val \notin 1 .. MAX_ARGS => Told(d, n) = Verdict(PARSE_ERROR)
         /\ n.res = PARSE_OK /\ n.val \in 1 .. MAX_ARGS =>
              Told(d, n) = CommandOf(ReadElements(d, n.pos, n.val))
BY DEF Told, AfterHeader

\* How it ends.
LEMMA CommandCases ==
  ASSUME NEW e
  PROVE  /\ e.res = PARSE_OK => CommandOf(e).consumed = e.pos /\ CommandOf(e).elements = e.elements
         /\ e.res # PARSE_OK => CommandOf(e).consumed = e.res
BY DEF CommandOf, Verdict

\* A command that was parsed is the one that is parsed when more has arrived.
LEMMA CommandStays ==
  ASSUME NEW d \in Seq(Bytes), NEW e \in Seq(Bytes), Arrived(d, e),
         Meaning(d).consumed > 0
  PROVE  Meaning(e) = Meaning(d)
<1> USE DEF PARSE_OK, PARSE_INCOMPLETE, PARSE_ERROR
<1> DEFINE n == read_integer(d, 1)
<1>0. /\ Len(d) \in Nat /\ Len(e) \in Nat /\ Len(d) <= Len(e)
      /\ MIN_BUFFER_SIZE \in 2 .. 4 /\ MAX_ARGS \in Nat
  BY ParserAssumption DEF Arrived
<1>1. ~ (Len(d) < MIN_BUFFER_SIZE) /\ ~ (Len(e) < MIN_BUFFER_SIZE)
  BY <1>0, ParseCases, VerdictIs
<1>2. d[1] = "*" /\ e[1] = "*"
  <2>1. d[1] = "*"
    BY <1>1, ParseCases, VerdictIs
  <2> QED BY <2>1, <1>0, <1>1 DEF Arrived
<1>3. Meaning(d) = Told(d, n)
  BY <1>1, <1>2 DEF Meaning, Told, resp_parse
<1>4. n.res \in Results /\ (n.res = PARSE_OK => n.pos \in 3 .. Len(d))
  BY IntegerRead DEF Results
<1>5. n.res = PARSE_OK /\ n.val \in 1 .. MAX_ARGS
  <2> HIDE DEF n
  <2> QED BY <1>3, <1>4, HeaderCases, ParseCases, VerdictIs DEF Results
<1>6. read_integer(e, 1) = n
  BY <1>5, IntegerStays
<1>7. Meaning(e) = Told(e, n)
  BY <1>1, <1>2, <1>6 DEF Meaning, Told, resp_parse
<1> HIDE DEF n
<1> DEFINE r == ReadElements(d, n.pos, n.val)
           q == ReadElements(e, n.pos, n.val)
<1>8. Meaning(d) = CommandOf(r) /\ Meaning(e) = CommandOf(q)
  BY <1>3, <1>5, <1>7 DEF Told, AfterHeader
<1>9. n.pos \in 0 .. Len(d) /\ n.val \in Nat
  BY <1>0, <1>4, <1>5
<1>10. r.res \in Results
  <2>1. r = RoundsOf(d, n.pos, n.val)[n.val] /\ n.val \in 0 .. n.val
    BY <1>9, ReadElementsIs
  <2>2. r \in Readings(d)
    <3> HIDE DEF r
    <3> QED BY <2>1, <1>9, RoundsExist
  <2> QED BY <2>2 DEF Readings
<1>11. r.res = PARSE_OK => q = r
  BY <1>9, RoundsStay
<1> HIDE DEF r, q
<1>12. r.res = PARSE_OK
  BY <1>8, <1>10, CommandCases DEF Results
<1> QED BY <1>8, <1>11, <1>12

\* An error is one for good, unless the next byte begins an element.
LEMMA ErrorStays ==
  ASSUME NEW d \in Seq(Bytes), NEW e \in Seq(Bytes), Arrived(d, e),
         Meaning(d).consumed = PARSE_ERROR
  PROVE  Meaning(e).consumed = PARSE_ERROR \/ ElementFollows(d, e)
<1> USE DEF PARSE_OK, PARSE_INCOMPLETE, PARSE_ERROR
<1> DEFINE n == read_integer(d, 1)
<1>0. /\ Len(d) \in Nat /\ Len(e) \in Nat /\ Len(d) <= Len(e)
      /\ MIN_BUFFER_SIZE \in 2 .. 4 /\ MAX_ARGS \in Nat
  BY ParserAssumption DEF Arrived
<1>1. ~ (Len(d) < MIN_BUFFER_SIZE) /\ ~ (Len(e) < MIN_BUFFER_SIZE)
  BY <1>0, ParseCases, VerdictIs
<1>2. e[1] = d[1]
  BY <1>0, <1>1 DEF Arrived
<1>3. CASE d[1] # "*"
  BY <1>1, <1>2, <1>3 DEF Meaning, Told, resp_parse, Verdict
<1>4. CASE d[1] = "*"
  <2>1. Meaning(d) = Told(d, n)
    BY <1>1, <1>4 DEF Meaning, Told, resp_parse
  <2>2. n.res \in Results /\ (n.res = PARSE_OK => n.pos \in 3 .. Len(d))
    BY IntegerRead DEF Results
  <2>3. n.res # PARSE_INCOMPLETE
    <3> HIDE DEF n
    <3> QED BY <2>1, HeaderCases, ParseCases, VerdictIs
  <2>4. read_integer(e, 1) = n
    BY <2>3, IntegerStays
  <2>5. Meaning(e) = Told(e, n)
    BY <1>1, <1>2, <1>4, <2>4 DEF Meaning, Told, resp_parse
  <2> HIDE DEF n
  <2>6. CASE n.res # PARSE_OK \/ n.val \notin 1 .. MAX_ARGS
    BY <2>1, <2>5, <2>6 DEF Told, AfterHeader, Verdict
  <2>7. CASE n.res = PARSE_OK /\ n.val \in 1 .. MAX_ARGS
    <3> DEFINE r == ReadElements(d, n.pos, n.val)
               q == ReadElements(e, n.pos, n.val)
    <3>1. Meaning(d) = CommandOf(r) /\ Meaning(e) = CommandOf(q)
      BY <2>1, <2>5, <2>7 DEF Told, AfterHeader
    <3>2. n.pos \in 0 .. Len(d) /\ n.val \in Nat
      BY <1>0, <2>2, <2>7
    <3>3. r \in Readings(d)
      <4>1. r = RoundsOf(d, n.pos, n.val)[n.val] /\ n.val \in 0 .. n.val
        BY <3>2, ReadElementsIs
      <4> HIDE DEF r
      <4> QED BY <4>1, <3>2, RoundsExist
    <3>4. r.res = PARSE_ERROR => q.res = PARSE_ERROR \/ ElementFollows(d, e)
      BY <3>2, RoundsStay
    <3> HIDE DEF r, q
    <3>5. r.res = PARSE_ERROR
      <4>1. r.pos \in 0 .. Len(d)
        BY <3>3 DEF Readings
      <4> QED BY <1>0, <3>1, <4>1, CommandCases
    <3>6. q.res = PARSE_ERROR => CommandOf(q).consumed = PARSE_ERROR
      BY DEF CommandOf, Verdict
    <3> QED BY <3>1, <3>4, <3>5, <3>6
  <2> QED BY <2>6, <2>7
<1> QED BY <1>3, <1>4

-----------------------------------------------------------------------------
(* Numbers.                                                                *)

\* The digits, as bytes.
DigitChars == DOMAIN DigitValue

\* f[i] is the number the digits among the first i bytes of text spell.
Spells(f, text) == f = [i \in 0 .. Len(text) |-> IF i = 0 THEN 0 ELSE AddDigit(f[i - 1], text[i])]

\* The numbers spelled by the first parts of text.
SpelledBy(text) == CHOOSE f : Spells(f, text)

\* strtol returns the last of them, or its opposite.
LEMMA StrtolIs ==
  ASSUME NEW text
  PROVE  strtol(text) = IF Contains(text, "-") THEN - SpelledBy(text)[Len(text)]
                                               ELSE SpelledBy(text)[Len(text)]
BY DEF strtol, SpelledBy, Spells

\* The digits have the values 0 to 9.
LEMMA DigitValues ==
  /\ \A b \in DigitChars : DigitValue[b] \in Nat
  /\ \A v \in 0 .. 9 : Digits[v + 1] \in DigitChars /\ DigitValue[Digits[v + 1]] = v
<1>1. \A b \in DigitChars : DigitValue[b] \in Nat
  BY DEF DigitChars, DigitValue
<1>2. ASSUME NEW v \in 0 .. 9
      PROVE  Digits[v + 1] \in DigitChars /\ DigitValue[Digits[v + 1]] = v
  <2>1. v \in {0, 1, 2, 3, 4, 5, 6, 7, 8, 9}
    OBVIOUS
  <2>2. /\ Digits[1] = "0" /\ Digits[2] = "1" /\ Digits[3] = "2" /\ Digits[4] = "3"
        /\ Digits[5] = "4" /\ Digits[6] = "5" /\ Digits[7] = "6" /\ Digits[8] = "7"
        /\ Digits[9] = "8" /\ Digits[10] = "9"
    BY DEF Digits
  <2>3. /\ DigitValue["0"] = 0 /\ DigitValue["1"] = 1 /\ DigitValue["2"] = 2
        /\ DigitValue["3"] = 3 /\ DigitValue["4"] = 4 /\ DigitValue["5"] = 5
        /\ DigitValue["6"] = 6 /\ DigitValue["7"] = 7 /\ DigitValue["8"] = 8
        /\ DigitValue["9"] = 9
    BY DEF DigitValue
  <2>4. DigitChars = {"0", "1", "2", "3", "4", "5", "6", "7", "8", "9"}
    BY DEF DigitChars, DigitValue
  <2> QED BY <2>1, <2>2, <2>3, <2>4
<1> QED BY <1>1, <1>2

\* These numbers exist, and each follows from the one before.
LEMMA SpellingExists ==
  ASSUME NEW S, NEW text \in Seq(S)
  PROVE  /\ SpelledBy(text)[0] = 0
         /\ \A i \in 1 .. Len(text) : SpelledBy(text)[i] = AddDigit(SpelledBy(text)[i - 1], text[i])
<1> DEFINE n == Len(text)
           step == [i \in 1 .. n |-> [v \in Nat |-> AddDigit(v, text[i])]]
<1>0. n \in Nat
  OBVIOUS
<1>1. ASSUME NEW v \in Nat, NEW b PROVE AddDigit(v, b) \in Nat
  <2>1. IsDigit(b) => DigitValue[b] \in Nat
    BY DigitValues DEF IsDigit, DigitChars
  <2> QED BY <2>1 DEF AddDigit
<1>2. step \in [1 .. n -> [Nat -> Nat]]
  BY <1>1
<1>3. PICK f \in [0 .. n -> Nat] : Iterates(f, n, 0, step)
  <2> HIDE DEF n, step
  <2> QED BY <1>0, <1>2, Iteration
<1>4. ASSUME NEW i \in 1 .. n PROVE f[i] = AddDigit(f[i - 1], text[i])
  <2>1. i - 1 \in 0 .. n
    BY <1>0
  <2>2. f[i - 1] \in Nat
    BY <2>1, <1>3
  <2>3. step[i][f[i - 1]] = AddDigit(f[i - 1], text[i])
    BY <2>2
  <2> HIDE DEF step
  <2> QED BY <2>3, <1>3 DEF Iterates
<1> HIDE DEF step
<1>5. Spells(f, text)
  <2>1. ASSUME NEW i \in 0 .. n PROVE f[i] = IF i = 0 THEN 0 ELSE AddDigit(f[i - 1], text[i])
    <3>1. i # 0 => i \in 1 .. n
      BY <1>0
    <3> QED BY <3>1, <1>3, <1>4 DEF Iterates
  <2> QED BY <2>1, <1>3 DEF Spells
<1>6. Spells(SpelledBy(text), text)
  BY <1>5 DEF SpelledBy
<1>7. \A i \in 1 .. n : i \in 0 .. n /\ i # 0
  BY <1>0
<1>8. 0 \in 0 .. n
  BY <1>0
<1> QED BY <1>6, <1>7, <1>8 DEF Spells

\* What one more digit does.
LEMMA SpellingGrows ==
  ASSUME NEW S, NEW text \in Seq(S), NEW b \in S
  PROVE  SpelledBy(Append(text, b))[Len(text) + 1] = AddDigit(SpelledBy(text)[Len(text)], b)
<1> DEFINE n == Len(text)
           t == Append(text, b)
           f == SpelledBy(text)
           g == SpelledBy(t)
           Q == {i \in 0 .. n : g[i] = f[i]}
<1>0. /\ n \in Nat /\ t \in Seq(S) /\ Len(t) = n + 1 /\ t[n + 1] = b
      /\ \A i \in 1 .. n : t[i] = text[i]
  OBVIOUS
<1> HIDE DEF t
<1>1. f[0] = 0 /\ \A i \in 1 .. n : f[i] = AddDigit(f[i - 1], text[i])
  BY SpellingExists
<1>2. g[0] = 0 /\ \A i \in 1 .. (n + 1) : g[i] = AddDigit(g[i - 1], t[i])
  <2>1. g[0] = 0 /\ \A i \in 1 .. Len(t) : g[i] = AddDigit(g[i - 1], t[i])
    BY <1>0, SpellingExists
  <2> QED BY <2>1, <1>0
<1> HIDE DEF f, g, n
<1>3. 0 \in Q
  BY <1>0, <1>1, <1>2
<1>4. ASSUME NEW i \in 0 .. (n - 1), i \in Q PROVE i + 1 \in Q
  <2>1. i + 1 \in 1 .. n /\ i + 1 \in 1 .. (n + 1) /\ (i + 1) - 1 = i /\ i + 1 \in 0 .. n
    BY <1>0
  <2>2. f[i + 1] = AddDigit(f[i], text[i + 1]) /\ g[i + 1] = AddDigit(g[i], t[i + 1])
    BY <2>1, <1>1, <1>2
  <2> QED BY <2>1, <2>2, <1>0, <1>4
<1>5. \A i \in 0 .. n : i \in Q
  <2> HIDE DEF Q
  <2> QED BY <1>0, <1>3, <1>4, Induction
<1>6. n \in 0 .. n /\ n + 1 \in 1 .. (n + 1) /\ (n + 1) - 1 = n
  BY <1>0
<1>7. g[n] = f[n] /\ g[n + 1] = AddDigit(g[n], t[n + 1])
  BY <1>2, <1>5, <1>6
<1> QED BY <1>0, <1>7 DEF f, g, n, t

\* f[m] is the numeral of m.
Numerals(f, n) ==
  f = [m \in 0 .. n |-> IF m < 10 THEN <<Digits[m + 1]>>
                                  ELSE Append(f[m \div 10], Digits[(m % 10) + 1])]

\* The numerals of the numbers up to n.
NumeralsOf(n) == CHOOSE f : Numerals(f, n)

\* Number is the last of them.
LEMMA NumberIs ==
  ASSUME NEW n
  PROVE  Number(n) = NumeralsOf(n)[n]
BY DEF Number, NumeralsOf, Numerals

\* The last digit of a number and the others.
LEMMA LastDigit ==
  ASSUME NEW m \in Nat
  PROVE  /\ m % 10 \in 0 .. 9 /\ m \div 10 \in Nat /\ m = 10 * (m \div 10) + (m % 10)
         /\ m >= 10 => m \div 10 \in 0 .. (m - 1)
<1>1. m % 10 \in 0 .. 9
  OBVIOUS
<1>2. m \div 10 \in Nat
  OBVIOUS
<1>3. m = 10 * (m \div 10) + (m % 10)
  OBVIOUS
<1> QED BY <1>1, <1>2, <1>3

\* The numerals are well defined.
LEMMA NumeralsExist ==
  ASSUME NEW n \in Nat
  PROVE  Numerals(NumeralsOf(n), n)
<1> DEFINE S == {m \in 0 .. n : \E f : Numerals(f, m)}
<1>1. 0 \in S
  <2> DEFINE f == [m \in 0 .. 0 |-> <<Digits[m + 1]>>]
  <2>1. ASSUME NEW m \in 0 .. 0
        PROVE  f[m] = IF m < 10 THEN <<Digits[m + 1]>>
                                ELSE Append(f[m \div 10], Digits[(m % 10) + 1])
    <3>1. m < 10
      OBVIOUS
    <3> QED BY <3>1
  <2>2. f = [m \in 0 .. 0 |-> f[m]]
    OBVIOUS
  <2> HIDE DEF f
  <2>3. Numerals(f, 0)
    BY <2>1, <2>2 DEF Numerals
  <2> QED BY <2>3
<1>2. ASSUME NEW m \in 0 .. (n - 1), m \in S PROVE m + 1 \in S
  <2>1. PICK f : Numerals(f, m)
    BY <1>2
  <2> DEFINE New(j) == IF j < 10 THEN <<Digits[j + 1]>>
                                 ELSE Append(f[j \div 10], Digits[(j % 10) + 1])
             g == [j \in 0 .. (m + 1) |-> New(j)]
  <2>2. m + 1 \in 0 .. n /\ m \in Nat
    OBVIOUS
  <2>3. ASSUME NEW j \in 0 .. m PROVE f[j] = New(j)
    BY <2>1 DEF Numerals
  <2>4. ASSUME NEW j \in 0 .. (m + 1), j >= 10 PROVE g[j \div 10] = f[j \div 10]
    <3>1. j \div 10 \in 0 .. (j - 1)
      BY <2>2, <2>4, LastDigit
    <3>2. j \div 10 \in 0 .. m /\ j \div 10 \in 0 .. (m + 1)
      BY <2>2, <3>1
    <3> HIDE DEF New
    <3> QED BY <3>2, <2>3
  <2>5. ASSUME NEW j \in 0 .. (m + 1)
        PROVE  g[j] = IF j < 10 THEN <<Digits[j + 1]>>
                                ELSE Append(g[j \div 10], Digits[(j % 10) + 1])
    <3>1. g[j] = New(j)
      OBVIOUS
    <3>2. j < 10 \/ j >= 10
      BY <2>2
    <3> HIDE DEF g
    <3> QED BY <3>1, <3>2, <2>4
  <2>6. g = [j \in 0 .. (m + 1) |-> g[j]]
    OBVIOUS
  <2> HIDE DEF g
  <2>7. Numerals(g, m + 1)
    BY <2>5, <2>6 DEF Numerals
  <2> QED BY <2>2, <2>7
<1>3. \A m \in 0 .. n : m \in S
  <2> HIDE DEF S
  <2> QED BY <1>1, <1>2, Induction
<1>4. \E f : Numerals(f, n)
  <2>1. n \in 0 .. n
    OBVIOUS
  <2> QED BY <2>1, <1>3
<1> QED BY <1>4 DEF NumeralsOf

\* A number, written in decimal, is a sequence of digits that spell it.
LEMMA NumberSpells ==
  ASSUME NEW n \in Nat
  PROVE  /\ Number(n) \in Seq(DigitChars) /\ Len(Number(n)) > 0
         /\ SpelledBy(Number(n))[Len(Number(n))] = n
<1> DEFINE f == NumeralsOf(n)
           Good(s, m) == s \in Seq(DigitChars) /\ Len(s) > 0 /\ SpelledBy(s)[Len(s)] = m
           T == {m \in 0 .. n : ~ Good(f[m], m)}
<1>1. Numerals(f, n)
  BY NumeralsExist
<1> HIDE DEF f
<1>2. SUFFICES ASSUME T # {} PROVE FALSE
  <2>1. n \in 0 .. n /\ n \notin T
    BY <1>2
  <2>2. Good(f[n], n)
    BY <2>1
  <2> QED BY <2>2, NumberIs DEF f
<1>3. PICK m \in T : \A j \in T : m <= j
  <2>1. T \subseteq Nat
    OBVIOUS
  <2> HIDE DEF T
  <2> QED BY <1>2, <2>1, LeastElement
<1>4. m \in 0 .. n /\ m \in Nat /\ ~ Good(f[m], m)
  OBVIOUS
<1>5. f[m] = IF m < 10 THEN <<Digits[m + 1]>> ELSE Append(f[m \div 10], Digits[(m % 10) + 1])
  BY <1>1, <1>4 DEF Numerals
<1>6. ASSUME NEW v \in Nat, NEW b \in DigitChars PROVE AddDigit(v, b) = 10 * v + DigitValue[b]
  BY DEF AddDigit, IsDigit, DigitChars
<1>7. CASE m < 10
  <2> DEFINE b == Digits[m + 1]
             e == << >>
  <2>1. b \in DigitChars /\ DigitValue[b] = m
    <3>1. m \in 0 .. 9
      BY <1>4, <1>7
    <3> QED BY <3>1, DigitValues
  <2>2. e \in Seq(DigitChars) /\ Len(e) = 0 /\ Append(e, b) = <<b>>
    OBVIOUS
  <2> HIDE DEF b, e
  <2>3. SpelledBy(e)[0] = 0
    BY <2>2, SpellingExists
  <2>4. SpelledBy(Append(e, b))[Len(e) + 1] = AddDigit(SpelledBy(e)[Len(e)], b)
    BY <2>1, <2>2, SpellingGrows
  <2>5. SpelledBy(<<b>>)[1] = 10 * 0 + DigitValue[b]
    BY <2>1, <2>2, <2>3, <2>4, <1>6
  <2>6. Good(<<b>>, m)
    BY <2>1, <2>5, <1>4
  <2> QED BY <2>6, <1>4, <1>5, <1>7 DEF b
<1>8. CASE ~ (m < 10)
  <2> DEFINE q == m \div 10
             b == Digits[(m % 10) + 1]
             s == f[q]
  <2>1. q \in 0 .. (m - 1) /\ m % 10 \in 0 .. 9 /\ m = 10 * q + (m % 10)
    BY <1>4, <1>8, LastDigit
  <2>2. b \in DigitChars /\ DigitValue[b] = m % 10
    BY <2>1, DigitValues
  <2> HIDE DEF q, b
  <2>3. Good(s, q)
    <3>1. q \notin T
      <4> HIDE DEF T
      <4> QED BY <2>1, <1>3, <1>4
    <3>2. q \in 0 .. n
      BY <2>1, <1>4
    <3> QED BY <3>1, <3>2
  <2> HIDE DEF s
  <2>4. Append(s, b) \in Seq(DigitChars) /\ Len(Append(s, b)) = Len(s) + 1 /\ Len(s) \in Nat
    BY <2>2, <2>3
  <2>5. SpelledBy(Append(s, b))[Len(s) + 1] = AddDigit(q, b)
    BY <2>2, <2>3, SpellingGrows
  <2>6. AddDigit(q, b) = m
    <3>1. q \in Nat
      BY <2>1, <1>4
    <3>2. AddDigit(q, b) = 10 * q + DigitValue[b]
      BY <3>1, <2>2, <1>6
    <3> QED BY <3>2, <2>1, <2>2
  <2>7. Good(Append(s, b), m)
    BY <2>4, <2>5, <2>6
  <2> QED BY <2>7, <1>4, <1>5, <1>8 DEF q, b, s
<1> QED BY <1>7, <1>8

-----------------------------------------------------------------------------
(* What clients write is what the parser reads.                            *)

\* s is found at pos.
At(d, pos, s) == pos + Len(s) <= Len(d) /\ \A j \in 1 .. Len(s) : d[pos + j] = s[j]

\* One thing after another.
LEMMA AtConcat ==
  ASSUME NEW d \in Seq(Bytes), NEW pos \in Nat, NEW a \in Seq(Bytes), NEW b \in Seq(Bytes)
  PROVE  At(d, pos, a \o b) <=> At(d, pos, a) /\ At(d, pos + Len(a), b)
<1> DEFINE c == a \o b
           m == Len(a)
           n == Len(b)
<1>0. m \in Nat /\ n \in Nat /\ Len(d) \in Nat
  OBVIOUS
<1>1. Len(c) = m + n /\ \A j \in 1 .. (m + n) : c[j] = IF j <= m THEN a[j] ELSE b[j - m]
  BY ConcatProperties
<1> HIDE DEF c, m, n
<1>2. ASSUME At(d, pos, c) PROVE At(d, pos, a) /\ At(d, pos + m, b)
  <2>1. pos + (m + n) <= Len(d) /\ \A j \in 1 .. (m + n) : d[pos + j] = c[j]
    BY <1>1, <1>2 DEF At
  <2>2. ASSUME NEW j \in 1 .. m PROVE d[pos + j] = a[j]
    <3>1. j \in 1 .. (m + n) /\ j <= m
      BY <1>0
    <3> QED BY <3>1, <2>1, <1>1
  <2>3. ASSUME NEW j \in 1 .. n PROVE d[pos + m + j] = b[j]
    <3>1. m + j \in 1 .. (m + n) /\ ~ (m + j <= m) /\ (m + j) - m = j /\ pos + (m + j) = pos + m + j
      BY <1>0
    <3>2. d[pos + (m + j)] = b[(m + j) - m]
      BY <3>1, <2>1, <1>1
    <3> QED BY <3>1, <3>2
  <2>4. pos + m <= Len(d) /\ (pos + m) + n <= Len(d)
    BY <1>0, <2>1
  <2> QED BY <2>2, <2>3, <2>4 DEF At, m, n
<1>3. ASSUME At(d, pos, a), At(d, pos + m, b) PROVE At(d, pos, c)
  <2>1. (pos + m) + n <= Len(d) /\ \A j \in 1 .. n : d[(pos + m) + j] = b[j]
    BY <1>3 DEF At, n
  <2>2. \A j \in 1 .. m : d[pos + j] = a[j]
    BY <1>3 DEF At, m
  <2>3. ASSUME NEW j \in 1 .. (m + n) PROVE d[pos + j] = c[j]
    <3>1. CASE j <= m
      <4>1. j \in 1 .. m
        BY <1>0, <3>1
      <4> QED BY <4>1, <3>1, <2>2, <1>1
    <3>2. CASE ~ (j <= m)
      <4>1. j - m \in 1 .. n /\ (pos + m) + (j - m) = pos + j
        BY <1>0, <3>2
      <4>2. d[(pos + m) + (j - m)] = b[j - m]
        BY <4>1, <2>1
      <4> QED BY <4>1, <4>2, <3>2, <1>1
    <3> QED BY <3>1, <3>2
  <2>4. pos + (m + n) <= Len(d)
    BY <1>0, <2>1
  <2> QED BY <1>1, <2>3, <2>4 DEF At
<1> QED BY <1>2, <1>3 DEF c, m

\* What is found at pos can be cut out.
LEMMA CutOut ==
  ASSUME NEW d \in Seq(Bytes), NEW pos \in Nat, NEW s \in Seq(Bytes), At(d, pos, s)
  PROVE  SubSeq(d, pos + 1, pos + Len(s)) = s
<1> DEFINE n == Len(s)
           t == SubSeq(d, pos + 1, pos + n)
<1>0. n \in Nat /\ Len(d) \in Nat /\ pos + n <= Len(d)
  BY DEF At
<1>1. \A i \in (pos + 1) .. (pos + n) : i \in 1 .. Len(d)
  BY <1>0
<1>2. \A i \in (pos + 1) .. (pos + n) : d[i] \in Bytes
  BY <1>1
<1> HIDE DEF n
<1>3. /\ t \in Seq(Bytes) /\ Len(t) = IF pos + 1 <= pos + n THEN (pos + n) - (pos + 1) + 1 ELSE 0
      /\ \A i \in 1 .. ((pos + n) - (pos + 1) + 1) : t[i] = d[(pos + 1) + i - 1]
  BY <1>0, <1>2, SubSeqProperties
<1> HIDE DEF t
<1>4. Len(t) = n
  BY <1>0, <1>3
<1>5. ASSUME NEW i \in 1 .. Len(t) PROVE t[i] = s[i]
  <2>1. i \in 1 .. n /\ i \in 1 .. ((pos + n) - (pos + 1) + 1) /\ (pos + 1) + i - 1 = pos + i
    BY <1>0, <1>4
  <2>2. t[i] = d[pos + i]
    BY <2>1, <1>3
  <2>3. d[pos + i] = s[i]
    BY <2>1 DEF At, n
  <2> QED BY <2>2, <2>3
<1>6. t = s
  BY <1>3, <1>4, <1>5, SeqEqual DEF n
<1> QED BY <1>6 DEF t, n

\* A number and a CRLF are read as this number.
LEMMA NumberRead ==
  ASSUME NEW d \in Seq(Bytes), NEW pos \in Nat, NEW n \in Nat, Len(Number(n)) <= MAX_DIGITS,
         At(d, pos, Number(n)), At(d, pos + Len(Number(n)), CRLF)
  PROVE  read_integer(d, pos) = [res |-> PARSE_OK, val |-> n, pos |-> pos + Len(Number(n)) + 2]
<1> DEFINE t == Number(n)
           m == Len(t)
           f == pos + m
<1>1. t \in Seq(DigitChars) /\ m > 0 /\ SpelledBy(t)[m] = n
  BY NumberSpells
<1>2. DigitChars \subseteq Bytes /\ "CR" \notin DigitChars /\ "-" \notin DigitChars
  <2>1. DigitChars \subseteq Bytes
    BY ConnAssumption DEF DigitChars
  <2> QED BY <2>1 DEF DigitChars, DigitValue
<1> HIDE DEF t
<1>3. m \in Nat /\ t \in Seq(Bytes) /\ m <= MAX_DIGITS
  <2>1. t \in Seq(Bytes)
    BY <1>1, <1>2, SeqMonotonic
  <2>2. m \in Nat
    BY <1>1
  <2> QED BY <2>1, <2>2 DEF t
<1>4. \A j \in 1 .. m : t[j] \in DigitChars /\ t[j] # "CR" /\ t[j] # "-" /\ d[pos + j] = t[j]
  <2>1. \A j \in 1 .. m : t[j] \in DigitChars
    BY <1>1
  <2>2. \A j \in 1 .. m : d[pos + j] = t[j]
    BY DEF At, t
  <2> QED BY <2>1, <2>2, <1>2
<1> HIDE DEF m
<1>5. f \in Nat /\ f + 2 <= Len(d) /\ d[f + 1] = "CR" /\ d[f + 2] = "LF"
  <2>1. CRLF[1] = "CR" /\ CRLF[2] = "LF" /\ Len(CRLF) = 2
    BY DEF CRLF
  <2>2. f + Len(CRLF) <= Len(d) /\ \A j \in 1 .. Len(CRLF) : d[f + j] = CRLF[j]
    BY DEF At, m, t
  <2> QED BY <2>1, <2>2, <1>3
<1>6. FirstCrlf(d, pos, f)
  <2>1. f \in pos .. (Len(d) - 2) /\ CrlfAt(d, f)
    <3>1. Len(d) \in Nat
      OBVIOUS
    <3> QED BY <3>1, <1>3, <1>5 DEF CrlfAt
  <2>2. ASSUME NEW i \in pos .. (f - 1) PROVE ~ CrlfAt(d, i)
    <3>1. (i + 1) - pos \in 1 .. m /\ pos + ((i + 1) - pos) = i + 1
      BY <1>3
    <3>2. d[i + 1] # "CR"
      BY <3>1, <1>4
    <3> QED BY <3>2 DEF CrlfAt
  <2> QED BY <2>1, <2>2 DEF FirstCrlf
<1>7. buffer_find_crlf(d, pos) = f
  BY <1>6, CrlfUnique
<1>8. SubSeq(d, pos + 1, f) = t
  BY <1>3, CutOut DEF t, m
<1>9. read_integer(d, pos) = IntegerIn(t, pos, f)
  <2>1. f # -1
    BY <1>5
  <2> HIDE DEF f
  <2> QED BY <2>1, <1>7, <1>8 DEF read_integer, IntegerUpTo
<1>10. IsNumber(t)
  <2>1. 0 \in 0 .. (m - 1) /\ m \in Nat /\ MAX_DIGITS \in Nat
    BY <1>1, <1>3, ParserAssumption DEF m
  <2>2. /\ \A j \in 1 .. 0 : IsSpace(t[j]) \/ (j = 0 /\ t[j] \in {"+", "-"})
        /\ \A j \in (0 + 1) .. m : IsDigit(t[j])
    BY <1>3, <1>4 DEF IsDigit, DigitChars
  <2> QED BY <2>1, <2>2 DEF IsNumber, m
<1>11. Len(t) \in 1 .. MAX_DIGITS
  BY <1>1, <1>3, ParserAssumption DEF m
<1>12. strtol(t) = n
  <2>1. ~ Contains(t, "-")
    BY <1>4 DEF Contains, m
  <2> QED BY <2>1, <1>1, StrtolIs DEF m
<1>13. IntegerIn(t, pos, f) = [res |-> PARSE_OK, val |-> n, pos |-> f + 2]
  BY <1>10, <1>11, <1>12 DEF IntegerIn
<1> QED BY <1>9, <1>13 DEF m, t

\* Numbers and delimiters are texts.
LEMMA EncodingTypes ==
  /\ CRLF \in Seq(Bytes) /\ Len(CRLF) = 2
  /\ <<"$">> \in Seq(Bytes) /\ Len(<<"$">>) = 1 /\ <<"*">> \in Seq(Bytes) /\ Len(<<"*">>) = 1
  /\ \A n \in Nat : Number(n) \in Seq(Bytes) /\ Len(Number(n)) \in Nat \ {0}
<1>1. CRLF \in Seq(Bytes) /\ Len(CRLF) = 2
  BY ConnAssumption DEF CRLF
<1>2. <<"$">> \in Seq(Bytes) /\ Len(<<"$">>) = 1 /\ <<"*">> \in Seq(Bytes) /\ Len(<<"*">>) = 1
  BY ConnAssumption
<1>3. ASSUME NEW n \in Nat PROVE Number(n) \in Seq(Bytes) /\ Len(Number(n)) \in Nat \ {0}
  <2>1. DigitChars \subseteq Bytes
    BY ConnAssumption DEF DigitChars
  <2>2. Number(n) \in Seq(DigitChars) /\ Len(Number(n)) > 0
    BY NumberSpells
  <2> DEFINE t == Number(n)
  <2> HIDE DEF t
  <2>3. t \in Seq(DigitChars) /\ Len(t) > 0
    BY <2>2 DEF t
  <2>4. t \in Seq(Bytes)
    BY <2>1, <2>3, SeqMonotonic
  <2> QED BY <2>3, <2>4 DEF t
<1> QED BY <1>1, <1>2, <1>3

\* Two sequences of bytes, one after the other.
LEMMA ConcatBytes ==
  ASSUME NEW a \in Seq(Bytes), NEW b \in Seq(Bytes)
  PROVE  /\ a \o b \in Seq(Bytes)
         /\ Len(a \o b) = Len(a) + Len(b) /\ Len(a) \in Nat /\ Len(b) \in Nat
BY ConcatProperties

\* A number as it is announced: a byte c, the number n, CRLF.
Announced(c, n) == <<c>> \o Number(n) \o CRLF

\* It takes three bytes more than the number.
LEMMA AnnouncedBytes ==
  ASSUME NEW c \in Bytes, NEW n \in Nat
  PROVE  /\ Announced(c, n) \in Seq(Bytes)
         /\ Len(Announced(c, n)) = Len(Number(n)) + 3
         /\ Len(Announced(c, n)) \in Nat /\ Len(Announced(c, n)) > 3
<1> DEFINE t == Number(n)
           a == <<c>> \o t
<1>1. t \in Seq(Bytes) /\ Len(t) \in Nat \ {0}
  BY EncodingTypes
<1>2. <<c>> \in Seq(Bytes) /\ Len(<<c>>) = 1
  OBVIOUS
<1> HIDE DEF t
<1>3. a \in Seq(Bytes) /\ Len(a) = 1 + Len(t)
  BY <1>1, <1>2, ConcatBytes
<1> HIDE DEF a
<1>4. a \o CRLF \in Seq(Bytes) /\ Len(a \o CRLF) = Len(a) + 2
  BY <1>3, EncodingTypes, ConcatBytes
<1>5. Len(a \o CRLF) = Len(t) + 3 /\ Len(t) + 3 \in Nat /\ Len(t) + 3 > 3
  BY <1>1, <1>3, <1>4
<1> QED BY <1>4, <1>5 DEF Announced, a, t

\* The announced number is what is read.
LEMMA AnnouncedRead ==
  ASSUME NEW d \in Seq(Bytes), NEW pos \in Nat, NEW c \in Bytes, NEW n \in Nat,
         Len(Number(n)) <= MAX_DIGITS, At(d, pos, Announced(c, n))
  PROVE  /\ d[pos + 1] = c /\ pos + 1 <= Len(d)
         /\ read_integer(d, pos + 1) =
              [res |-> PARSE_OK, val |-> n, pos |-> pos + Len(Announced(c, n))]
<1> DEFINE t == Number(n)
           o == <<c>>
           a == o \o t
<1>1. t \in Seq(Bytes) /\ Len(t) \in Nat
  BY EncodingTypes
<1>2. o \in Seq(Bytes) /\ Len(o) = 1 /\ o[1] = c
  OBVIOUS
<1>3. At(d, pos, a \o CRLF) /\ Len(Announced(c, n)) = Len(t) + 3
  BY AnnouncedBytes DEF Announced
<1>4. At(d, pos + 1, t) <=> At(d, pos + 1, Number(n))
  OBVIOUS
<1> HIDE DEF t, o
<1>5. a \in Seq(Bytes) /\ Len(a) = 1 + Len(t)
  BY <1>1, <1>2, ConcatBytes
<1>6. At(d, pos, a) /\ At(d, pos + Len(a), CRLF)
  <2> HIDE DEF a
  <2> QED BY <1>3, <1>5, EncodingTypes, AtConcat
<1>7. At(d, pos, o) /\ At(d, pos + 1, t)
  BY <1>1, <1>2, <1>6, AtConcat
<1>8. d[pos + 1] = c /\ pos + 1 <= Len(d)
  BY <1>2, <1>7 DEF At
<1> HIDE DEF a
<1>9. pos + 1 \in Nat /\ pos + Len(a) = (pos + 1) + Len(t)
      /\ (pos + 1) + Len(t) + 2 = pos + (Len(t) + 3)
  BY <1>1, <1>5
<1>10. read_integer(d, pos + 1) = [res |-> PARSE_OK, val |-> n, pos |-> (pos + 1) + Len(t) + 2]
  <2>1. At(d, (pos + 1) + Len(t), CRLF)
    BY <1>6, <1>9
  <2> QED BY <2>1, <1>7, <1>9, NumberRead DEF t
<1> QED BY <1>3, <1>8, <1>9, <1>10

\* A string, as clients write it.
LEMMA StringBytes ==
  ASSUME NEW s \in Seq(Bytes)
  PROVE  /\ Announced("$", Len(s)) \in Seq(Bytes) /\ Len(Announced("$", Len(s))) \in Nat
         /\ Announced("$", Len(s)) \o s \in Seq(Bytes)
         /\ EncodeString(s) = (Announced("$", Len(s)) \o s) \o CRLF
         /\ EncodeString(s) \in Seq(Bytes)
         /\ Len(EncodeString(s)) = Len(Announced("$", Len(s))) + Len(s) + 2
         /\ Len(Announced("$", Len(s)) \o s) = Len(Announced("$", Len(s))) + Len(s)
<1> DEFINE a == Announced("$", Len(s))
           b == a \o s
<1>1. Len(s) \in Nat /\ "$" \in Bytes
  BY ConnAssumption
<1>2. a \in Seq(Bytes) /\ Len(a) \in Nat
  BY <1>1, AnnouncedBytes
<1>3. EncodeString(s) = b \o CRLF
  BY DEF EncodeString, Announced
<1> HIDE DEF a
<1>4. b \in Seq(Bytes) /\ Len(b) = Len(a) + Len(s)
  BY <1>2, ConcatBytes
<1> HIDE DEF b
<1>5. b \o CRLF \in Seq(Bytes) /\ Len(b \o CRLF) = Len(b) + 2
  BY <1>4, EncodingTypes, ConcatBytes
<1> QED BY <1>2, <1>3, <1>4, <1>5 DEF a, b

\* It is read as this string.
LEMMA StringRead ==
  ASSUME NEW d \in Seq(Bytes), NEW pos \in Nat, NEW s \in Seq(Bytes), Len(s) <= MAX_STR_LEN,
         At(d, pos, EncodeString(s))
  PROVE  read_bulk_string(d, pos) =
           [res |-> PARSE_OK, str |-> s, pos |-> pos + Len(EncodeString(s))]
<1> DEFINE a == Announced("$", Len(s))
           b == a \o s
           e == EncodeString(s)
           n == read_integer(d, pos + 1)
           p == pos + Len(a)
<1>0. Len(s) \in Nat /\ Len(d) \in Nat /\ MAX_STR_LEN \in Nat /\ "$" \in Bytes
  BY ParserAssumption, ConnAssumption
<1>1. /\ a \in Seq(Bytes) /\ Len(a) \in Nat /\ b \in Seq(Bytes) /\ e = b \o CRLF
      /\ Len(b) = Len(a) + Len(s) /\ Len(e) = Len(a) + Len(s) + 2
  BY StringBytes
<1>2. At(d, pos, e)
  OBVIOUS
<1>3. Len(Number(Len(s))) <= MAX_DIGITS
  <2>1. Len(s) \in 0 .. MAX_STR_LEN
    BY <1>0
  <2> QED BY <2>1, ConnAssumption
<1>4. At(d, pos, a) => /\ d[pos + 1] = "$" /\ pos + 1 <= Len(d)
                       /\ n = [res |-> PARSE_OK, val |-> Len(s), pos |-> p]
  BY <1>0, <1>3, AnnouncedRead
<1> HIDE DEF a, e, n
<1>5. At(d, pos, b) /\ At(d, pos + Len(b), CRLF)
  <2> HIDE DEF b
  <2> QED BY <1>1, <1>2, EncodingTypes, AtConcat
<1>6. At(d, pos, a) /\ At(d, pos + Len(a), s)
  BY <1>1, <1>5, AtConcat
<1>7. read_bulk_string(d, pos) = BulkData(d, n)
  <2>1. buffer_peek(d, pos) = "$"
    BY <1>4, <1>6 DEF buffer_peek, buffer_has_bytes
  <2> QED BY <2>1 DEF read_bulk_string, n
<1> HIDE DEF b
<1>8. p \in Nat /\ pos + Len(b) = p + Len(s) /\ p + Len(s) + 2 = pos + Len(e)
  BY <1>0, <1>1
<1>9. SubSeq(d, p + 1, p + Len(s)) = s
  <2> HIDE DEF p
  <2>1. At(d, p, s)
    BY <1>6 DEF p
  <2> QED BY <2>1, <1>8, CutOut
<1> HIDE DEF p
<1>10. CrlfAt(d, p + Len(s)) /\ p + (Len(s) + 2) <= Len(d)
  <2>1. CRLF[1] = "CR" /\ CRLF[2] = "LF" /\ Len(CRLF) = 2
    BY DEF CRLF
  <2>2. At(d, p + Len(s), CRLF)
    BY <1>5, <1>8
  <2> QED BY <2>1, <2>2, <1>0, <1>8 DEF At, CrlfAt
<1>11. BulkData(d, n) = [res |-> PARSE_OK, str |-> s, pos |-> p + Len(s) + 2]
  <2>1. /\ n.res = PARSE_OK /\ n.val = Len(s) /\ n.pos = p
        /\ Len(s) # -1 /\ Len(s) \in 0 .. MAX_STR_LEN
    BY <1>0, <1>4, <1>6
  <2> QED BY <2>1, <1>9, <1>10 DEF BulkData, buffer_has_bytes
<1> QED BY <1>7, <1>8, <1>11 DEF e

\* The parts of a text that is found at pos are found one after the other.
LEMMA JoinedAt ==
  ASSUME NEW d \in Seq(Bytes), NEW pos \in Nat, NEW ss \in Seq(Seq(Bytes)),
         NEW g \in [0 .. Len(ss) -> Seq(Bytes)], Joins(g, ss), At(d, pos, g[Len(ss)])
  PROVE  \A i \in 1 .. Len(ss) : At(d, pos + Len(g[i - 1]), ss[i])
<1> DEFINE n == Len(ss)
           T == {i \in 0 .. n : At(d, pos, g[n - i])}
<1>0. n \in Nat
  OBVIOUS
<1>1. \A i \in 1 .. n : g[i] = g[i - 1] \o ss[i]
  BY Zenon DEF Joins
<1>2. \A i \in 1 .. n : i - 1 \in 0 .. n /\ i \in 0 .. n /\ ss[i] \in Seq(Bytes)
  BY <1>0
<1>3. At(d, pos, g[n])
  OBVIOUS
<1> HIDE DEF n
<1>4. g \in [0 .. n -> Seq(Bytes)]
  BY DEF n
<1>5. ASSUME NEW i \in 1 .. n, At(d, pos, g[i])
      PROVE  At(d, pos, g[i - 1]) /\ At(d, pos + Len(g[i - 1]), ss[i])
  <2>1. g[i - 1] \in Seq(Bytes) /\ ss[i] \in Seq(Bytes) /\ At(d, pos, g[i - 1] \o ss[i])
    BY <1>1, <1>2, <1>4, <1>5
  <2> QED BY <2>1, AtConcat
<1>6. 0 \in T
  <2>1. n - 0 = n /\ 0 \in 0 .. n
    BY <1>0
  <2> QED BY <2>1, <1>3
<1>7. ASSUME NEW i \in 0 .. (n - 1), i \in T PROVE i + 1 \in T
  <2>1. n - i \in 1 .. n /\ n - (i + 1) = (n - i) - 1 /\ i + 1 \in 0 .. n
    BY <1>0
  <2>2. At(d, pos, g[n - i])
    BY <1>7
  <2>3. At(d, pos, g[(n - i) - 1])
    BY <2>1, <2>2, <1>5
  <2> QED BY <2>1, <2>3
<1>8. \A i \in 0 .. n : i \in T
  <2> HIDE DEF T
  <2> QED BY <1>0, <1>6, <1>7, Induction
<1>9. ASSUME NEW i \in 1 .. n PROVE At(d, pos, g[i])
  <2>1. n - i \in 0 .. n /\ n - (n - i) = i
    BY <1>0
  <2>2. At(d, pos, g[n - (n - i)])
    BY <2>1, <1>8
  <2> QED BY <2>1, <2>2
<1>10. \A i \in 1 .. n : At(d, pos + Len(g[i - 1]), ss[i])
  BY <1>5, <1>9
<1> QED BY <1>10 DEF n

\* A sequence grows by its next element.
LEMMA NextPart ==
  ASSUME NEW S, NEW s \in Seq(S), NEW i \in 0 .. (Len(s) - 1)
  PROVE  /\ SubSeq(s, 1, i) \in Seq(S) /\ Len(SubSeq(s, 1, i)) = i
         /\ SubSeq(s, 1, i + 1) = Append(SubSeq(s, 1, i), s[i + 1])
<1> DEFINE a == SubSeq(s, 1, i)
           b == SubSeq(s, 1, i + 1)
           c == Append(a, s[i + 1])
<1>0. Len(s) \in Nat /\ i + 1 \in 1 .. Len(s) /\ i \in Nat
  OBVIOUS
<1>1. \A j \in 1 .. (i + 1) : j \in 1 .. Len(s) /\ s[j] \in S
  BY <1>0
<1>2. a \in Seq(S) /\ Len(a) = i /\ \A j \in 1 .. i : a[j] = s[j]
  <2>1. /\ a \in Seq(S) /\ Len(a) = IF 1 <= i THEN i - 1 + 1 ELSE 0
        /\ \A j \in 1 .. (i - 1 + 1) : a[j] = s[1 + j - 1]
    <3>1. \A j \in 1 .. i : s[j] \in S
      BY <1>0, <1>1
    <3> QED BY <3>1, <1>0, SubSeqProperties
  <2> HIDE DEF a
  <2> QED BY <2>1, <1>0
<1>3. b \in Seq(S) /\ Len(b) = i + 1 /\ \A j \in 1 .. (i + 1) : b[j] = s[j]
  <2>1. /\ b \in Seq(S) /\ Len(b) = IF 1 <= i + 1 THEN (i + 1) - 1 + 1 ELSE 0
        /\ \A j \in 1 .. ((i + 1) - 1 + 1) : b[j] = s[1 + j - 1]
    BY <1>1, <1>0, SubSeqProperties
  <2> HIDE DEF b
  <2> QED BY <2>1, <1>0
<1> HIDE DEF a, b
<1>4. s[i + 1] \in S
  BY <1>0
<1>5. c \in Seq(S) /\ Len(c) = i + 1 /\ c[i + 1] = s[i + 1] /\ \A j \in 1 .. i : c[j] = a[j]
  BY <1>2, <1>4
<1> HIDE DEF c
<1>6. ASSUME NEW j \in 1 .. Len(b) PROVE b[j] = c[j]
  <2>1. j \in 1 .. (i + 1) /\ (j \in 1 .. i \/ j = i + 1)
    BY <1>0, <1>3
  <2> QED BY <2>1, <1>2, <1>3, <1>5
<1>7. b = c
  BY <1>3, <1>5, <1>6, SeqEqual
<1> QED BY <1>2, <1>7 DEF a, b, c

\* The strings of a command, as clients write them.
Strung(cmd) == [i \in DOMAIN cmd |-> EncodeString(cmd[i])]

\* What a command takes.
LEMMA CommandBytes ==
  ASSUME NEW cmd \in Seq(Seq(Bytes))
  PROVE  /\ Encode(cmd) = Announced("*", Len(cmd)) \o FlattenSeq(Strung(cmd))
         /\ Strung(cmd) \in Seq(Seq(Bytes)) /\ Len(Strung(cmd)) = Len(cmd)
         /\ \A i \in 1 .. Len(cmd) : Strung(cmd)[i] = EncodeString(cmd[i])
         /\ FlattenSeq(Strung(cmd)) \in Seq(Bytes)
         /\ Announced("*", Len(cmd)) \in Seq(Bytes)
         /\ Encode(cmd) \in Seq(Bytes)
         /\ Len(Encode(cmd)) = Len(Announced("*", Len(cmd))) + Len(FlattenSeq(Strung(cmd)))
         /\ Len(Announced("*", Len(cmd))) \in Nat /\ Len(Announced("*", Len(cmd))) > 3
         /\ Len(Encode(cmd)) \in Nat /\ Len(Encode(cmd)) > 3
<1> DEFINE a == Announced("*", Len(cmd))
           t == Strung(cmd)
           n == Len(cmd)
<1>0. n \in Nat /\ DOMAIN cmd = 1 .. n /\ "*" \in Bytes
  BY ConnAssumption
<1>1. \A i \in 1 .. n : cmd[i] \in Seq(Bytes) /\ EncodeString(cmd[i]) \in Seq(Bytes)
  <2>1. ASSUME NEW i \in 1 .. n PROVE cmd[i] \in Seq(Bytes)
    BY <1>0
  <2>2. \A s \in Seq(Bytes) : EncodeString(s) \in Seq(Bytes)
    BY StringBytes
  <2> QED BY <2>1, <2>2
<1>2. t = [i \in 1 .. n |-> EncodeString(cmd[i])]
  BY <1>0 DEF Strung
<1>3. t \in Seq(Seq(Bytes)) /\ Len(t) = n /\ \A i \in 1 .. n : t[i] = EncodeString(cmd[i])
  <2> HIDE DEF t, n
  <2> QED BY <1>0, <1>1, <1>2
<1>4. Encode(cmd) = a \o FlattenSeq(t)
  BY DEF Encode, Announced, Strung
<1>5. a \in Seq(Bytes) /\ Len(a) \in Nat /\ Len(a) > 3
  BY <1>0, AnnouncedBytes
<1> HIDE DEF a, t
<1>6. FlattenSeq(t) \in Seq(Bytes)
  <2>1. PICK g \in [0 .. Len(t) -> Seq(Bytes)] : Joins(g, t)
    BY <1>3, JoinsExist
  <2>2. FlattenSeq(t) = g[Len(t)]
    BY <1>3, <2>1, FlattenJoins
  <2>3. Len(t) \in 0 .. Len(t)
    BY <1>0, <1>3
  <2> QED BY <2>1, <2>2, <2>3
<1>7. /\ Encode(cmd) \in Seq(Bytes) /\ Len(Encode(cmd)) = Len(a) + Len(FlattenSeq(t))
      /\ Len(FlattenSeq(t)) \in Nat
  BY <1>4, <1>5, <1>6, ConcatBytes
<1>8. Len(Encode(cmd)) \in Nat /\ Len(Encode(cmd)) > 3
  BY <1>5, <1>7
<1> QED BY <1>3, <1>4, <1>5, <1>6, <1>7, <1>8 DEF a, t, n

\* A command within the limits is read as it was written, whatever follows it.
LEMMA CommandRead ==
  ASSUME NEW d \in Seq(Bytes), NEW cmd \in Seq(Seq(Bytes)), WithinLimits(cmd),
         At(d, 0, Encode(cmd))
  PROVE  Meaning(d) = [consumed |-> Len(Encode(cmd)), elements |-> cmd]
<1> USE DEF PARSE_OK, PARSE_INCOMPLETE, PARSE_ERROR
<1> DEFINE a == Announced("*", Len(cmd))
           t == Strung(cmd)
           n == Len(cmd)
           h == Len(a)
           number == read_integer(d, 1)
<1>0. /\ n \in Nat /\ n \in 1 .. MAX_ARGS /\ MAX_ARGS \in Nat /\ "*" \in Bytes
      /\ MIN_BUFFER_SIZE \in 2 .. 4 /\ Len(d) \in Nat
      /\ \A i \in 1 .. n : cmd[i] \in Seq(Bytes) /\ Len(cmd[i]) <= MAX_STR_LEN
  BY ParserAssumption, ConnAssumption DEF WithinLimits
<1>1. /\ Encode(cmd) = a \o FlattenSeq(t) /\ t \in Seq(Seq(Bytes)) /\ Len(t) = n
      /\ \A i \in 1 .. n : t[i] = EncodeString(cmd[i])
      /\ FlattenSeq(t) \in Seq(Bytes) /\ a \in Seq(Bytes) /\ h \in Nat /\ h > 3
      /\ Len(Encode(cmd)) = h + Len(FlattenSeq(t))
  BY CommandBytes
<1>2. Len(Number(n)) <= MAX_DIGITS
  <2>1. n \in 0 .. MAX_ARGS
    BY <1>0
  <2> QED BY <2>1, ConnAssumption
<1>3. At(d, 0, a) => /\ d[0 + 1] = "*" /\ 0 + 1 <= Len(d)
                     /\ read_integer(d, 0 + 1) = [res |-> PARSE_OK, val |-> n, pos |-> 0 + Len(a)]
  BY <1>0, <1>2, AnnouncedRead
<1> HIDE DEF a, t, n
<1>4. At(d, 0, a) /\ At(d, 0 + Len(a), FlattenSeq(t))
  BY <1>1, AtConcat
<1> HIDE DEF h
<1>5. /\ d[1] = "*" /\ number = [res |-> PARSE_OK, val |-> n, pos |-> h]
      /\ At(d, h, FlattenSeq(t)) /\ h <= Len(d) /\ h \in 0 .. Len(d)
  <2>1. 0 + 1 = 1 /\ 0 + Len(a) = h
    BY <1>1 DEF h
  <2>2. d[1] = "*" /\ number = [res |-> PARSE_OK, val |-> n, pos |-> h] /\ At(d, h, FlattenSeq(t))
    BY <1>3, <1>4, <2>1
  <2>3. h + Len(FlattenSeq(t)) <= Len(d) /\ Len(FlattenSeq(t)) \in Nat
    BY <1>1, <2>2 DEF At
  <2> QED BY <2>2, <2>3, <1>0, <1>1
<1> HIDE DEF number
<1>6. Meaning(d) = CommandOf(ReadElements(d, h, n))
  <2>1. Meaning(d) = Told(d, number)
    BY <1>0, <1>1, <1>5, ParseCases DEF number
  <2>2. number.res = PARSE_OK /\ number.val = n /\ number.pos = h
    BY <1>5
  <2> QED BY <2>1, <2>2, <1>0, HeaderCases
<1>7. PICK g \in [0 .. n -> Seq(Bytes)] : Joins(g, t) /\ FlattenSeq(t) = g[n]
  <2>1. PICK g \in [0 .. Len(t) -> Seq(Bytes)] : Joins(g, t)
    BY <1>1, JoinsExist
  <2>2. FlattenSeq(t) = g[Len(t)]
    BY <1>1, <2>1, FlattenJoins
  <2> QED BY <2>1, <2>2, <1>1
<1>8. \A i \in 1 .. n : At(d, h + Len(g[i - 1]), t[i]) /\ g[i] = g[i - 1] \o t[i]
  <2>1. g \in [0 .. Len(t) -> Seq(Bytes)] /\ At(d, h, g[Len(t)])
    BY <1>1, <1>5, <1>7
  <2>2. \A i \in 1 .. Len(t) : At(d, h + Len(g[i - 1]), t[i])
    BY <1>1, <1>7, <2>1, JoinedAt
  <2>3. \A i \in 1 .. Len(t) : g[i] = g[i - 1] \o t[i]
    BY <1>7, Zenon DEF Joins
  <2> QED BY <2>2, <2>3, <1>1
<1> DEFINE r == RoundsOf(d, h, n)
           st(i) == [res |-> PARSE_OK, pos |-> h + Len(g[i]), elements |-> SubSeq(cmd, 1, i)]
           T == {i \in 0 .. n : r[i] = st(i)}
<1>9. /\ r[0] = AtFirst(h)
      /\ \A i \in 1 .. n : r[i] = NextElement(d, r[i - 1])
  BY <1>0, <1>5, RoundsExist
<1> HIDE DEF r
<1>10. 0 \in T
  <2>1. g[0] = << >> /\ h + Len(g[0]) = h
    BY <1>1, <1>7 DEF Joins
  <2>2. SubSeq(cmd, 1, 0) = << >>
    BY SubSeqEmpty
  <2>3. 0 \in 0 .. n
    BY <1>0
  <2> QED BY <2>1, <2>2, <2>3, <1>9 DEF AtFirst
<1>11. ASSUME NEW i \in 0 .. (n - 1), i \in T PROVE i + 1 \in T
  <2> DEFINE s == cmd[i + 1]
             p == h + Len(g[i])
             b == read_bulk_string(d, p)
  <2>1. i + 1 \in 1 .. n /\ i + 1 \in 0 .. n /\ i \in 0 .. n /\ (i + 1) - 1 = i
    BY <1>0
  <2>2. s \in Seq(Bytes) /\ Len(s) <= MAX_STR_LEN
    BY <2>1, <1>0
  <2>3. g[i] \in Seq(Bytes) /\ Len(g[i]) \in Nat /\ p \in Nat /\ h \in Nat
    <3>1. g[i] \in Seq(Bytes)
      BY <2>1, <1>7
    <3>2. Len(g[i]) \in Nat
      BY <3>1
    <3> QED BY <3>1, <3>2, <1>1
  <2>4. t[i + 1] = EncodeString(s) /\ t[i + 1] \in Seq(Bytes) /\ g[i + 1] = g[i] \o t[i + 1]
    <3>1. g[i + 1] = g[(i + 1) - 1] \o t[i + 1]
      BY <2>1, <1>8
    <3>2. EncodeString(s) \in Seq(Bytes)
      BY <2>2, StringBytes
    <3> QED BY <3>1, <3>2, <2>1, <1>1
  <2>5. At(d, p, EncodeString(s))
    <3>1. At(d, h + Len(g[(i + 1) - 1]), t[i + 1])
      BY <2>1, <1>8
    <3> QED BY <3>1, <2>1, <2>4
  <2>6. b = [res |-> PARSE_OK, str |-> s, pos |-> p + Len(EncodeString(s))]
    <3> HIDE DEF p, s
    <3> QED BY <2>2, <2>3, <2>5, StringRead
  <2>7. p + Len(EncodeString(s)) = h + Len(g[i + 1])
    <3>1. Len(g[i + 1]) = Len(g[i]) + Len(EncodeString(s)) /\ Len(EncodeString(s)) \in Nat
      BY <2>3, <2>4, ConcatBytes
    <3>2. PICK x \in Nat, y \in Nat : x = Len(g[i]) /\ y = Len(EncodeString(s))
      BY <3>1, <2>3
    <3>3. h + x + y = h + (x + y)
      BY <2>3
    <3> QED BY <3>1, <3>2, <3>3
  <2>8. SubSeq(cmd, 1, i + 1) = Append(SubSeq(cmd, 1, i), s)
    BY NextPart DEF n
  <2>9. r[i + 1] = NextElement(d, st(i))
    <3>1. r[i] = st(i)
      BY <1>11
    <3>2. r[i + 1] = NextElement(d, r[(i + 1) - 1])
      BY <2>1, <1>9
    <3> QED BY <3>1, <3>2, <2>1
  <2>10. NextElement(d, st(i)) = AddElement(st(i), b)
    BY DEF NextElement
  <2> HIDE DEF p, s, b
  <2>11. AddElement(st(i), b) = st(i + 1)
    BY <2>6, <2>7, <2>8 DEF AddElement
  <2> QED BY <2>1, <2>9, <2>10, <2>11
<1>12. \A i \in 0 .. n : i \in T
  <2> HIDE DEF T
  <2> QED BY <1>0, <1>10, <1>11, Induction
<1>13. ReadElements(d, h, n) = st(n)
  <2>1. n \in 0 .. n
    BY <1>0
  <2> QED BY <2>1, <1>12, ReadElementsIs DEF r
<1>14. SubSeq(cmd, 1, n) = cmd
  BY DEF n
<1>15. CommandOf(st(n)) = [consumed |-> h + Len(g[n]), elements |-> cmd]
  BY <1>14 DEF CommandOf
<1> QED BY <1>1, <1>6, <1>7, <1>13, <1>15

\* The commands of a stream, as clients write them.
Encoded(cmds) == [i \in DOMAIN cmds |-> Encode(cmds[i])]

\* They are texts, one for each command.
LEMMA EncodedBytes ==
  ASSUME NEW cmds \in Seq(Seq(Seq(Bytes)))
  PROVE  /\ Encoded(cmds) \in Seq(Seq(Bytes)) /\ Len(Encoded(cmds)) = Len(cmds)
         /\ \A i \in 1 .. Len(cmds) : Encoded(cmds)[i] = Encode(cmds[i])
         /\ EncodeAll(cmds) = FlattenSeq(Encoded(cmds))
<1> DEFINE t == Encoded(cmds)
           n == Len(cmds)
<1>0. n \in Nat /\ DOMAIN cmds = 1 .. n
  OBVIOUS
<1>1. \A i \in 1 .. n : Encode(cmds[i]) \in Seq(Bytes)
  <2>1. \A c \in Seq(Seq(Bytes)) : Encode(c) \in Seq(Bytes)
    BY CommandBytes
  <2>2. ASSUME NEW i \in 1 .. n PROVE cmds[i] \in Seq(Seq(Bytes))
    BY <1>0
  <2> QED BY <2>1, <2>2
<1>2. t = [i \in 1 .. n |-> Encode(cmds[i])]
  BY <1>0 DEF Encoded
<1>3. EncodeAll(cmds) = FlattenSeq(t)
  BY DEF EncodeAll, Encoded
<1> HIDE DEF t, n
<1>4. t \in Seq(Seq(Bytes)) /\ Len(t) = n /\ \A i \in 1 .. n : t[i] = Encode(cmds[i])
  BY <1>0, <1>1, <1>2
<1> QED BY <1>3, <1>4 DEF t, n

\* The commands of a stream are found in it one after the other.
LEMMA StreamParts ==
  ASSUME NEW cmds \in Seq(Seq(Seq(Bytes))), NEW m \in 0 .. Len(cmds)
  PROVE  /\ EncodeAll(SubSeq(cmds, 1, m)) \in Seq(Bytes) /\ EncodeAll(cmds) \in Seq(Bytes)
         /\ m = 0 => EncodeAll(SubSeq(cmds, 1, m)) = << >>
         /\ m = Len(cmds) => EncodeAll(SubSeq(cmds, 1, m)) = EncodeAll(cmds)
         /\ m < Len(cmds) =>
              /\ EncodeAll(SubSeq(cmds, 1, m + 1)) =
                   EncodeAll(SubSeq(cmds, 1, m)) \o Encode(cmds[m + 1])
              /\ At(EncodeAll(cmds), Len(EncodeAll(SubSeq(cmds, 1, m))), Encode(cmds[m + 1]))
<1> DEFINE t == Encoded(cmds)
           n == Len(cmds)
           e == EncodeAll(cmds)
<1>0. n \in Nat /\ m \in Nat /\ m <= n
  OBVIOUS
<1>1. /\ t \in Seq(Seq(Bytes)) /\ Len(t) = n /\ e = FlattenSeq(t)
      /\ \A i \in 1 .. n : t[i] = Encode(cmds[i])
  BY EncodedBytes
<1> HIDE DEF t, n, e
<1>2. PICK g \in [0 .. n -> Seq(Bytes)] :
        Joins(g, t) /\ \A i \in 0 .. n : FlattenSeq(SubSeq(t, 1, i)) = g[i]
  <2>1. PICK g \in [0 .. Len(t) -> Seq(Bytes)] :
          Joins(g, t) /\ \A i \in 0 .. Len(t) : FlattenSeq(SubSeq(t, 1, i)) = g[i]
    BY <1>1, JoinsExist
  <2> QED BY <2>1, <1>1
<1>3. e = g[n]
  BY <1>1, <1>2, FlattenJoins
<1>4. g[0] = << >> /\ \A i \in 1 .. n : g[i] = g[i - 1] \o t[i]
  <2>1. \A i \in 1 .. Len(t) : g[i] = g[i - 1] \o t[i]
    BY <1>2, Zenon DEF Joins
  <2>2. g[0] = << >>
    BY <1>2, Zenon DEF Joins
  <2> QED BY <2>1, <2>2, <1>1
<1>5. ASSUME NEW i \in 0 .. n PROVE EncodeAll(SubSeq(cmds, 1, i)) = g[i]
  <2> DEFINE a == SubSeq(cmds, 1, i)
             b == SubSeq(t, 1, i)
  <2>1. \A j \in 1 .. i : j \in 1 .. n /\ cmds[j] \in Seq(Seq(Bytes)) /\ t[j] \in Seq(Bytes)
    BY <1>0, <1>1 DEF n
  <2>2. a \in Seq(Seq(Seq(Bytes))) /\ Len(a) = i /\ \A j \in 1 .. i : a[j] = cmds[j]
    <3>1. /\ a \in Seq(Seq(Seq(Bytes))) /\ Len(a) = IF 1 <= i THEN i - 1 + 1 ELSE 0
          /\ \A j \in 1 .. (i - 1 + 1) : a[j] = cmds[1 + j - 1]
      BY <2>1, <1>0, SubSeqProperties
    <3> HIDE DEF a
    <3> QED BY <3>1, <1>0
  <2>3. b \in Seq(Seq(Bytes)) /\ Len(b) = i /\ \A j \in 1 .. i : b[j] = t[j]
    <3>1. /\ b \in Seq(Seq(Bytes)) /\ Len(b) = IF 1 <= i THEN i - 1 + 1 ELSE 0
          /\ \A j \in 1 .. (i - 1 + 1) : b[j] = t[1 + j - 1]
      BY <2>1, <1>0, SubSeqProperties
    <3> HIDE DEF b
    <3> QED BY <3>1, <1>0
  <2>4. FlattenSeq(b) = g[i]
    BY <1>2
  <2> HIDE DEF a, b
  <2>5. /\ Encoded(a) \in Seq(Seq(Bytes)) /\ Len(Encoded(a)) = Len(a)
        /\ \A j \in 1 .. Len(a) : Encoded(a)[j] = Encode(a[j])
        /\ EncodeAll(a) = FlattenSeq(Encoded(a))
    BY <2>2, EncodedBytes
  <2>6. ASSUME NEW j \in 1 .. Len(b) PROVE Encoded(a)[j] = b[j]
    BY <1>1, <2>1, <2>2, <2>3, <2>5
  <2>7. Encoded(a) = b
    BY <2>2, <2>3, <2>5, <2>6, SeqEqual
  <2> QED BY <2>4, <2>5, <2>7 DEF a
<1>6. n \in 0 .. n /\ m \in 0 .. n
  BY <1>0
<1>7. e \in Seq(Bytes) /\ g[m] \in Seq(Bytes)
  BY <1>2, <1>3, <1>6
<1>8. ASSUME m < n
      PROVE  g[m + 1] = g[m] \o Encode(cmds[m + 1]) /\ At(e, Len(g[m]), Encode(cmds[m + 1]))
  <2>1. m + 1 \in 1 .. n /\ (m + 1) - 1 = m
    BY <1>0, <1>8
  <2>2. t[m + 1] = Encode(cmds[m + 1]) /\ g[m + 1] = g[m] \o t[m + 1]
    <3>1. g[m + 1] = g[(m + 1) - 1] \o t[m + 1]
      BY <1>4, <2>1
    <3> QED BY <3>1, <1>1, <2>1
  <2>3. At(e, 0, g[Len(t)])
    BY <1>1, <1>3, <1>7 DEF At
  <2>4. \A i \in 1 .. Len(t) : At(e, 0 + Len(g[i - 1]), t[i])
    <3>1. g \in [0 .. Len(t) -> Seq(Bytes)] /\ 0 \in Nat
      BY <1>1, <1>2
    <3> QED BY <3>1, <1>1, <1>2, <1>7, <2>3, JoinedAt
  <2>5. At(e, 0 + Len(g[(m + 1) - 1]), t[m + 1])
    BY <1>1, <2>1, <2>4
  <2>6. 0 + Len(g[m]) = Len(g[m])
    BY <1>7
  <2> QED BY <2>1, <2>2, <2>5, <2>6
<1>9. /\ EncodeAll(SubSeq(cmds, 1, m)) = g[m]
      /\ m < n => EncodeAll(SubSeq(cmds, 1, m + 1)) = g[m + 1]
  <2>1. m < n => m + 1 \in 0 .. n
    BY <1>0
  <2> QED BY <2>1, <1>5, <1>6
<1> QED BY <1>3, <1>4, <1>7, <1>8, <1>9 DEF e, n

\* What is found behind a is found at the start of what follows a.
LEMMA AtSuffix ==
  ASSUME NEW a \in Seq(Bytes), NEW b \in Seq(Bytes), NEW s \in Seq(Bytes),
         At(a \o b, Len(a), s)
  PROVE  At(b, 0, s)
<1> DEFINE c == a \o b
           m == Len(a)
           n == Len(b)
           k == Len(s)
<1>0. m \in Nat /\ n \in Nat /\ k \in Nat
  OBVIOUS
<1>1. Len(c) = m + n /\ \A i \in 1 .. (m + n) : c[i] = IF i <= m THEN a[i] ELSE b[i - m]
  BY ConcatProperties
<1>2. m + k <= Len(c) /\ \A j \in 1 .. k : c[m + j] = s[j]
  BY DEF At
<1> HIDE DEF c, m, n, k
<1>3. 0 + k <= n
  BY <1>0, <1>1, <1>2
<1>4. ASSUME NEW j \in 1 .. k PROVE b[0 + j] = s[j]
  <2>1. m + j \in 1 .. (m + n) /\ ~ (m + j <= m) /\ (m + j) - m = j /\ 0 + j = j
    BY <1>0, <1>3
  <2> QED BY <2>1, <1>1, <1>2
<1> QED BY <1>3, <1>4 DEF At, n, k

\* What has arrived of a text, and what it begins with.
LEMMA ArrivedPrefix ==
  ASSUME NEW a \in Seq(Bytes), NEW b \in Seq(Bytes)
  PROVE  /\ Arrived(a, a \o b) /\ a \o b \in Seq(Bytes)
         /\ \A s \in Seq(Bytes) : At(a \o b, 0, s) /\ Len(s) <= Len(a) => At(a, 0, s)
<1> DEFINE c == a \o b
           m == Len(a)
           n == Len(b)
<1>0. m \in Nat /\ n \in Nat
  OBVIOUS
<1>1. /\ c \in Seq(Bytes) /\ Len(c) = m + n
      /\ \A i \in 1 .. (m + n) : c[i] = IF i <= m THEN a[i] ELSE b[i - m]
  BY ConcatProperties
<1> HIDE DEF c, m, n
<1>2. m <= Len(c) /\ \A i \in 1 .. m : c[i] = a[i]
  <2>1. \A i \in 1 .. m : i \in 1 .. (m + n) /\ i <= m
    BY <1>0
  <2> QED BY <2>1, <1>0, <1>1
<1>3. ASSUME NEW s \in Seq(Bytes), At(c, 0, s), Len(s) <= m PROVE At(a, 0, s)
  <2>1. Len(s) \in Nat /\ \A j \in 1 .. Len(s) : c[0 + j] = s[j]
    BY <1>3 DEF At
  <2>2. \A j \in 1 .. Len(s) : j \in 1 .. m /\ 0 + j = j
    BY <1>0, <1>3, <2>1
  <2>3. \A j \in 1 .. Len(s) : a[0 + j] = s[j]
    BY <1>2, <2>1, <2>2
  <2> QED BY <1>3, <2>1, <2>3 DEF At, m
<1> QED BY <1>1, <1>2, <1>3 DEF Arrived, c, m

\* A text that begins with s is s and what follows.
LEMMA CutOff ==
  ASSUME NEW d \in Seq(Bytes), NEW s \in Seq(Bytes), At(d, 0, s)
  PROVE  /\ SubSeq(d, Len(s) + 1, Len(d)) \in Seq(Bytes)
         /\ s \o SubSeq(d, Len(s) + 1, Len(d)) = d
<1> DEFINE k == Len(s)
           n == Len(d)
<1>0. k \in Nat /\ n \in Nat /\ k <= n
  BY DEF At
<1>1. SubSeq(d, 0 + 1, 0 + k) = s /\ 0 + 1 = 1 /\ 0 + k = k
  BY <1>0, CutOut
<1>2. SubSeq(d, 1, k) \o SubSeq(d, k + 1, n) = SubSeq(d, 1, n)
  <2>1. 1 \in 1 .. (n + 1) /\ k \in (1 - 1) .. n /\ n \in k .. n
    BY <1>0
  <2> QED BY <2>1, ConcatAdjacentSubSeq
<1>3. SubSeq(d, 1, n) = d
  OBVIOUS
<1>4. SubSeq(d, k + 1, n) \in Seq(Bytes)
  <2>1. \A i \in (k + 1) .. n : d[i] \in Bytes
    BY <1>0
  <2>2. k + 1 \in Int /\ n \in Int
    BY <1>0
  <2> HIDE DEF k, n
  <2> QED BY <2>1, <2>2, SubSeqProperties
<1> QED BY <1>1, <1>2, <1>3, <1>4

\* What is left of a stream of commands when the first m were read begins with
\* the next one, which is what the parser makes of it.
LEMMA NextCommand ==
  ASSUME NEW cmds \in Seq(Seq(Seq(Bytes))), \A i \in DOMAIN cmds : WithinLimits(cmds[i]),
         NEW m \in 0 .. Len(cmds), NEW rest \in Seq(Bytes),
         EncodeAll(SubSeq(cmds, 1, m)) \o rest = EncodeAll(cmds)
  PROVE  /\ m = Len(cmds) => rest = << >>
         /\ m < Len(cmds) =>
              /\ At(rest, 0, Encode(cmds[m + 1]))
              /\ Meaning(rest) = [consumed |-> Len(Encode(cmds[m + 1])), elements |-> cmds[m + 1]]
<1> DEFINE e == EncodeAll(SubSeq(cmds, 1, m))
<1>0. Len(cmds) \in Nat /\ m \in Nat
  OBVIOUS
<1>1. e \in Seq(Bytes) /\ (m = Len(cmds) => e = EncodeAll(cmds))
  BY StreamParts
<1>2. CASE m = Len(cmds)
  <2>1. e \o rest = e
    BY <1>1, <1>2
  <2> HIDE DEF e
  <2>2. rest = << >>
    BY <1>1, <2>1, ConcatEqualIffEmpty
  <2> QED BY <1>0, <1>2, <2>2
<1>3. CASE m < Len(cmds)
  <2> DEFINE c == cmds[m + 1]
  <2>1. c \in Seq(Seq(Bytes)) /\ WithinLimits(c)
    <3>1. m + 1 \in 1 .. Len(cmds) /\ m + 1 \in DOMAIN cmds
      BY <1>0, <1>3
    <3> QED BY <3>1
  <2>2. At(EncodeAll(cmds), Len(e), Encode(c))
    BY <1>3, StreamParts
  <2>3. Encode(c) \in Seq(Bytes)
    BY <2>1, CommandBytes
  <2>4. At(e \o rest, Len(e), Encode(c))
    BY <2>2
  <2> HIDE DEF c, e
  <2>5. At(rest, 0, Encode(c))
    BY <1>1, <2>3, <2>4, AtSuffix
  <2>6. Meaning(rest) = [consumed |-> Len(Encode(c)), elements |-> c]
    BY <2>1, <2>5, CommandRead
  <2> QED BY <1>0, <1>3, <2>5, <2>6 DEF c
<1> QED BY <1>0, <1>2, <1>3

\* A failed allocation yields no command, and is not mistaken for missing bytes.
LEMMA MemoryFails ==
  ASSUME NEW d \in Seq(Bytes), NEW memFails \in BOOLEAN
  PROVE  /\ resp_parse(d, memFails).consumed > 0 => resp_parse(d, memFails) = Meaning(d)
         /\ resp_parse(d, memFails).consumed = PARSE_INCOMPLETE =>
              Meaning(d).consumed = PARSE_INCOMPLETE
<1>1. CASE memFails = FALSE
  BY <1>1, Zenon DEF Meaning
<1>2. CASE memFails = TRUE
  <2> DEFINE n == read_integer(d, 1)
  <2>1. n.res \in {PARSE_OK, PARSE_INCOMPLETE, PARSE_ERROR}
    BY IntegerRead
  <2> HIDE DEF n
  <2>2. CASE Len(d) < MIN_BUFFER_SIZE
    BY <2>2 DEF resp_parse, Meaning
  <2>3. CASE ~ (Len(d) < MIN_BUFFER_SIZE) /\ d[1] # "*"
    BY <2>3 DEF resp_parse, Meaning
  <2>4. CASE ~ (Len(d) < MIN_BUFFER_SIZE) /\ d[1] = "*"
    <3>1. resp_parse(d, memFails) = AfterHeader(d, n, memFails) /\ Meaning(d) = Told(d, n)
      BY <2>4, ParseCases DEF resp_parse, n
    <3>2. n.res = PARSE_OK => AfterHeader(d, n, memFails) = Verdict(PARSE_ERROR)
      BY <1>2 DEF AfterHeader
    <3>3. n.res # PARSE_OK =>
            AfterHeader(d, n, memFails) = Verdict(n.res) /\ Told(d, n) = Verdict(n.res)
      BY DEF AfterHeader, Told
    <3> QED BY <2>1, <3>1, <3>2, <3>3, VerdictIs DEF PARSE_OK, PARSE_INCOMPLETE, PARSE_ERROR
  <2> QED BY <2>2, <2>3, <2>4
<1> QED BY <1>1, <1>2

-----------------------------------------------------------------------------
(* The connection.                                                         *)

\* Everything is made of bytes, and a client that sends commands sends no other
\* bytes than theirs.
Typed ==
  /\ sent \in Seq(Seq(Seq(Bytes))) /\ stream \in Seq(Bytes)
  /\ wire \in Seq(Bytes) /\ buffer \in Seq(Bytes)
  /\ Clean => stream = EncodeAll(sent) /\ \A i \in DOMAIN sent : WithinLimits(sent[i])

\* Up to the first error, what was dispatched and what is still to be parsed
\* or received is the stream, cut between two commands.
Aligned ==
  Clean /\ errors = << >> /\ pc # "closed" =>
    \E m \in 0 .. Len(sent) : /\ dispatched = SubSeq(sent, 1, m)
                              /\ EncodeAll(dispatched) \o (Pending \o wire) = stream

\* What is in the buffer when the thread waits for more is no command yet.
Waiting ==
  pc = "recv" /\ errors = << >> =>
    processed = 0 /\ (buffer = << >> \/ Meaning(buffer).consumed = PARSE_INCOMPLETE)

\* The inductive invariant.
IInv == TypeOK /\ Typed /\ Aligned /\ Waiting

\* The part of the buffer that is still to be parsed.
LEMMA PendingIs ==
  ASSUME TypeOK, Typed
  PROVE  /\ Pending \in Seq(Bytes) /\ Len(Pending) = Len(buffer) - processed
         /\ processed = 0 => Pending = buffer
         /\ Len(buffer) \in Nat /\ processed \in Nat /\ processed <= Len(buffer)
<1>1. buffer \in Seq(Bytes) /\ processed \in 0 .. Len(buffer)
  BY DEF TypeOK, Typed
<1>2. Len(buffer) \in Nat /\ processed \in Nat /\ processed <= Len(buffer)
  BY <1>1
<1>3. /\ Pending \in Seq(Bytes)
      /\ Len(Pending) = IF processed + 1 <= Len(buffer) THEN Len(buffer) - (processed + 1) + 1
                                                        ELSE 0
  <2>1. \A i \in (processed + 1) .. Len(buffer) : buffer[i] \in Bytes
    BY <1>1, <1>2
  <2>2. processed + 1 \in Int /\ Len(buffer) \in Int
    BY <1>2
  <2> QED BY <2>1, <2>2, SubSeqProperties DEF Pending
<1>4. Len(Pending) = Len(buffer) - processed
  BY <1>2, <1>3
<1>5. processed = 0 => Pending = buffer
  <2>1. SubSeq(buffer, 1, Len(buffer)) = buffer
    BY <1>1
  <2> QED BY <2>1 DEF Pending
<1> QED BY <1>2, <1>3, <1>4, <1>5

\* The invariant holds at the start.
LEMMA IInvInit ==
  Init => IInv
<1> SUFFICES ASSUME Init PROVE IInv
  OBVIOUS
<1>1. PICK t \in Traffic : sent = t.cmds /\ stream = t.bytes
  BY DEF Init
<1>2. /\ sent \in Seq(Seq(Seq(Bytes))) /\ stream \in Seq(Bytes)
      /\ sent # << >> => stream = EncodeAll(sent) /\ \A i \in DOMAIN sent : WithinLimits(sent[i])
  BY <1>1, ConnAssumption
<1>3. wire = stream /\ buffer = << >> /\ processed = 0 /\ dispatched = << >> /\ errors = << >>
      /\ pc = "recv" /\ running = TRUE /\ peer = "up"
  BY DEF Init
<1>4. Typed
  BY <1>2, <1>3 DEF Typed, Clean
<1>5. TypeOK
  <2>1. Len(buffer) = 0 /\ MAX_COMMAND_SIZE \in Nat /\ Len(wire) <= Len(stream)
    BY <1>2, <1>3, ConnAssumption
  <2>2. running \in BOOLEAN
    BY <1>3, Zenon
  <2> QED BY <2>1, <2>2, <1>3 DEF TypeOK
<1>6. Pending = << >>
  BY <1>3, <1>4, <1>5, PendingIs
<1>7. ASSUME Clean
      PROVE  /\ dispatched = SubSeq(sent, 1, 0)
             /\ EncodeAll(dispatched) \o (Pending \o wire) = stream
             /\ 0 \in 0 .. Len(sent)
  <2>1. Len(sent) \in Nat /\ 0 \in 0 .. Len(sent)
    BY <1>2
  <2>2. SubSeq(sent, 1, 0) = << >>
    BY SubSeqEmpty
  <2>3. EncodeAll(SubSeq(sent, 1, 0)) = << >>
    BY <1>2, <2>1, StreamParts
  <2>4. << >> \o wire = stream /\ << >> \o stream = stream
    BY <1>2, <1>3, ConcatEmptySeq
  <2> QED BY <1>3, <1>6, <2>1, <2>2, <2>3, <2>4
<1>8. Aligned
  BY <1>7 DEF Aligned
<1>9. Waiting
  BY <1>3 DEF Waiting
<1> QED BY <1>4, <1>5, <1>8, <1>9 DEF IInv

\* One more error reply.
LEMMA OneMore ==
  ASSUME NEW S, NEW s \in Seq(S), NEW e \in S
  PROVE  Append(s, e) \in Seq(S) /\ Append(s, e) # << >> /\ Append(s, e)[Len(s) + 1] = e
<1>1. Append(s, e) \in Seq(S) /\ Len(Append(s, e)) = Len(s) + 1 /\ Append(s, e)[Len(s) + 1] = e
  OBVIOUS
<1>2. Len(s) \in Nat /\ Len(<< >>) = 0
  OBVIOUS
<1> QED BY <1>1, <1>2

\* More bytes arrive.
LEMMA RecvKeeps ==
  ASSUME IInv, NEW n \in 1 .. Len(wire), Recv(n)
  PROVE  IInv'
<1> DEFINE chunk == SubSeq(wire, 1, n)
           left == SubSeq(wire, n + 1, Len(wire))
<1>0. TypeOK /\ Typed /\ Aligned /\ Waiting
  BY DEF IInv
<1>1. /\ wire \in Seq(Bytes) /\ Len(wire) \in Nat /\ stream \in Seq(Bytes) /\ Len(stream) \in Nat
      /\ buffer \in Seq(Bytes) /\ Len(buffer) \in Nat /\ Len(wire) <= Len(stream)
      /\ MAX_COMMAND_SIZE \in Nat
  <2>1. wire \in Seq(Bytes) /\ stream \in Seq(Bytes) /\ buffer \in Seq(Bytes)
    BY <1>0 DEF Typed
  <2>2. Len(wire) <= Len(stream) /\ MAX_COMMAND_SIZE \in Nat
    BY <1>0, ConnAssumption DEF TypeOK
  <2> QED BY <2>1, <2>2
<1>2. chunk \in Seq(Bytes) /\ Len(chunk) = n
  <2>1. \A i \in 1 .. n : wire[i] \in Bytes
    BY <1>1
  <2>2. chunk \in Seq(Bytes) /\ Len(chunk) = IF 1 <= n THEN n - 1 + 1 ELSE 0
    BY <2>1, <1>1, SubSeqProperties
  <2> HIDE DEF chunk
  <2> QED BY <2>2, <1>1
<1>3. left \in Seq(Bytes) /\ Len(left) <= Len(wire)
  <2>1. \A i \in (n + 1) .. Len(wire) : wire[i] \in Bytes
    BY <1>1
  <2>2. left \in Seq(Bytes) /\ Len(left) = IF n + 1 <= Len(wire) THEN Len(wire) - (n + 1) + 1 ELSE 0
    <3>1. n + 1 \in Int /\ Len(wire) \in Int
      BY <1>1
    <3> QED BY <2>1, <3>1, SubSeqProperties
  <2> HIDE DEF left
  <2> QED BY <2>2, <1>1
<1>4. chunk \o left = wire
  <2>1. 1 \in 1 .. (Len(wire) + 1) /\ n \in (1 - 1) .. Len(wire) /\ Len(wire) \in n .. Len(wire)
    BY <1>1
  <2>2. chunk \o left = SubSeq(wire, 1, Len(wire))
    BY <2>1, <1>1, ConcatAdjacentSubSeq
  <2>3. SubSeq(wire, 1, Len(wire)) = wire
    BY <1>1
  <2> QED BY <2>2, <2>3
<1>5. /\ pc = "recv" /\ wire' = left /\ processed' = 0
      /\ UNCHANGED <<sent, stream, running, peer, dispatched>>
      /\ \/ /\ Len(buffer) + n <= MAX_COMMAND_SIZE /\ buffer' = buffer \o chunk
            /\ pc' = "parse" /\ errors' = errors
         \/ errors' = Append(errors, "too long") /\ buffer' = << >> /\ pc' = pc
  BY DEF Recv, buffer_append
<1> HIDE DEF chunk, left
<1>6. CASE /\ Len(buffer) + n <= MAX_COMMAND_SIZE /\ buffer' = buffer \o chunk
           /\ pc' = "parse" /\ errors' = errors
  <2>1. buffer' \in Seq(Bytes) /\ Len(buffer') = Len(buffer) + n
    BY <1>1, <1>2, <1>6, ConcatBytes
  <2>2. Typed'
    BY <1>0, <1>3, <1>5, <2>1 DEF Typed, Clean
  <2>3. TypeOK'
    <3>1. Len(wire') <= Len(stream')
      <4>1. Len(left) \in Nat
        BY <1>3
      <4>2. Len(left) <= Len(stream)
        BY <4>1, <1>1, <1>3
      <4> QED BY <4>2, <1>5
    <3>2. Len(buffer') <= MAX_COMMAND_SIZE /\ processed' \in 0 .. Len(buffer')
      BY <1>1, <1>5, <1>6, <2>1
    <3>3. running' \in BOOLEAN
      BY <1>0, <1>5, Zenon DEF TypeOK
    <3>4. pc' = "parse" /\ errors' = errors /\ peer' = peer
      BY <1>5, <1>6
    <3> QED BY <3>1, <3>2, <3>3, <3>4, <1>0 DEF TypeOK
  <2>4. Pending' = buffer'
    <3>1. TypeOK' /\ Typed' => (processed' = 0 => Pending' = buffer')
      BY <2>1 DEF Pending
    <3> QED BY <3>1, <2>2, <2>3, <1>5
  <2>5. Aligned'
    <3>1. SUFFICES ASSUME Clean, errors = << >>
                   PROVE  \E m \in 0 .. Len(sent) :
                            /\ dispatched = SubSeq(sent, 1, m)
                            /\ EncodeAll(dispatched) \o (buffer' \o left) = stream
      BY <1>5, <1>6, <2>4 DEF Aligned, Clean
    <3>2. PICK m \in 0 .. Len(sent) : /\ dispatched = SubSeq(sent, 1, m)
                                      /\ EncodeAll(dispatched) \o (Pending \o wire) = stream
      BY <1>0, <1>5, <3>1 DEF Aligned
    <3>3. Pending = buffer
      BY <1>0, <1>5, <3>1, PendingIs DEF Waiting
    <3>4. buffer' \o left = Pending \o wire
      <4>1. (buffer \o chunk) \o left = buffer \o (chunk \o left)
        <5>1. buffer \in Seq(Bytes) /\ chunk \in Seq(Bytes) /\ left \in Seq(Bytes)
          BY <1>1, <1>2, <1>3
        <5> QED BY <5>1, ConcatAssociative, SMTT(60)
      <4> QED BY <4>1, <1>4, <1>6, <3>3
    <3> QED BY <3>2, <3>4
  <2>6. Waiting'
    BY <1>6 DEF Waiting
  <2> QED BY <2>2, <2>3, <2>5, <2>6 DEF IInv
<1>7. CASE errors' = Append(errors, "too long") /\ buffer' = << >> /\ pc' = pc
  <2>1. errors \in Seq({"too long", "protocol"})
    BY <1>0 DEF TypeOK
  <2>2. errors' \in Seq({"too long", "protocol"}) /\ errors' # << >>
    <3> DEFINE S == {"too long", "protocol"}
    <3>1. "too long" \in S
      OBVIOUS
    <3> HIDE DEF S
    <3>2. errors \in Seq(S)
      BY <2>1 DEF S
    <3>3. Append(errors, "too long") \in Seq(S) /\ Append(errors, "too long") # << >>
      BY <3>1, <3>2, OneMore
    <3> QED BY <3>3, <1>7 DEF S
  <2>3. Typed'
    <3>1. buffer' \in Seq(Bytes)
      BY <1>7, EmptySeq
    <3> QED BY <3>1, <1>0, <1>3, <1>5 DEF Typed, Clean
  <2>4. TypeOK'
    <3>1. Len(wire') <= Len(stream')
      <4>1. Len(left) \in Nat
        BY <1>3
      <4>2. Len(left) <= Len(stream)
        BY <4>1, <1>1, <1>3
      <4> QED BY <4>2, <1>5
    <3>2. Len(buffer') <= MAX_COMMAND_SIZE /\ processed' \in 0 .. Len(buffer')
      <4>1. Len(buffer') = 0 /\ MAX_COMMAND_SIZE \in Nat /\ processed' = 0
        BY <1>1, <1>5, <1>7, EmptySeq
      <4> QED BY <4>1
    <3>3. running' \in BOOLEAN
      BY <1>0, <1>5, Zenon DEF TypeOK
    <3> QED BY <3>1, <3>2, <3>3, <2>2, <1>0, <1>5, <1>7 DEF TypeOK
  <2> QED BY <2>2, <2>3, <2>4 DEF IInv, Aligned, Waiting
<1> QED BY <1>5, <1>6, <1>7

\* Three texts, one after the other.
LEMMA ConcatThree ==
  ASSUME NEW a \in Seq(Bytes), NEW b \in Seq(Bytes), NEW c \in Seq(Bytes)
  PROVE  (a \o b) \o c = a \o (b \o c)
BY ConcatAssociative

\* What is left of what is left.
LEMMA SubSeqTwice ==
  ASSUME NEW S, NEW s \in Seq(S), NEW a \in 0 .. Len(s), NEW b \in 0 .. (Len(s) - a)
  PROVE  SubSeq(SubSeq(s, a + 1, Len(s)), b + 1, Len(s) - a) = SubSeq(s, a + b + 1, Len(s))
<1> DEFINE n == Len(s)
           t == SubSeq(s, a + 1, n)
           u == SubSeq(t, b + 1, n - a)
           v == SubSeq(s, a + b + 1, n)
<1>0. n \in Nat /\ a \in Nat /\ b \in Nat /\ a + b <= n
  OBVIOUS
<1>1. \A i \in 1 .. n : s[i] \in S
  OBVIOUS
<1> HIDE DEF n
<1>2. \A i \in 1 .. (n - a) : t[i] = s[a + i] /\ t[i] \in S
  <2>1. \A i \in (a + 1) .. n : s[i] \in S
    BY <1>0, <1>1
  <2>2. \A i \in 1 .. (n - (a + 1) + 1) : t[i] = s[a + 1 + i - 1]
    <3>1. a + 1 \in Int /\ n \in Int
      BY <1>0
    <3> QED BY <2>1, <3>1, SubSeqProperties
  <2> HIDE DEF t
  <2>3. ASSUME NEW i \in 1 .. (n - a) PROVE t[i] = s[a + i] /\ a + i \in 1 .. n
    <3>1. i \in 1 .. (n - (a + 1) + 1) /\ a + 1 + i - 1 = a + i /\ a + i \in 1 .. n
      BY <1>0
    <3> QED BY <3>1, <2>2
  <2> QED BY <2>3, <1>1
<1> HIDE DEF t
<1>3. /\ u \in Seq(S) /\ Len(u) = IF b + 1 <= n - a THEN (n - a) - (b + 1) + 1 ELSE 0
      /\ \A i \in 1 .. ((n - a) - (b + 1) + 1) : u[i] = t[b + 1 + i - 1]
  <2>1. \A i \in (b + 1) .. (n - a) : t[i] \in S
    BY <1>0, <1>2
  <2>2. b + 1 \in Int /\ n - a \in Int
    BY <1>0
  <2> QED BY <2>1, <2>2, SubSeqProperties
<1>4. /\ v \in Seq(S) /\ Len(v) = IF a + b + 1 <= n THEN n - (a + b + 1) + 1 ELSE 0
      /\ \A i \in 1 .. (n - (a + b + 1) + 1) : v[i] = s[a + b + 1 + i - 1]
  <2>1. \A i \in (a + b + 1) .. n : s[i] \in S
    BY <1>0, <1>1
  <2>2. a + b + 1 \in Int /\ n \in Int
    BY <1>0
  <2> QED BY <2>1, <2>2, SubSeqProperties
<1> HIDE DEF u, v
<1>5. Len(u) = n - a - b /\ Len(v) = n - a - b
  BY <1>0, <1>3, <1>4
<1>6. ASSUME NEW i \in 1 .. Len(u) PROVE u[i] = v[i]
  <2>1. /\ i \in 1 .. ((n - a) - (b + 1) + 1) /\ i \in 1 .. (n - (a + b + 1) + 1)
        /\ b + 1 + i - 1 = b + i /\ a + b + 1 + i - 1 = a + (b + i) /\ b + i \in 1 .. (n - a)
    BY <1>0, <1>5
  <2>2. u[i] = t[b + i] /\ v[i] = s[a + (b + i)]
    BY <2>1, <1>3, <1>4
  <2> QED BY <2>1, <2>2, <1>2
<1>7. u = v
  BY <1>3, <1>4, <1>5, <1>6, SeqEqual
<1> QED BY <1>7 DEF n, t, u, v

\* In a stream of commands, the next one is next in the stream.
LEMMA NextInStream ==
  ASSUME IInv, Clean, errors = << >>, pc = "parse"
  PROVE  \E m \in 0 .. Len(sent) :
           /\ dispatched = SubSeq(sent, 1, m)
           /\ EncodeAll(dispatched) \o (Pending \o wire) = stream
           /\ m = Len(sent) => Pending = << >> /\ wire = << >>
           /\ m < Len(sent) =>
                /\ At(Pending \o wire, 0, Encode(sent[m + 1]))
                /\ Meaning(Pending \o wire) =
                     [consumed |-> Len(Encode(sent[m + 1])), elements |-> sent[m + 1]]
<1>0. TypeOK /\ Typed /\ Aligned
  BY DEF IInv
<1>1. PICK m \in 0 .. Len(sent) : /\ dispatched = SubSeq(sent, 1, m)
                                  /\ EncodeAll(dispatched) \o (Pending \o wire) = stream
  BY <1>0 DEF Aligned
<1>2. /\ sent \in Seq(Seq(Seq(Bytes))) /\ wire \in Seq(Bytes) /\ stream = EncodeAll(sent)
      /\ \A i \in DOMAIN sent : WithinLimits(sent[i])
  BY <1>0 DEF Typed
<1>3. Pending \in Seq(Bytes)
  BY <1>0, PendingIs
<1> DEFINE rest == Pending \o wire
<1>4. rest \in Seq(Bytes)
  BY <1>2, <1>3, ConcatBytes
<1>5. EncodeAll(SubSeq(sent, 1, m)) \o rest = EncodeAll(sent)
  BY <1>1, <1>2
<1>6. rest = << >> => Pending = << >> /\ wire = << >>
  BY <1>2, <1>3, ConcatEqualIffEmpty
<1> HIDE DEF rest
<1>7. /\ m = Len(sent) => rest = << >>
      /\ m < Len(sent) =>
           /\ At(rest, 0, Encode(sent[m + 1]))
           /\ Meaning(rest) = [consumed |-> Len(Encode(sent[m + 1])), elements |-> sent[m + 1]]
  BY <1>2, <1>4, <1>5, NextCommand
<1> QED BY <1>1, <1>6, <1>7 DEF rest

\* What was processed leaves the buffer.
LEMMA ConsumeKeeps ==
  ASSUME IInv, pc = "parse", buffer_consume, pc' = "recv",
         UNCHANGED <<sent, stream, wire, running, peer, dispatched, errors>>,
         Pending = << >> \/ Meaning(Pending).consumed = PARSE_INCOMPLETE
  PROVE  IInv'
<1>0. TypeOK /\ Typed /\ Aligned
  BY DEF IInv
<1>1. /\ Pending \in Seq(Bytes) /\ Len(Pending) = Len(buffer) - processed
      /\ Len(buffer) \in Nat /\ processed \in Nat /\ processed <= Len(buffer)
  BY <1>0, PendingIs
<1>2. buffer' = Pending /\ processed' = 0
  BY DEF buffer_consume, Pending
<1>3. Typed'
  BY <1>0, <1>1, <1>2 DEF Typed, Clean
<1>4. TypeOK'
  <2>1. MAX_COMMAND_SIZE \in Nat /\ Len(buffer) <= MAX_COMMAND_SIZE
    BY <1>0, ConnAssumption DEF TypeOK
  <2>2. Len(Pending) <= MAX_COMMAND_SIZE /\ Len(Pending) \in Nat
    BY <1>1, <2>1
  <2>3. Len(buffer') <= MAX_COMMAND_SIZE /\ processed' \in 0 .. Len(buffer')
    BY <1>2, <2>2
  <2>4. running' \in BOOLEAN
    BY <1>0, Zenon DEF TypeOK
  <2> QED BY <1>0, <2>3, <2>4 DEF TypeOK
<1>5. Pending' = Pending
  <2>1. SubSeq(Pending, 1, Len(Pending)) = Pending
    BY <1>1
  <2>2. Pending' = SubSeq(buffer', processed' + 1, Len(buffer'))
    BY DEF Pending
  <2> QED BY <2>1, <2>2, <1>2
<1>6. Aligned'
  BY <1>0, <1>5 DEF Aligned, Clean
<1>7. Waiting'
  BY <1>2 DEF Waiting
<1> QED BY <1>3, <1>4, <1>6, <1>7 DEF IInv

\* A command is dispatched and the thread goes on.
LEMMA DispatchKeeps ==
  ASSUME IInv, pc = "parse", processed < Len(buffer), Meaning(Pending).consumed > 0,
         dispatched' = Append(dispatched, Meaning(Pending).elements),
         \/ pc' = "closed" /\ processed' = processed
         \/ processed' = processed + Meaning(Pending).consumed /\ pc' = pc,
         UNCHANGED <<sent, stream, wire, buffer, running, peer, errors>>
  PROVE  IInv'
<1> DEFINE k == Meaning(Pending).consumed
           P == Pending
<1>0. TypeOK /\ Typed /\ Aligned
  BY DEF IInv
<1>1. /\ P \in Seq(Bytes) /\ Len(P) = Len(buffer) - processed
      /\ Len(buffer) \in Nat /\ processed \in Nat /\ processed <= Len(buffer)
  BY <1>0, PendingIs
<1>2. k \in 1 .. Len(P)
  <2>1. k \in {PARSE_INCOMPLETE, PARSE_ERROR} \cup 1 .. Len(P)
    <3>1. FALSE \in BOOLEAN
      BY Zenon
    <3> QED BY <1>1, <3>1, ParseBounds DEF Meaning
  <2> HIDE DEF k, P
  <2>2. k > 0
    BY DEF k
  <2> QED BY <2>1, <2>2 DEF PARSE_INCOMPLETE, PARSE_ERROR
<1> HIDE DEF k
<1>3. processed' \in 0 .. Len(buffer')
  <2>1. processed + k \in 0 .. Len(buffer) /\ processed \in 0 .. Len(buffer)
    <3> HIDE DEF P
    <3> QED BY <1>1, <1>2
  <2> QED BY <2>1 DEF k
<1>4. Typed'
  BY <1>0 DEF Typed, Clean
<1>5. TypeOK'
  <2>1. running' \in BOOLEAN
    BY <1>0, Zenon DEF TypeOK
  <2> QED BY <1>0, <1>3, <2>1 DEF TypeOK
<1>6. Waiting'
  BY DEF Waiting
<1>7. Aligned'
  <2>1. SUFFICES ASSUME Clean, errors = << >>, pc' = pc
                 PROVE  \E m \in 0 .. Len(sent) :
                          /\ dispatched' = SubSeq(sent, 1, m)
                          /\ EncodeAll(dispatched') \o (Pending' \o wire) = stream
    BY DEF Aligned, Clean
  <2>2. PICK m \in 0 .. Len(sent) :
          /\ dispatched = SubSeq(sent, 1, m)
          /\ EncodeAll(dispatched) \o (P \o wire) = stream
          /\ m = Len(sent) => P = << >> /\ wire = << >>
          /\ m < Len(sent) =>
               /\ At(P \o wire, 0, Encode(sent[m + 1]))
               /\ Meaning(P \o wire) =
                    [consumed |-> Len(Encode(sent[m + 1])), elements |-> sent[m + 1]]
    BY <2>1, NextInStream
  <2> DEFINE c == sent[m + 1]
             e == EncodeAll(dispatched)
             rest == SubSeq(P, Len(Encode(c)) + 1, Len(P))
  <2>3. wire \in Seq(Bytes) /\ sent \in Seq(Seq(Seq(Bytes)))
    BY <1>0 DEF Typed
  <2>4. m < Len(sent)
    <3>1. Len(P) # 0 /\ Len(sent) \in Nat
      <4> HIDE DEF P
      <4> QED BY <1>1, <2>3
    <3>2. P # << >>
      <4> HIDE DEF P
      <4> QED BY <3>1, EmptySeq
    <3> QED BY <2>2, <3>1, <3>2
  <2>5. c \in Seq(Seq(Bytes)) /\ m + 1 \in 0 .. Len(sent) /\ m \in 0 .. (Len(sent) - 1)
    <3>1. m + 1 \in 1 .. Len(sent) /\ m + 1 \in 0 .. Len(sent) /\ m \in 0 .. (Len(sent) - 1)
      BY <2>3, <2>4
    <3> QED BY <2>3, <3>1
  <2>6. Meaning(P \o wire) = Meaning(P)
    <3>1. Arrived(P, P \o wire) /\ P \o wire \in Seq(Bytes)
      BY <1>1, <2>3, ArrivedPrefix
    <3>2. Meaning(P).consumed > 0
      OBVIOUS
    <3> HIDE DEF P
    <3> QED BY <1>1, <3>1, <3>2, CommandStays
  <2>7. k = Len(Encode(c)) /\ Meaning(P).elements = c
    <3>1. Meaning(P) = [consumed |-> Len(Encode(c)), elements |-> c]
      BY <2>2, <2>4, <2>6
    <3> QED BY <3>1 DEF k
  <2>8. Encode(c) \in Seq(Bytes)
    BY <2>5, CommandBytes
  <2> HIDE DEF c
  <2>9. dispatched' = SubSeq(sent, 1, m + 1)
    <3>1. SubSeq(sent, 1, m + 1) = Append(SubSeq(sent, 1, m), c)
      BY <2>3, <2>5, NextPart DEF c
    <3> QED BY <3>1, <2>2, <2>7
  <2>10. EncodeAll(dispatched') = e \o Encode(c) /\ e \in Seq(Bytes)
    <3>1. /\ EncodeAll(SubSeq(sent, 1, m)) \in Seq(Bytes)
          /\ EncodeAll(SubSeq(sent, 1, m + 1)) = EncodeAll(SubSeq(sent, 1, m)) \o Encode(c)
      BY <2>3, <2>4, StreamParts DEF c
    <3> QED BY <3>1, <2>2, <2>9
  <2>11. At(P, 0, Encode(c))
    <3>1. At(P \o wire, 0, Encode(c)) /\ Len(Encode(c)) <= Len(P)
      <4>1. k <= Len(P)
        <5> HIDE DEF P
        <5> QED BY <1>1, <1>2
      <4> QED BY <4>1, <2>2, <2>4, <2>7 DEF c
    <3> HIDE DEF P
    <3> QED BY <3>1, <1>1, <2>3, <2>8, ArrivedPrefix
  <2>12. rest \in Seq(Bytes) /\ Encode(c) \o rest = P
    <3> HIDE DEF P
    <3> QED BY <1>1, <2>8, <2>11, CutOff
  <2>13. Pending' = rest
    <3>1. processed' = processed + k /\ k \in Nat
      <4>1. processed' = processed + k
        BY <2>1 DEF k
      <4> QED BY <4>1, <2>7, <2>8
    <3>2. Pending' = SubSeq(buffer, processed + k + 1, Len(buffer))
      BY <3>1 DEF Pending
    <3>3. SubSeq(SubSeq(buffer, processed + 1, Len(buffer)), k + 1, Len(P)) =
            SubSeq(buffer, processed + k + 1, Len(buffer))
      <4>1. buffer \in Seq(Bytes)
        BY <1>0 DEF Typed
      <4> QED BY <4>1, <1>1, <1>2, <3>1, SubSeqTwice DEF P, Pending
    <3> QED BY <3>2, <3>3, <2>7 DEF P, Pending
  <2> HIDE DEF P, rest, e
  <2>14. (e \o Encode(c)) \o (rest \o wire) = e \o (P \o wire)
    <3>1. (e \o Encode(c)) \o (rest \o wire) = e \o (Encode(c) \o (rest \o wire))
      <4>1. rest \o wire \in Seq(Bytes)
        BY <2>3, <2>12, ConcatBytes
      <4>2. e \in Seq(Bytes) /\ Encode(c) \in Seq(Bytes)
        BY <2>8, <2>10
      <4> QED BY <4>1, <4>2, ConcatThree
    <3>2. (Encode(c) \o rest) \o wire = Encode(c) \o (rest \o wire)
      <4>1. Encode(c) \in Seq(Bytes) /\ rest \in Seq(Bytes) /\ wire \in Seq(Bytes)
        BY <2>3, <2>8, <2>12
      <4> QED BY <4>1, ConcatThree
    <3> QED BY <3>1, <3>2, <2>12
  <2>15. EncodeAll(dispatched') \o (Pending' \o wire) = stream
    BY <2>2, <2>10, <2>13, <2>14 DEF e
  <2> QED BY <2>5, <2>9, <2>15
<1> QED BY <1>4, <1>5, <1>6, <1>7 DEF IInv

\* One round of the inner loop, or its end.
LEMMA ParseKeeps ==
  ASSUME IInv, Parse
  PROVE  IInv'
<1>0. TypeOK /\ Typed
  BY DEF IInv
<1>1. /\ Pending \in Seq(Bytes) /\ Len(Pending) = Len(buffer) - processed
      /\ Len(buffer) \in Nat /\ processed \in Nat /\ processed <= Len(buffer)
  BY <1>0, PendingIs
<1>2. pc = "parse" /\ UNCHANGED <<sent, stream, wire, running, peer>>
  BY DEF Parse
<1>3. CASE /\ processed = Len(buffer) /\ buffer_consume /\ pc' = "recv"
           /\ UNCHANGED <<dispatched, errors>>
  <2>1. Len(Pending) = 0
    BY <1>1, <1>3
  <2>2. Pending = << >>
    BY <1>1, <2>1, EmptySeq
  <2> QED BY <2>2, <1>2, <1>3, ConsumeKeeps
<1>4. ASSUME processed < Len(buffer), NEW memFails \in {FALSE, MemMayFail},
             \/ /\ Parsed(memFails).consumed > 0
                /\ Dispatch(Parsed(memFails).elements, Parsed(memFails).consumed)
                /\ UNCHANGED errors
             \/ /\ Parsed(memFails).consumed = PARSE_INCOMPLETE
                /\ buffer_consume
                /\ pc' = "recv"
                /\ UNCHANGED <<dispatched, errors>>
             \/ /\ Parsed(memFails).consumed = PARSE_ERROR
                /\ errors' = Append(errors, "protocol")
                /\ buffer' = << >> /\ processed' = 0
                /\ pc' = "recv"
                /\ UNCHANGED dispatched
      PROVE  IInv'
  <2>1. /\ Parsed(memFails).consumed > 0 => Parsed(memFails) = Meaning(Pending)
        /\ Parsed(memFails).consumed = PARSE_INCOMPLETE =>
             Meaning(Pending).consumed = PARSE_INCOMPLETE
    <3>1. memFails \in BOOLEAN
      BY ConnAssumption, Zenon
    <3> QED BY <1>1, <3>1, MemoryFails DEF Parsed
  <2>2. CASE /\ Parsed(memFails).consumed > 0
             /\ Dispatch(Parsed(memFails).elements, Parsed(memFails).consumed)
             /\ UNCHANGED errors
    <3>1. /\ Meaning(Pending).consumed > 0
          /\ Dispatch(Meaning(Pending).elements, Meaning(Pending).consumed)
      BY <2>1, <2>2
    <3>2. /\ dispatched' = Append(dispatched, Meaning(Pending).elements)
          /\ \/ pc' = "closed" /\ processed' = processed
             \/ processed' = processed + Meaning(Pending).consumed /\ pc' = pc
          /\ buffer' = buffer
      BY <3>1 DEF Dispatch
    <3> QED BY <3>1, <3>2, <1>2, <1>4, <2>2, DispatchKeeps
  <2>3. CASE /\ Parsed(memFails).consumed = PARSE_INCOMPLETE
             /\ buffer_consume /\ pc' = "recv" /\ UNCHANGED <<dispatched, errors>>
    BY <1>2, <2>1, <2>3, ConsumeKeeps
  <2>4. CASE /\ errors' = Append(errors, "protocol") /\ buffer' = << >> /\ processed' = 0
             /\ pc' = "recv"
    <3> DEFINE S == {"too long", "protocol"}
    <3>1. errors' \in Seq(S) /\ errors' # << >>
      <4>1. "protocol" \in S
        OBVIOUS
      <4>2. errors \in Seq(S)
        BY <1>0 DEF TypeOK
      <4> HIDE DEF S
      <4>3. Append(errors, "protocol") \in Seq(S) /\ Append(errors, "protocol") # << >>
        BY <4>1, <4>2, OneMore
      <4> QED BY <4>3, <2>4
    <3>2. buffer' \in Seq(Bytes) /\ Len(buffer') = 0
      BY <2>4, EmptySeq
    <3>3. Typed'
      BY <1>0, <1>2, <3>2 DEF Typed, Clean
    <3>4. TypeOK'
      <4>1. Len(buffer') <= MAX_COMMAND_SIZE /\ processed' \in 0 .. Len(buffer')
        <5>1. MAX_COMMAND_SIZE \in Nat /\ Len(buffer') = 0 /\ processed' = 0
          BY <2>4, <3>2, ConnAssumption
        <5> QED BY <5>1
      <4>2. running' \in BOOLEAN
        BY <1>0, <1>2, Zenon DEF TypeOK
      <4> QED BY <1>0, <1>2, <2>4, <3>1, <4>1, <4>2 DEF TypeOK
    <3> QED BY <3>1, <3>3, <3>4 DEF IInv, Aligned, Waiting
  <2> QED BY <1>4, <2>2, <2>3, <2>4
<1> QED BY <1>3, <1>4 DEF Parse

\* Steps that leave the thread's data alone, or end it.
LEMMA OthersKeep ==
  ASSUME IInv, Leave \/ Stop \/ Hangup \/ UNCHANGED vars
  PROVE  IInv'
<1>0. TypeOK /\ Typed /\ Aligned /\ Waiting
  BY DEF IInv
<1>1. /\ UNCHANGED <<sent, stream, wire, buffer, processed, dispatched, errors>>
      /\ pc' \in {pc, "closed"} /\ running' \in {running, FALSE}
      /\ peer' \in {peer, "closed", "reset"}
  BY DEF Leave, Stop, Hangup, vars
<1>2. Pending' = Pending
  BY <1>1 DEF Pending
<1>3. Typed'
  BY <1>0, <1>1 DEF Typed, Clean
<1>4. TypeOK'
  <2>1. running' \in BOOLEAN
    BY <1>0, <1>1, Zenon DEF TypeOK
  <2> QED BY <1>0, <1>1, <2>1 DEF TypeOK
<1>5. Aligned'
  BY <1>0, <1>1, <1>2 DEF Aligned, Clean
<1>6. Waiting'
  BY <1>0, <1>1 DEF Waiting
<1> QED BY <1>3, <1>4, <1>5, <1>6 DEF IInv

\* Every step keeps the invariant.
LEMMA IInvNext ==
  IInv /\ [Next]_vars => IInv'
<1> SUFFICES ASSUME IInv, [Next]_vars PROVE IInv'
  OBVIOUS
<1>1. CASE \E n \in 1 .. Len(wire) : Recv(n)
  BY <1>1, RecvKeeps
<1>2. CASE Parse
  BY <1>2, ParseKeeps
<1>3. CASE Leave \/ Stop \/ Hangup \/ UNCHANGED vars
  BY <1>3, OthersKeep
<1> QED BY <1>1, <1>2, <1>3 DEF Next, Thread, Idle

\* The invariant holds of every connection at all times.
LEMMA AlwaysIInv == Spec => []IInv
<1> QED BY IInvInit, IInvNext, PTL DEF Spec

-----------------------------------------------------------------------------
(* What holds of every connection.                                         *)

\* The buffer never overflows and no byte is parsed that was not received.
THEOREM ConnTypes == Spec => []TypeOK
<1>1. IInv => TypeOK
  BY DEF IInv
<1> QED BY <1>1, AlwaysIInv, PTL

\* Whatever the commands and however recv cuts their bytes: up to the first error
\* reply they are dispatched whole, once and in order.
THEOREM CommandsInOrder == Spec => []InOrderUntilError
<1>1. IInv => InOrderUntilError
  <2> SUFFICES ASSUME IInv, Clean, errors = << >>, pc # "closed"
               PROVE  /\ IsPrefix(dispatched, sent)
                      /\ EncodeAll(dispatched) \o Pending \o wire = stream
    BY DEF InOrderUntilError
  <2>0. TypeOK /\ Typed /\ Aligned
    BY DEF IInv
  <2>1. PICK m \in 0 .. Len(sent) : /\ dispatched = SubSeq(sent, 1, m)
                                    /\ EncodeAll(dispatched) \o (Pending \o wire) = stream
    BY <2>0 DEF Aligned
  <2>2. sent \in Seq(Seq(Seq(Bytes))) /\ wire \in Seq(Bytes) /\ Pending \in Seq(Bytes)
    BY <2>0, PendingIs DEF Typed
  <2>3. EncodeAll(dispatched) \in Seq(Bytes)
    <3>1. EncodeAll(SubSeq(sent, 1, m)) \in Seq(Bytes)
      BY <2>2, StreamParts
    <3> QED BY <3>1, <2>1
  <2>4. EncodeAll(dispatched) \o Pending \o wire = stream
    BY <2>1, <2>2, <2>3, ConcatThree
  <2>5. IsPrefix(dispatched, sent)
    <3>1. Len(sent) \in Nat /\ m \in Nat /\ m <= Len(sent)
      BY <2>2
    <3>2. SubSeq(sent, 1, m) \in Seq(Seq(Seq(Bytes))) /\ Len(SubSeq(sent, 1, m)) = m
      <4>1. \A i \in 1 .. m : sent[i] \in Seq(Seq(Bytes))
        BY <2>2, <3>1
      <4>2. /\ SubSeq(sent, 1, m) \in Seq(Seq(Seq(Bytes)))
            /\ Len(SubSeq(sent, 1, m)) = IF 1 <= m THEN m - 1 + 1 ELSE 0
        BY <3>1, <4>1, SubSeqProperties
      <4> QED BY <3>1, <4>2
    <3> DEFINE p == SubSeq(sent, 1, m)
    <3> HIDE DEF p
    <3>3. p \in Seq(Seq(Seq(Bytes))) /\ Len(p) = m /\ p = dispatched
      BY <2>1, <3>2 DEF p
    <3>4. SubSeq(p, 1, Len(p)) = p
      BY <3>3
    <3>5. Len(dispatched) = m /\ SubSeq(dispatched, 1, Len(dispatched)) = SubSeq(sent, 1, m)
      BY <3>3, <3>4 DEF p
    <3> QED BY <3>1, <3>5 DEF IsPrefix
  <2> QED BY <2>4, <2>5
<1> QED BY <1>1, AlwaysIInv, PTL

\* A command that was parsed early is the one that would be parsed later.
THEOREM VerdictsAreFinal == Spec => []VerdictIsFinal
<1>1. IInv => VerdictIsFinal
  <2> SUFFICES ASSUME IInv, Parsed(FALSE).consumed > 0
               PROVE  resp_parse(Pending \o wire, FALSE) = Parsed(FALSE)
    BY DEF VerdictIsFinal
  <2>1. Pending \in Seq(Bytes) /\ wire \in Seq(Bytes)
    BY PendingIs DEF IInv, Typed
  <2>2. Arrived(Pending, Pending \o wire) /\ Pending \o wire \in Seq(Bytes)
    BY <2>1, ArrivedPrefix
  <2>3. Parsed(FALSE) = Meaning(Pending)
    BY Zenon DEF Parsed, Meaning
  <2>4. Meaning(Pending).consumed > 0
    BY <2>3, Zenon
  <2>5. Meaning(Pending \o wire) = Meaning(Pending)
    BY <2>1, <2>2, <2>4, CommandStays
  <2> QED BY <2>3, <2>5, Zenon DEF Meaning
<1> QED BY <1>1, AlwaysIInv, PTL

\* A thread that waits for a client that has sent everything has dispatched it
\* all, unless it replied an error.
THEOREM NothingWaits == Spec => []NothingLeftWaiting
<1>1. IInv => NothingLeftWaiting
  <2> SUFFICES ASSUME IInv, Clean, pc = "recv", wire = << >>, errors = << >>
               PROVE  dispatched = sent
    BY DEF NothingLeftWaiting
  <2>0. TypeOK /\ Typed /\ Aligned /\ Waiting
    BY DEF IInv
  <2>1. PICK m \in 0 .. Len(sent) : /\ dispatched = SubSeq(sent, 1, m)
                                    /\ EncodeAll(dispatched) \o (Pending \o wire) = stream
    BY <2>0 DEF Aligned
  <2>2. /\ sent \in Seq(Seq(Seq(Bytes))) /\ buffer \in Seq(Bytes) /\ stream = EncodeAll(sent)
        /\ \A i \in DOMAIN sent : WithinLimits(sent[i])
    BY <2>0 DEF Typed
  <2>3. processed = 0 /\ (buffer = << >> \/ Meaning(buffer).consumed = PARSE_INCOMPLETE)
    BY <2>0 DEF Waiting
  <2>4. Pending \o wire = buffer
    <3>1. Pending = buffer
      BY <2>0, <2>3, PendingIs
    <3>2. buffer \o << >> = buffer
      BY <2>2, ConcatEmptySeq
    <3> QED BY <3>1, <3>2
  <2>5. EncodeAll(SubSeq(sent, 1, m)) \o buffer = EncodeAll(sent)
    BY <2>1, <2>2, <2>4
  <2>6. m = Len(sent)
    <3>1. SUFFICES ASSUME m < Len(sent) PROVE FALSE
      <4>1. Len(sent) \in Nat
        BY <2>2
      <4> QED BY <4>1
    <3>2. /\ At(buffer, 0, Encode(sent[m + 1]))
          /\ Meaning(buffer) = [consumed |-> Len(Encode(sent[m + 1])), elements |-> sent[m + 1]]
      BY <2>2, <2>5, <3>1, NextCommand
    <3>3. sent[m + 1] \in Seq(Seq(Bytes))
      <4>1. m + 1 \in 1 .. Len(sent)
        BY <2>2, <3>1
      <4> QED BY <4>1, <2>2
    <3>4. Len(Encode(sent[m + 1])) \in Nat /\ Len(Encode(sent[m + 1])) > 3
      BY <3>3, CommandBytes
    <3>5. Meaning(buffer).consumed > 3
      BY <3>2, <3>4
    <3>6. buffer # << >>
      <4>1. 0 + Len(Encode(sent[m + 1])) <= Len(buffer) /\ Len(<< >>) = 0
        BY <3>2 DEF At
      <4> QED BY <4>1, <3>4
    <3> QED BY <2>3, <3>5, <3>6 DEF PARSE_INCOMPLETE
  <2>7. SubSeq(sent, 1, Len(sent)) = sent
    BY <2>2
  <2> QED BY <2>1, <2>6, <2>7
<1> QED BY <1>1, AlwaysIInv, PTL

\* While allocations succeed, a well-formed stream is refused only where a piece
\* ended right before the "$" of an element.
THEOREM ErrorsAtBoundaries == Spec => FirstErrorAtElementBoundary
<1> DEFINE A == /\ Clean /\ errors = << >> /\ errors' = <<"protocol">>
                /\ Parsed(FALSE).consumed = PARSE_ERROR
                => wire # << >> /\ wire[1] = "$"
<1>1. IInv /\ [Next]_vars => [A]_vars
  <2> SUFFICES ASSUME IInv, Next, Clean, errors = << >>, errors' = <<"protocol">>,
                      Parsed(FALSE).consumed = PARSE_ERROR
               PROVE  wire # << >> /\ wire[1] = "$"
    OBVIOUS
  <2>0. TypeOK /\ Typed
    BY DEF IInv
  <2>1. Parse /\ processed < Len(buffer)
    <3>1. errors' # errors
      <4>1. <<"protocol">>[1] = "protocol" /\ Len(<<"protocol">>) = 1 /\ Len(<< >>) = 0
        OBVIOUS
      <4> QED BY <4>1
    <3>2. ASSUME NEW n \in 1 .. Len(wire), Recv(n) PROVE FALSE
      <4>1. errors' = Append(<< >>, "too long")
        BY <3>1, <3>2 DEF Recv
      <4>2. Append(<< >>, "too long")[1] = "too long" /\ <<"protocol">>[1] = "protocol"
        OBVIOUS
      <4> QED BY <4>1, <4>2
    <3>3. ~ (Leave \/ Stop \/ Hangup \/ Idle)
      BY <3>1 DEF Leave, Stop, Hangup, Idle, vars
    <3>4. Parse
      BY <3>2, <3>3 DEF Next, Thread
    <3> QED BY <3>1, <3>4 DEF Parse
  <2>2. pc = "parse"
    BY <2>1 DEF Parse
  <2>3. /\ Pending \in Seq(Bytes) /\ Len(Pending) = Len(buffer) - processed
        /\ Len(buffer) \in Nat /\ processed \in Nat
    BY <2>0, PendingIs
  <2>4. wire \in Seq(Bytes) /\ sent \in Seq(Seq(Seq(Bytes)))
    BY <2>0 DEF Typed
  <2>5. PICK m \in 0 .. Len(sent) :
          /\ m = Len(sent) => Pending = << >> /\ wire = << >>
          /\ m < Len(sent) =>
               Meaning(Pending \o wire) =
                 [consumed |-> Len(Encode(sent[m + 1])), elements |-> sent[m + 1]]
    BY <2>2, NextInStream
  <2>6. m < Len(sent)
    <3>1. Len(Pending) # 0 /\ Len(sent) \in Nat
      BY <2>1, <2>3, <2>4
    <3>2. Pending # << >>
      BY <3>1, EmptySeq
    <3> QED BY <2>5, <3>1, <3>2
  <2>7. Meaning(Pending \o wire).consumed > 3
    <3>1. sent[m + 1] \in Seq(Seq(Bytes))
      <4>1. m + 1 \in 1 .. Len(sent)
        BY <2>4, <2>6
      <4> QED BY <4>1, <2>4
    <3>2. Len(Encode(sent[m + 1])) \in Nat /\ Len(Encode(sent[m + 1])) > 3
      BY <3>1, CommandBytes
    <3> QED BY <3>2, <2>5, <2>6
  <2>8. Meaning(Pending).consumed = PARSE_ERROR
    BY Zenon DEF Parsed, Meaning
  <2>9. ElementFollows(Pending, Pending \o wire)
    <3>1. Arrived(Pending, Pending \o wire) /\ Pending \o wire \in Seq(Bytes)
      BY <2>3, <2>4, ArrivedPrefix
    <3>2. \/ Meaning(Pending \o wire).consumed = PARSE_ERROR
          \/ ElementFollows(Pending, Pending \o wire)
      BY <2>3, <2>8, <3>1, ErrorStays
    <3> QED BY <2>7, <3>2 DEF PARSE_ERROR
  <2> DEFINE k == Len(Pending)
             n == Len(wire)
             c == Pending \o wire
  <2>10. k \in Nat /\ n \in Nat
    BY <2>3, <2>4
  <2>11. Len(c) = k + n /\ \A i \in 1 .. (k + n) : c[i] = IF i <= k THEN Pending[i] ELSE wire[i - k]
    BY <2>3, <2>4, ConcatProperties
  <2>12. Len(c) > k /\ c[k + 1] = "$"
    BY <2>9 DEF ElementFollows
  <2> HIDE DEF k, c
  <2>13. n > 0 /\ k + 1 \in 1 .. (k + n) /\ ~ (k + 1 <= k) /\ (k + 1) - k = 1
    <3> HIDE DEF n
    <3> QED BY <2>10, <2>11, <2>12
  <2>14. wire[1] = "$"
    BY <2>11, <2>12, <2>13
  <2>15. wire # << >>
    BY <2>13, EmptySeq
  <2> QED BY <2>14, <2>15
<1>2. FirstErrorAtElementBoundary <=> [][A]_vars
  BY DEF FirstErrorAtElementBoundary
<1> QED BY <1>1, <1>2, AlwaysIInv, PTL DEF Spec

-----------------------------------------------------------------------------
(* What is parsed is one stretch of the stream.                            *)

\* Some bytes are gone; what is in the buffer and on the wire follows them.
Streamed == \E gone \in Seq(Bytes) : gone \o (buffer \o wire) = stream

\* Any text is its first k bytes and the others.
LEMMA CutInTwo ==
  ASSUME NEW d \in Seq(Bytes), NEW k \in 0 .. Len(d)
  PROVE  /\ SubSeq(d, 1, k) \in Seq(Bytes) /\ SubSeq(d, k + 1, Len(d)) \in Seq(Bytes)
         /\ SubSeq(d, 1, k) \o SubSeq(d, k + 1, Len(d)) = d
<1> DEFINE n == Len(d)
<1>0. n \in Nat /\ k \in Nat /\ k <= n /\ k + 1 \in Int /\ n \in Int
  OBVIOUS
<1>1. SubSeq(d, 1, k) \o SubSeq(d, k + 1, n) = SubSeq(d, 1, n)
  <2>1. 1 \in 1 .. (n + 1) /\ k \in (1 - 1) .. n /\ n \in k .. n
    BY <1>0
  <2> QED BY <2>1, ConcatAdjacentSubSeq
<1>2. SubSeq(d, 1, n) = d
  OBVIOUS
<1>3. \A i \in 1 .. n : d[i] \in Bytes
  OBVIOUS
<1> HIDE DEF n
<1>4. SubSeq(d, 1, k) \in Seq(Bytes)
  <2>1. \A i \in 1 .. k : d[i] \in Bytes
    BY <1>0, <1>3
  <2> QED BY <1>0, <2>1, SubSeqProperties
<1>5. SubSeq(d, k + 1, n) \in Seq(Bytes)
  <2>1. \A i \in (k + 1) .. n : d[i] \in Bytes
    BY <1>0, <1>3
  <2> QED BY <1>0, <2>1, SubSeqProperties
<1> QED BY <1>1, <1>2, <1>4, <1>5 DEF n

\* The bytes that leave the buffer from its front are gone, too.
LEMMA FrontGoes ==
  ASSUME NEW a \in Seq(Bytes), NEW b \in Seq(Bytes), NEW w \in Seq(Bytes),
         stream' = stream, \E gone \in Seq(Bytes) : gone \o ((a \o b) \o w) = stream,
         buffer' \o wire' = b \o w
  PROVE  Streamed'
<1>1. PICK gone \in Seq(Bytes) : gone \o ((a \o b) \o w) = stream
  OBVIOUS
<1>2. (a \o b) \o w = a \o (b \o w) /\ b \o w \in Seq(Bytes)
  <2>1. (a \o b) \o w = a \o (b \o w)
    BY ConcatThree
  <2>2. b \o w \in Seq(Bytes)
    BY ConcatBytes
  <2> QED BY <2>1, <2>2
<1>3. gone \o (a \o (b \o w)) = (gone \o a) \o (b \o w) /\ gone \o a \in Seq(Bytes)
  <2>1. (gone \o a) \o (b \o w) = gone \o (a \o (b \o w))
    BY <1>2, ConcatThree
  <2>2. gone \o a \in Seq(Bytes)
    BY ConcatBytes
  <2> QED BY <2>1, <2>2
<1> QED BY <1>1, <1>2, <1>3 DEF Streamed

\* More bytes arrive, and are kept, or dropped with all that was there.
LEMMA RecvStreamed ==
  ASSUME IInv, Streamed, NEW n \in 1 .. Len(wire), Recv(n) PROVE Streamed'
<1> DEFINE chunk == SubSeq(wire, 1, n)
           left == SubSeq(wire, n + 1, Len(wire))
<1>1. wire \in Seq(Bytes) /\ buffer \in Seq(Bytes)
  BY DEF IInv, Typed
<1>2. chunk \in Seq(Bytes) /\ left \in Seq(Bytes) /\ chunk \o left = wire
  <2>1. n \in 0 .. Len(wire)
    BY <1>1
  <2> QED BY <1>1, <2>1, CutInTwo
<1>3. /\ wire' = left /\ stream' = stream
      /\ buffer' = buffer \o chunk \/ buffer' = << >>
  BY DEF Recv, buffer_append
<1> HIDE DEF chunk, left
<1>4. (buffer \o chunk) \o left = buffer \o wire
  BY <1>1, <1>2, ConcatThree
<1>5. CASE buffer' = buffer \o chunk
  BY <1>3, <1>4, <1>5 DEF Streamed
<1>6. CASE buffer' = << >>
  <2>1. << >> \o left = left /\ buffer \o chunk \in Seq(Bytes) /\ << >> \in Seq(Bytes)
    BY <1>1, <1>2, ConcatEmptySeq, ConcatBytes, EmptySeq
  <2>2. (buffer \o chunk) \o << >> = buffer \o chunk
    BY <2>1, ConcatEmptySeq
  <2>3. \E gone \in Seq(Bytes) : gone \o (((buffer \o chunk) \o << >>) \o left) = stream
    BY <1>4, <2>2 DEF Streamed
  <2> QED BY <1>2, <1>3, <1>6, <2>1, <2>3, FrontGoes
<1> QED BY <1>3, <1>5, <1>6

\* What was processed, or everything, leaves the buffer.
LEMMA ParseStreamed ==
  ASSUME IInv, Streamed, Parse PROVE Streamed'
<1>1. wire \in Seq(Bytes) /\ buffer \in Seq(Bytes) /\ processed \in 0 .. Len(buffer)
  BY DEF IInv, Typed, TypeOK
<1>2. wire' = wire /\ stream' = stream
  BY DEF Parse
<1>3. buffer_consume \/ buffer' = << >> \/ buffer' = buffer
  BY DEF Parse, Dispatch
<1>4. CASE buffer_consume
  <2> DEFINE a == SubSeq(buffer, 1, processed)
             b == SubSeq(buffer, processed + 1, Len(buffer))
  <2>1. a \in Seq(Bytes) /\ b \in Seq(Bytes) /\ a \o b = buffer
    BY <1>1, CutInTwo
  <2>2. buffer' = b
    BY <1>4 DEF buffer_consume
  <2> HIDE DEF a, b
  <2>3. \E gone \in Seq(Bytes) : gone \o ((a \o b) \o wire) = stream
    BY <2>1 DEF Streamed
  <2> QED BY <1>1, <1>2, <2>1, <2>2, <2>3, FrontGoes
<1>5. CASE buffer' = << >>
  <2>1. buffer \o << >> = buffer /\ << >> \in Seq(Bytes)
    BY <1>1, ConcatEmptySeq, EmptySeq
  <2>2. \E gone \in Seq(Bytes) : gone \o ((buffer \o << >>) \o wire) = stream
    BY <2>1 DEF Streamed
  <2> QED BY <1>1, <1>2, <1>5, <2>1, <2>2, FrontGoes
<1>6. CASE buffer' = buffer
  BY <1>2, <1>6 DEF Streamed
<1> QED BY <1>3, <1>4, <1>5, <1>6

\* Whatever is sent, however it is cut and whatever was dropped: the bytes that are
\* parsed are one stretch of the stream, without a gap.
THEOREM StretchesOfTheStream == Spec => []NothingGluedTogether
<1>1. Init => Streamed
  <2> SUFFICES ASSUME Init PROVE Streamed
    OBVIOUS
  <2>1. buffer = << >> /\ wire = stream /\ stream \in Seq(Bytes) /\ << >> \in Seq(Bytes)
    BY IInvInit, EmptySeq DEF Init, IInv, Typed
  <2>2. << >> \o stream = stream
    BY <2>1, ConcatEmptySeq
  <2> QED BY <2>1, <2>2 DEF Streamed
<1>2. IInv /\ Streamed /\ [Next]_vars => Streamed'
  <2> SUFFICES ASSUME IInv, Streamed, [Next]_vars PROVE Streamed'
    OBVIOUS
  <2>1. CASE UNCHANGED <<buffer, wire, stream>>
    BY <2>1 DEF Streamed
  <2> QED BY <2>1, RecvStreamed, ParseStreamed
          DEF Next, Thread, Leave, Stop, Hangup, Idle, vars
<1>3. IInv /\ Streamed => NothingGluedTogether
  <2> SUFFICES ASSUME IInv, Streamed PROVE NothingGluedTogether
    OBVIOUS
  <2> DEFINE rest == buffer \o wire
  <2>1. PICK gone \in Seq(Bytes) : gone \o rest = stream
    BY DEF Streamed
  <2>2. stream \in Seq(Bytes) /\ rest \in Seq(Bytes)
    BY ConcatBytes DEF IInv, Typed
  <2> HIDE DEF rest
  <2>3. At(stream, 0, gone)
    <3> DEFINE k == Len(gone)
               n == Len(rest)
    <3>1. k \in Nat /\ n \in Nat
      BY <2>2
    <3>2. Len(stream) = k + n /\ \A i \in 1 .. (k + n) : i <= k => stream[i] = gone[i]
      BY <2>1, <2>2, ConcatProperties
    <3> HIDE DEF k, n
    <3>3. 0 + k <= Len(stream)
      BY <3>1, <3>2
    <3>4. ASSUME NEW j \in 1 .. k PROVE stream[0 + j] = gone[j]
      <4>1. j \in 1 .. (k + n) /\ j <= k /\ 0 + j = j
        BY <3>1
      <4> QED BY <3>2, <4>1
    <3> QED BY <3>3, <3>4 DEF At, k
  <2>4. /\ SubSeq(stream, Len(gone) + 1, Len(stream)) \in Seq(Bytes)
        /\ gone \o SubSeq(stream, Len(gone) + 1, Len(stream)) = stream
    BY <2>2, <2>3, CutOff
  <2>5. rest = SubSeq(stream, Len(gone) + 1, Len(stream))
    <3> DEFINE other == SubSeq(stream, Len(gone) + 1, Len(stream))
    <3> HIDE DEF other
    <3>1. other \in Seq(Bytes) /\ gone \o other = gone \o rest
      BY <2>1, <2>4 DEF other
    <3> QED BY <2>2, <3>1, ConcatSimplifications DEF other
  <2>6. Len(gone) \in 0 .. Len(stream)
    BY <2>2, <2>3 DEF At
  <2> QED BY <2>5, <2>6 DEF NothingGluedTogether, rest
<1> QED BY <1>1, <1>2, <1>3, AlwaysIInv, PTL DEF Spec
=============================================================================
