----------------------------- MODULE RespParser -----------------------------
(***************************************************************************)
(* The RESP parser (resp_parser.c) as functions on the bytes received so   *)
(* far.  A command is an array of bulk strings:                            *)
(*                                                                         *)
(*      *2 CR LF  $1 CR LF  G CR LF  $1 CR LF  k CR LF                     *)
(*                                                                         *)
(* A byte is a one-character string, "CR" and "LF" the two delimiters; the *)
(* alphabet has a few letters only, and command names are abbreviated to   *)
(* their first letter.  Positions count from 0, as in buffer_t.  No NUL    *)
(* byte occurs: a bulk string is the C string the handlers see.            *)
(***************************************************************************)
EXTENDS Integers, Sequences, SequencesExt

CONSTANTS
  MAX_ARGS,         \* most elements of a command
  MAX_STR_LEN,      \* longest bulk string
  MIN_BUFFER_SIZE,  \* fewer bytes are never looked at
  MAX_DIGITS,       \* longest spelling of an integer (20)
  NullString        \* the null pointer of a NULL bulk string

ASSUME ParserAssumption ==
  /\ {MAX_ARGS, MAX_STR_LEN, MAX_DIGITS} \subseteq Nat
  /\ MIN_BUFFER_SIZE \in 2 .. 4   \* a header has four bytes or more

CRLF == <<"CR", "LF">>

DigitValue == [d \in {"0", "1", "2", "3", "4", "5", "6", "7", "8", "9"} |->
  CASE d = "0" -> 0 [] d = "1" -> 1 [] d = "2" -> 2 [] d = "3" -> 3 [] d = "4" -> 4
    [] d = "5" -> 5 [] d = "6" -> 6 [] d = "7" -> 7 [] d = "8" -> 8 [] d = "9" -> 9]

IsDigit(b) == b \in DOMAIN DigitValue
IsSpace(b) == b \in {" ", "CR", "LF"}

\* parse_result_t
PARSE_OK         == 1
PARSE_INCOMPLETE == 0
PARSE_ERROR      == -1

-----------------------------------------------------------------------------
(* buffer_t                                                                *)

buffer_has_bytes(data, pos, count) == pos + count <= Len(data)

\* The byte at pos, "NUL" when there is none.
buffer_peek(data, pos) == IF buffer_has_bytes(data, pos, 1) THEN data[pos + 1] ELSE "NUL"

CrlfAt(data, i) == data[i + 1] = "CR" /\ data[i + 2] = "LF"

\* The position of the next CRLF, -1 when there is none yet.
buffer_find_crlf(data, pos) ==
  LET found == {i \in pos .. (Len(data) - 2) : CrlfAt(data, i)}
  IN  IF found = {} THEN -1 ELSE Min(found)

-----------------------------------------------------------------------------

\* strtol consumes the whole text: white space, a sign, at least one digit.
IsNumber(text) ==
  \E i \in 0 .. (Len(text) - 1) :
    /\ \A j \in 1 .. i : IsSpace(text[j]) \/ (j = i /\ text[j] \in {"+", "-"})
    /\ \A j \in (i + 1) .. Len(text) : IsDigit(text[j])

\* What the next byte makes of the number read so far.
AddDigit(n, b) == IF IsDigit(b) THEN 10 * n + DigitValue[b] ELSE n

\* The value strtol gives such a text.
strtol(text) ==
  LET abs[i \in 0 .. Len(text)] == IF i = 0 THEN 0 ELSE AddDigit(abs[i - 1], text[i])
  IN  IF Contains(text, "-") THEN - abs[Len(text)] ELSE abs[Len(text)]

\* What read_integer makes of the text in front of the CRLF.  Numbers outside
\* int are errors in the code and beyond every limit tested here, so the range
\* test needs no counterpart.
IntegerIn(text, pos, crlf) ==
  IF Len(text) \in 1 .. MAX_DIGITS /\ IsNumber(text)
    THEN [res |-> PARSE_OK, val |-> strtol(text), pos |-> crlf + 2]
    ELSE [res |-> PARSE_ERROR, val |-> 0, pos |-> pos]

IntegerUpTo(data, pos, crlf) ==
  IF crlf = -1 THEN [res |-> PARSE_INCOMPLETE, val |-> 0, pos |-> pos]
               ELSE IntegerIn(SubSeq(data, pos + 1, crlf), pos, crlf)

\* An integer up to CRLF.
read_integer(data, pos) == IntegerUpTo(data, pos, buffer_find_crlf(data, pos))

\* A bulk string that could not be read.
NoString(res, pos) == [res |-> res, str |-> NullString, pos |-> pos]

\* Mutant: the data is taken to be complete without its CRLF.
BulkWithoutDelimiter(data, n) ==
  LET stop == n.pos + n.val
  IN  IF n.res # PARSE_OK THEN NoString(n.res, n.pos)
      ELSE IF ~ buffer_has_bytes(data, n.pos, n.val) THEN NoString(PARSE_INCOMPLETE, n.pos)
      ELSE [res |-> PARSE_OK, str |-> SubSeq(data, n.pos + 1, stop),
            pos |-> IF buffer_has_bytes(data, n.pos, n.val + 2) THEN stop + 2 ELSE stop]

\* The data of a bulk string whose length was read as n, and its CRLF.
BulkData(data, n) ==
  LET stop == n.pos + n.val
  IN  IF n.res # PARSE_OK THEN NoString(n.res, n.pos)
      ELSE IF n.val = -1 THEN NoString(PARSE_OK, n.pos)
      ELSE IF n.val \notin 0 .. MAX_STR_LEN THEN NoString(PARSE_ERROR, n.pos)
      ELSE IF ~ buffer_has_bytes(data, n.pos, n.val + 2) THEN NoString(PARSE_INCOMPLETE, n.pos)
      ELSE IF ~ CrlfAt(data, stop) THEN NoString(PARSE_ERROR, n.pos)
      ELSE [res |-> PARSE_OK, str |-> SubSeq(data, n.pos + 1, stop), pos |-> stop + 2]

\* One bulk string at pos: its bytes and the position behind it.  Where data
\* ends before the "$", the byte that buffer_peek makes up is an error.
read_bulk_string(data, pos) ==
  IF buffer_peek(data, pos) = "$" THEN BulkData(data, read_integer(data, pos + 1))
                                  ELSE NoString(PARSE_ERROR, pos)

AddElement(st, b) == [res |-> b.res, pos |-> b.pos, elements |-> Append(st.elements, b.str)]

\* One round of the loop over the elements, which the first failure ends.
NextElement(data, st) ==
  IF st.res = PARSE_OK THEN AddElement(st, read_bulk_string(data, st.pos)) ELSE st

\* Read count bulk strings.
ReadElements(data, pos, count) ==
  LET read[i \in 0 .. count] == IF i = 0 THEN [res |-> PARSE_OK, pos |-> pos, elements |-> << >>]
                                         ELSE NextElement(data, read[i - 1])
  IN  read[count]

\* What resp_parse returns: consumed is the number of bytes of the command,
\* 0 (incomplete) or -1 (error).
Verdict(res) == [consumed |-> res, elements |-> << >>]

CommandOf(e) == IF e.res = PARSE_OK THEN [consumed |-> e.pos, elements |-> e.elements]
                                    ELSE Verdict(e.res)

\* n is the header's number.  A failed allocation, which is possible once the
\* header has been read, is an error too.
AfterHeader(data, n, memFails) ==
  IF n.res # PARSE_OK THEN Verdict(n.res)
  ELSE IF n.val \notin 1 .. MAX_ARGS \/ memFails THEN Verdict(PARSE_ERROR)
  ELSE CommandOf(ReadElements(data, n.pos, n.val))

\* The command at the start of data.
resp_parse(data, memFails) ==
  IF Len(data) < MIN_BUFFER_SIZE THEN Verdict(PARSE_INCOMPLETE)
  ELSE IF data[1] # "*" THEN Verdict(PARSE_ERROR)
  ELSE AfterHeader(data, read_integer(data, 1), memFails)

-----------------------------------------------------------------------------
(* Command names.                                                          *)

\* The handler each name in the table has, and RESP_UNKNOW for others.  There
\* is a RESP_UNLINK, but no name maps to it.
command_table == [n \in {"P", "Q", "S", "G", "D", "C", "I"} |->
  CASE n = "P" -> "PING" [] n = "Q" -> "QUIT" [] n = "S" -> "SET" [] n = "G" -> "GET"
    [] n = "D" -> "DEL" [] n = "C" -> "CLIENT" [] n = "I" -> "INCR"]

\* toupper on the letters of the alphabet
Upper(b) == CASE b = "p" -> "P" [] b = "g" -> "G" [] b = "s" -> "S" [] OTHER -> b

\* Names are compared without regard to case; longer ones than the table's
\* are unknown, those beyond 32 bytes without being copied.
resp_decode_command(name) ==
  IF name # NullString /\ Len(name) = 1 /\ Upper(name[1]) \in DOMAIN command_table
    THEN command_table[Upper(name[1])]
    ELSE "UNKNOW"
=============================================================================
