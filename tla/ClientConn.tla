----------------------------- MODULE ClientConn -----------------------------
(***************************************************************************)
(* One client connection (client_handler_thread): bytes arrive in pieces   *)
(* of any size, are collected in the command buffer, parsed and dispatched.*)
(* What a handler replies is the subject of Commands; here only whether    *)
(* the connection survives the command matters.                            *)
(*                                                                         *)
(* sent and stream are fixed from the start: the commands the client sends *)
(* and their bytes.  dispatched and errors record what the server did.     *)
(***************************************************************************)
EXTENDS RespParser

CONSTANTS
  Bytes,             \* the bytes that occur
  Traffic,           \* what clients send: records [cmds, bytes]
  BUFFER_SIZE,       \* most bytes one recv returns
  MAX_COMMAND_SIZE,  \* the capacity of the command buffer
  MemMayFail         \* TRUE if allocations may fail

\* Numbers in decimal.
Digits == <<"0", "1", "2", "3", "4", "5", "6", "7", "8", "9">>
Number(n) ==
  LET decimal[m \in 0 .. n] == IF m < 10 THEN <<Digits[m + 1]>>
                                         ELSE Append(decimal[m \div 10], Digits[(m % 10) + 1])
  IN  decimal[n]

\* RESP, as clients write it.
EncodeString(s) == <<"$">> \o Number(Len(s)) \o CRLF \o s \o CRLF
Encode(cmd) == <<"*">> \o Number(Len(cmd)) \o CRLF
                 \o FlattenSeq([i \in DOMAIN cmd |-> EncodeString(cmd[i])])
EncodeAll(cmds) == FlattenSeq([i \in DOMAIN cmds |-> Encode(cmds[i])])

\* The parser's limits.
WithinLimits(cmd) == /\ Len(cmd) \in 1 .. MAX_ARGS
                     /\ \A i \in DOMAIN cmd : Len(cmd[i]) <= MAX_STR_LEN

\* The bytes of a client that sends commands are those of its commands, which keep
\* the limits; a client with no commands sends what it likes.  MAX_DIGITS digits
\* are enough for every count and length.
ASSUME ConnAssumption ==
  /\ {"*", "$", "CR", "LF"} \cup DOMAIN DigitValue \subseteq Bytes
  /\ \A t \in Traffic :
       /\ t.cmds \in Seq(Seq(Seq(Bytes))) /\ t.bytes \in Seq(Bytes)
       /\ t.cmds # << >> => /\ t.bytes = EncodeAll(t.cmds)
                            /\ \A i \in DOMAIN t.cmds : WithinLimits(t.cmds[i])
  /\ \A n \in 0 .. MAX_ARGS \cup 0 .. MAX_STR_LEN : Len(Number(n)) <= MAX_DIGITS
  /\ BUFFER_SIZE \in Nat \ {0}
  /\ MAX_COMMAND_SIZE \in Nat \ {0}
  /\ MemMayFail \in BOOLEAN

VARIABLES
  sent,        \* the commands the client sends, none if its bytes are malformed
  stream,      \* the bytes it sends
  wire,        \* the part of stream that was not received yet
  buffer,      \* cmd_buf.buffer[0 .. used - 1]
  processed,   \* bytes of buffer already dealt with
  pc,          \* "recv", "parse" or "closed"
  running,     \* g_server.running
  peer,        \* "up", "closed" (all bytes sent, no more follow) or "reset"
  dispatched,  \* history: the commands given to dispatch_command
  errors       \* history: the error replies of this thread

vars == <<sent, stream, wire, buffer, processed, pc, running, peer, dispatched, errors>>

\* Types; and buffer_append never lets the buffer outgrow MAX_COMMAND_SIZE.
TypeOK ==
  /\ Len(wire) <= Len(stream)
  /\ Len(buffer) <= MAX_COMMAND_SIZE
  /\ processed \in 0 .. Len(buffer)
  /\ pc \in {"recv", "parse", "closed"}
  /\ running \in BOOLEAN
  /\ peer \in {"up", "closed", "reset"}
  /\ errors \in Seq({"too long", "protocol"})

Init ==
  /\ \E t \in Traffic : sent = t.cmds /\ stream = t.bytes
  /\ wire = stream
  /\ buffer = << >>
  /\ processed = 0
  /\ pc = "recv"
  /\ running = TRUE
  /\ peer = "up"
  /\ dispatched = << >>
  /\ errors = << >>

-----------------------------------------------------------------------------

buffer_append(chunk) == buffer' = buffer \o chunk

\* Mutant: the bytes that were processed stay in the buffer.
BufferConsumeKeeps == UNCHANGED buffer /\ processed' = 0

\* Mutant: the start of an incomplete command goes with them.
BufferConsumeDropsAll == buffer' = << >> /\ processed' = 0

buffer_consume == buffer' = SubSeq(buffer, processed + 1, Len(buffer)) /\ processed' = 0

\* Mutant: only the new bytes are compared with the capacity.
RecvChecksChunkOnly(n) ==
  /\ pc = "recv" /\ running
  /\ n <= BUFFER_SIZE /\ n <= MAX_COMMAND_SIZE
  /\ wire' = SubSeq(wire, n + 1, Len(wire))
  /\ buffer_append(SubSeq(wire, 1, n))
  /\ pc' = "parse"
  /\ processed' = 0
  /\ UNCHANGED <<sent, stream, running, peer, dispatched, errors>>

\* Mutant: when the new bytes do not fit, only they are dropped.
RecvDropsPieceOnly(n) ==
  /\ pc = "recv" /\ running
  /\ n <= BUFFER_SIZE
  /\ wire' = SubSeq(wire, n + 1, Len(wire))
  /\ \/ /\ Len(buffer) + n <= MAX_COMMAND_SIZE
        /\ buffer_append(SubSeq(wire, 1, n))
        /\ pc' = "parse"
        /\ UNCHANGED errors
     \/ /\ Len(buffer) + n > MAX_COMMAND_SIZE
        /\ errors' = Append(errors, "too long")
        /\ UNCHANGED <<buffer, pc>>
  /\ processed' = 0
  /\ UNCHANGED <<sent, stream, running, peer, dispatched>>

\* recv returns n bytes.  If they do not fit, everything is dropped and the
\* loop goes on with what arrives next.
Recv(n) ==
  LET chunk == SubSeq(wire, 1, n) IN
  /\ pc = "recv" /\ running
  /\ n <= BUFFER_SIZE
  /\ wire' = SubSeq(wire, n + 1, Len(wire))
  /\ \/ /\ Len(buffer) + n <= MAX_COMMAND_SIZE
        /\ buffer_append(chunk)
        /\ pc' = "parse"
        /\ UNCHANGED errors
     \/ /\ Len(buffer) + n > MAX_COMMAND_SIZE
        /\ errors' = Append(errors, "too long")
        /\ buffer' = << >>
        /\ UNCHANGED pc
  /\ processed' = 0
  /\ UNCHANGED <<sent, stream, running, peer, dispatched>>

\* The loop ends: shutdown, end of stream, or an error of recv.
Leave ==
  /\ pc = "recv"
  /\ ~ running \/ peer = "reset" \/ (peer = "closed" /\ wire = << >>)
  /\ pc' = "closed"
  /\ UNCHANGED <<sent, stream, wire, buffer, processed, running, peer, dispatched, errors>>

\* The bytes resp_parse looks at.
Pending == SubSeq(buffer, processed + 1, Len(buffer))

Parsed(memFails) == resp_parse(Pending, memFails)

\* A command after which the connection is closed: QUIT, or one whose reply
\* could not be sent (the peer is gone, or a value too long for the reply).
Disconnects(type) == type \in {"QUIT", "GET"} \/ peer = "reset"

\* Mutant: a command that does not disconnect moves on by one byte too many.
DispatchSkipsByte(cmd, consumed) ==
  /\ dispatched' = Append(dispatched, cmd)
  /\ processed' = IF processed + consumed < Len(buffer) THEN processed + consumed + 1
                                                       ELSE Len(buffer)
  /\ UNCHANGED <<pc, buffer>>

\* dispatch_command; a negative result closes the connection.
Dispatch(cmd, consumed) ==
  LET type == resp_decode_command(cmd[1]) IN
  /\ dispatched' = Append(dispatched, cmd)
  /\ \/ Disconnects(type) /\ pc' = "closed" /\ UNCHANGED processed
     \/ type # "QUIT" /\ processed' = processed + consumed /\ UNCHANGED pc
  /\ UNCHANGED buffer

\* One round of the inner loop, or its end.
Parse ==
  /\ pc = "parse"
  /\ \/ /\ processed = Len(buffer)
        /\ buffer_consume
        /\ pc' = "recv"
        /\ UNCHANGED <<dispatched, errors>>
     \/ /\ processed < Len(buffer)
        /\ \E memFails \in {FALSE, MemMayFail} : \E p \in {Parsed(memFails)} :
             \/ /\ p.consumed > 0
                /\ Dispatch(p.elements, p.consumed)
                /\ UNCHANGED errors
             \/ /\ p.consumed = PARSE_INCOMPLETE
                /\ buffer_consume
                /\ pc' = "recv"
                /\ UNCHANGED <<dispatched, errors>>
             \/ /\ p.consumed = PARSE_ERROR
                /\ errors' = Append(errors, "protocol")
                /\ buffer' = << >> /\ processed' = 0
                /\ pc' = "recv"
                /\ UNCHANGED dispatched
  /\ UNCHANGED <<sent, stream, wire, running, peer>>

\* The server is told to stop.
Stop ==
  /\ running /\ running' = FALSE
  /\ UNCHANGED <<sent, stream, wire, buffer, processed, pc, peer, dispatched, errors>>

\* The client closes its end in order, or breaks the connection.
Hangup ==
  /\ peer = "up" /\ peer' \in {"closed", "reset"}
  /\ UNCHANGED <<sent, stream, wire, buffer, processed, pc, running, dispatched, errors>>

\* The client waits for replies that nobody has to send.
Idle == (pc = "closed" \/ wire = << >>) /\ UNCHANGED vars

Thread == Leave \/ Parse \/ (\E n \in 1 .. Len(wire) : Recv(n))

Next == Thread \/ Stop \/ Hangup \/ Idle

Spec == Init /\ [][Next]_vars
-----------------------------------------------------------------------------
(* What must hold.                                                         *)

\* The client sends commands, and nothing else.
Clean == sent # << >>

\* Until the first error reply, every byte received is in a dispatched command
\* or still pending: however a stream of well-formed commands is cut, whatever
\* the payloads contain, the commands are dispatched whole, once and in order.
InOrderUntilError ==
  Clean /\ errors = << >> /\ pc # "closed" =>
    /\ IsPrefix(dispatched, sent)
    /\ EncodeAll(dispatched) \o Pending \o wire = stream

\* A well-formed stream meets its first error only where a piece ended right
\* before the "$" of an element, where the buffer was too small, or where an
\* allocation failed.
FirstErrorAtElementBoundary ==
  [][/\ Clean /\ errors = << >> /\ errors' = <<"protocol">>
     /\ Parsed(FALSE).consumed = PARSE_ERROR
     => wire # << >> /\ wire[1] = "$"]_vars

\* The verdict on what has arrived is never revised: parsing a command early
\* gives what parsing it with all later bytes would, also in malformed streams.
VerdictIsFinal ==
  pc = "parse" /\ Parsed(FALSE).consumed > 0 =>
    resp_parse(Pending \o wire, FALSE) = Parsed(FALSE)

\* The thread never goes back to recv while it holds a complete command: when
\* all bytes have arrived and it waits for more, every command was dispatched,
\* unless an error was reported.
NothingLeftWaiting ==
  Clean /\ pc = "recv" /\ wire = << >> /\ errors = << >> => dispatched = sent

\* What is parsed is always one stretch of the stream, the one that ends with the
\* next byte to arrive: also after the buffer overflowed or was discarded, and in
\* malformed streams, no command is made of bytes from two sides of a gap.  (Where
\* the stretch begins after an error is another matter: in the middle of a command,
\* maybe.)
NothingGluedTogether ==
  \E n \in 0 .. Len(stream) : buffer \o wire = SubSeq(stream, n + 1, Len(stream))
=============================================================================
