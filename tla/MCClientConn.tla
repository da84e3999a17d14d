---------------------------- MODULE MCClientConn ----------------------------
(***************************************************************************)
(* An instance of ClientConn for TLC: well-formed streams of two or three  *)
(* commands, malformed ones, and one with a command (36 bytes) that does   *)
(* not fit the command buffer (30); the others do.  One recv can bring two *)
(* whole commands.                                                         *)
(***************************************************************************)
EXTENDS ClientConn

\* The protocol's bytes, the letters of the commands, a sign and a space.
MCBytes == {"*", "$", "CR", "LF", "-", " ", "p", "G", "Q", "S", "k"} \cup DOMAIN DigitValue

Ping  == <<<<"p">>>>
Get   == <<<<"G">>, <<"k">>>>
Quit  == <<<<"Q">>>>
Set(v) == <<<<"S">>, <<"k">>, v>>

\* Payloads that look like the protocol: delimiters, a header, nothing at all.
Nasty == {<< >>, CRLF, <<"$", "1">>, <<"CR">>}

\* A payload whose length has two digits.
Long == <<"k", "k", "k", "k", "k", "k", "k", "k", "k", "k", "k">>

\* Well-formed streams.
CleanTraffic ==
  {[cmds |-> c, bytes |-> EncodeAll(c)] :
     c \in {<<Set(v), Ping>> : v \in Nasty}
           \cup {<<Get, Quit>>, <<Ping, Ping, Get>>, <<Ping, Set(Long), Ping>>}}

\* A command whose name is the NULL bulk string.
NullCommand == <<"*", "1">> \o CRLF \o <<"$", "-", "1">> \o CRLF

\* One byte of a command is replaced by another, and a good command follows.
BrokenTraffic ==
  {[cmds |-> << >>, bytes |-> ReplaceAt(Encode(Get), i, b) \o Encode(Ping)] :
     i \in DOMAIN Encode(Get), b \in {"*", "$", "CR", "LF", "-", "0", "3", " "}}
  \cup {[cmds |-> << >>, bytes |-> NullCommand \o Encode(Ping)]}

MCTraffic == CleanTraffic \cup BrokenTraffic
=============================================================================
