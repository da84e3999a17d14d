------------------------------ MODULE MCLogger ------------------------------
(***************************************************************************)
(* Instances of Logger for TLC, with the sizes of clogger.c.               *)
(***************************************************************************)
EXTENDS Logger

\* every directive once, with as much text as 127 characters leave
EveryDirective ==
  <<"LEVEL", "TIME", "FILE", "text", "FUNC", "LINE", "PID", "THREAD", "MSG", "text">>

\* 127 characters of %FILE%
FileRepeated == [i \in 1 .. 21 |-> "FILE"]

\* up to three of the longest, repeated or not
LongOnes == UNION {[1 .. n -> {"FILE", "FUNC", "MSG"}] : n \in 1 .. 3}

MCFormats == LongOnes \cup {EveryDirective, FileRepeated, <<"text", "text", "text">>}
MCLengths == {0, 1023, 1024, 16384}

\* Bound: the name of a source file or a function has at most 400 characters.
MCNames == {30, 400}
=============================================================================
