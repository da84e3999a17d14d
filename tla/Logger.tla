------------------------------- MODULE Logger -------------------------------
(***************************************************************************)
(* The logger (clogger.c): its level, its file, its format, and the buffer *)
(* a line is built in.  The mutex of clog_log, which makes a call one step *)
(* here, is the subject of Server.                                         *)
(*                                                                         *)
(* A format is the sequence of its directives and of the stretches of text *)
(* between them, a message is its length; what a directive or a stretch    *)
(* puts in is taken at its longest.  Colours and the text itself are left  *)
(* out.                                                                    *)
(***************************************************************************)
EXTENDS Naturals, Sequences, SequencesExt

CONSTANTS
  Formats,    \* the formats a program or a configuration file may set
  Lengths,    \* how long messages are before they are cut
  Names,      \* how long the names of source files and functions are
  TextSize,   \* the longest stretch of text in a format
  LineSize,   \* sizeof(log_buf)
  MessageSize \* sizeof(msg_buf)

\* LogLevel, in order
Levels == 0 .. 4
LOG_LEVEL_INFO == 1

Directives == {"LEVEL", "TIME", "FILE", "LINE", "FUNC", "MSG", "PID", "THREAD"}

\* "[%LEVEL%] %TIME% : %MSG%"
DefaultFormat == <<"text", "LEVEL", "text", "TIME", "text", "MSG">>

ASSUME LoggerAssumption ==
  /\ Formats \subseteq Seq(Directives \cup {"text"})
  /\ Lengths \cup Names \cup {TextSize} \subseteq Nat
  /\ LineSize \in Nat \ {0} /\ MessageSize \in Nat \ {0}

VARIABLES
  current_level,
  log_file,       \* the log file is open
  output_stream,  \* the output stream is set
  log_format,
  out,            \* where this call wrote the terminating zero of its line
  emitted         \* the level of the message this call wrote, if it wrote one

vars == <<current_level, log_file, output_stream, log_format, out, emitted>>

\* Types; and clog_log writes no message below the current level.
TypeOK ==
  /\ current_level \in Levels
  /\ log_file \in BOOLEAN /\ output_stream \in BOOLEAN
  /\ log_format \in Formats \cup {DefaultFormat}
  /\ out \in Nat
  /\ emitted \in {<< >>} \cup {<<l>> : l \in {x \in Levels : x >= current_level}}

Init ==
  /\ current_level = LOG_LEVEL_INFO
  /\ log_file = FALSE
  /\ output_stream = FALSE
  /\ log_format = DefaultFormat
  /\ out = 0
  /\ emitted = << >>

-----------------------------------------------------------------------------

\* The call writes no line.
NoLine == out' = 0 /\ emitted' = << >>

\* opened: fopen succeeds; if no path is given, the file stays as it is
Opens(path, opened) == log_file' = IF path THEN opened ELSE log_file

clog_init(l, path, opened) ==
  /\ output_stream' = TRUE
  /\ current_level' = l
  /\ Opens(path, opened)
  /\ NoLine
  /\ UNCHANGED log_format

\* The body is empty: the level it is given is not even looked at.
clog_set_level ==
  /\ NoLine
  /\ UNCHANGED <<current_level, log_file, output_stream, log_format>>

clog_set_log_format(f) ==
  /\ log_format' = f
  /\ NoLine
  /\ UNCHANGED <<current_level, log_file, output_stream>>

\* A file that parses may give a level (INFO if it does not), a path and a
\* format.  One that does not changes nothing.
clog_load_config(l, path, opened, f) ==
  /\ output_stream' = TRUE
  /\ current_level' = l
  /\ Opens(path, opened)
  /\ log_format' = f
  /\ NoLine

clog_close ==
  /\ log_file' = FALSE
  /\ NoLine
  /\ UNCHANGED <<current_level, output_stream, log_format>>

-----------------------------------------------------------------------------
(* clog_log                                                                *)

\* Mutant: the message is formatted without a limit of its own.
CutMessageNot(len) == len

\* vsnprintf into msg_buf
CutMessage(len) == IF len < MessageSize THEN len ELSE MessageSize - 1

\* How many characters a directive puts in, names and numbers at their longest.
Width(d, len, name) ==
  CASE d = "MSG" -> CutMessage(len)
    [] d \in {"FILE", "FUNC"} -> name
    [] d \in {"LEVEL", "LINE"} -> 5
    [] d = "TIME" -> 19
    [] d = "PID" -> 10
    [] d = "THREAD" -> 20

\* Where the loop stops.  It looks at the room left before each directive and
\* each character; snprintf then cuts what it writes, but returns, and the loop
\* adds, the length it would have needed.
LineEnd(len, name) ==
  LET After(end, d) ==
        IF end >= LineSize - 1 THEN end
        ELSE IF d # "text" THEN end + Width(d, len, name)
        ELSE IF end + TextSize < LineSize THEN end + TextSize
        ELSE LineSize - 1
  IN FoldLeft(After, 0, log_format)

\* Mutant: the comparison of the levels lets the next lower one through.
LogOneLower(level, len, name) ==
  /\ output_stream
  /\ IF level + 1 < current_level
       THEN NoLine
       ELSE out' = LineEnd(len, name) /\ emitted' = <<level>>
  /\ UNCHANGED <<current_level, log_file, output_stream, log_format>>

clog_log(level, len, name) ==
  /\ output_stream
  /\ IF level < current_level
       THEN NoLine
       ELSE out' = LineEnd(len, name) /\ emitted' = <<level>>
  /\ UNCHANGED <<current_level, log_file, output_stream, log_format>>

Configure ==
  \E l \in Levels, path \in BOOLEAN, opened \in BOOLEAN :
    \/ clog_init(l, path, opened)
    \/ \E f \in Formats \cup {log_format} : clog_load_config(l, path, opened, f)

Log == \E level \in Levels, len \in Lengths, name \in Names : clog_log(level, len, name)

Next ==
  \/ Configure
  \/ clog_set_level
  \/ \E f \in Formats : clog_set_log_format(f)
  \/ Log
  \/ clog_close

Spec == Init /\ [][Next]_vars
-----------------------------------------------------------------------------
(* What must hold.                                                         *)

\* A line leaves log_buf only in a format that repeats a directive: one that
\* names each at most once, as the default does, has room for a message of every
\* length, since it has been cut to half of the buffer, next to names as long as
\* Names allows.
LineFits ==
  out > LineSize - 1 =>
    \E i, j \in DOMAIN log_format :
      i # j /\ log_format[i] = log_format[j] /\ log_format[i] \in Directives
=============================================================================
