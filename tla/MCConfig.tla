------------------------------ MODULE MCConfig ------------------------------
(***************************************************************************)
(* Instances of Config for TLC: the limits of every range, both sides of   *)
(* each, and strings that are no number.                                   *)
(***************************************************************************)
EXTENDS Config

\* not a number, a number with a tail, out of the range of a long
Odd == {Unset,
        [set |-> TRUE, value |-> 0, rest |-> TRUE, erange |-> FALSE],
        [set |-> TRUE, value |-> 2000, rest |-> TRUE, erange |-> FALSE],
        [set |-> TRUE, value |-> 2147483647, rest |-> FALSE, erange |-> TRUE]}

MCPorts == Odd \cup {Text(n) : n \in {-1, 0, 1023, 1024, 6379, 65535, 65536}}
MCPartitions == Odd \cup {Text(n) : n \in {-1, 0, 1, 2, 3, 7, 12, 32, 63, 64, 65}}

\* up to 2047 the bytes fit an int
MCSizes ==
  Odd \cup {Text(n) : n \in {-1, 0, 1, 2, 3, 12, 48, 49, 96, 100, 1000, 2046, 2047,
                            2048, 3000, 4095, 4096, 4097}}
=============================================================================
