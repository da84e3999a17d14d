----------------------------- MODULE MCCommands -----------------------------
(***************************************************************************)
(* An instance of Commands for TLC.  k1 and k2 share partition 0, k3 is in *)
(* partition 1.  A numeral takes one byte and text two, of the two bytes a *)
(* partition holds; a reply has room for one.  A counter starts at 1, the  *)
(* largest long, wraps and runs through all the others.                    *)
(***************************************************************************)
EXTENDS Commands, TLC

CONSTANTS k1, k2, k3, txt

MCValues == Numerals \cup {Empty, txt}
MCClientValues == [k \in Keys |-> IF k = k3 THEN {} ELSE {Empty, txt}]
MCSizeOf == [c \in Contents |-> CASE c \in {Empty, Torn} -> 0 [] c = txt -> 2 [] OTHER -> 1]
MCPartOf == [k \in Keys |-> IF k = k3 THEN 1 ELSE 0]

\* Keys of one partition are interchangeable.
KeyNames == Permutations({k1, k2})
=============================================================================
