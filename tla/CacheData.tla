----------------------------- MODULE CacheData -----------------------------
(***************************************************************************)
(* What every layer of PodCache agrees on: keys, value contents with their *)
(* byte sizes, the NULL pointer, the return codes of the C functions, and  *)
(* which system calls may fail.                                            *)
(*                                                                         *)
(* A value is a member of Values; the bytes themselves never matter, only  *)
(* their number.  Torn stands for the truncated contents a short write     *)
(* leaves in a file.  Keys are compared by identity, as strcmp and the     *)
(* SHA-256 path do.                                                        *)
(***************************************************************************)
EXTENDS Integers

CONSTANTS
  Keys,        \* cache keys
  Values,      \* what clients store
  Torn,        \* the contents of a truncated value.dat
  NULL,        \* the null pointer: no node, no value, no file
  SizeOf,      \* SizeOf[c]: the number of bytes of the contents c
  MemMayFail,  \* TRUE if malloc, calloc, strdup and realloc may return NULL
  IoMayFail    \* TRUE if mkdir, remove, fopen, fwrite, fread, fclose may fail

\* Everything a value pointer can point to.
Contents == Values \cup {Torn}

ASSUME DataAssumption ==
  /\ Torn \notin Values
  /\ NULL \notin Contents
  /\ NULL \notin Keys
  /\ SizeOf \in [Contents -> Nat]
  /\ MemMayFail \in BOOLEAN
  /\ IoMayFail \in BOOLEAN

\* Return codes of lru_cache.c, cas.c and pod_cache.c.
OK    == 0
FAIL  == -1
SHORT == -9      \* cas_put: fwrite wrote fewer bytes than asked
MISS  == -100    \* the key is not in the memory partition
FULL  == -900    \* the partition has no room for the value

\* The outcome of a call that dereferences a null pointer: no code is returned.
CRASH == -999

LruCodes == {OK, FAIL, MISS, FULL, CRASH}
CasCodes == {OK, FAIL, SHORT, CRASH}
=============================================================================
