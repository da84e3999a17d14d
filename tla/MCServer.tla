------------------------------ MODULE MCServer ------------------------------
(***************************************************************************)
(* Instances of Server for TLC.                                            *)
(***************************************************************************)
EXTENDS Server

MCClients1 == {"c1"}
MCClients2 == {"c1", "c2"}

\* The kernel prefers the main thread; POSIX lets it choose any.
MainOnly == {"main"}
MainOrClient == {"main", "c1"}
=============================================================================
