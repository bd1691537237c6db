--------------------------- MODULE MCSpawnProcess ---------------------------
(***************************************************************************)
(* Two threads, a descriptor table with room for both of their pipes, and  *)
(* commands that print less than a pipe holds, as much, and more.          *)
(***************************************************************************)
EXTENDS SpawnProcess, TLC
=============================================================================
