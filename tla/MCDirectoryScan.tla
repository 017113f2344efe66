-------------------------- MODULE MCDirectoryScan --------------------------
(* A small instance of DirectoryScan for TLC. *)
EXTENDS DirectoryScan
CONSTANTS x, y
=============================================================================
