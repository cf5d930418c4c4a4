-------------------------- MODULE MCClientRuntime --------------------------
(* Instances of ClientRuntime for TLC. *)
EXTENDS ClientRuntime, TLC

CONSTANTS p1, p2, none, one

(* CLI processes are interchangeable (safety runs only). *)
MCSymmetry == Permutations(Procs)
============================================================================
