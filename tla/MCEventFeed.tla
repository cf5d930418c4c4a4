--------------------------- MODULE MCEventFeed ---------------------------
(* Instances of EventFeed for TLC. *)
EXTENDS EventFeed, TLC

CONSTANTS w1, w2, s1, s2

(* Worker processes are interchangeable (safety runs only). *)
MCSymmetry == Permutations(Workers)
==========================================================================
