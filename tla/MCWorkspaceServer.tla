------------------------ MODULE MCWorkspaceServer ------------------------
(* Instances of WorkspaceServer for TLC. *)
EXTENDS WorkspaceServer, TLC

CONSTANTS d1, d2, u1, u2, a, b, k1

(* Two devices of one user, who is or is not the owner. *)
MCOneUser == [d \in Devices |-> u1]

(* One device for each of two users. *)
MCTwoUsers == d1 :> u1 @@ d2 :> u2

(* Devices of one user are interchangeable, and so are manifests. *)
MCSymmetry == Permutations(Devices) \cup Permutations(Contents)
==========================================================================
