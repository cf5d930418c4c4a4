------------------------ MODULE MCMaterialization ------------------------
(* Instances of Materialization for TLC. *)
EXTENDS Materialization, TLC

CONSTANTS p, q, a, b

(* Before the first command the user has one file, which may be what the   *)
(* server has.                                                              *)
MCLocal == {[x \in {p, q} |-> IF x = p THEN b ELSE Absent]}

(* Between the two versions one file is replaced and one deleted, or in the *)
(* other order one replaced and one created.                                *)
MCRemote == {[x \in {p, q} |-> a],
             [x \in {p, q} |-> IF x = p THEN b ELSE Absent]}
==========================================================================
