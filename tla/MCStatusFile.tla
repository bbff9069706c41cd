---------------------------- MODULE MCStatusFile ----------------------------
(* StatusFile with a supervisor and a disable as writers, one reader, and a   *)
(* short status and a long one.                                               *)
EXTENDS StatusFile, TLC

CONSTANTS supervisor, disable, stopped, running, i1, i2, i3, i4

Writers == {supervisor, disable}
Values == {stopped, running}
Sizes == [v \in Values |-> IF v = stopped THEN 1 ELSE 3]
Inodes == {i1, i2, i3, i4}
SameInodes == Permutations(Inodes)
=============================================================================
