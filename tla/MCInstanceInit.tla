--------------------------- MODULE MCInstanceInit ---------------------------
(* A small instance of InstanceInit. *)
EXTENDS InstanceInit

CONSTANTS p1, p2, g1, a1

TwoPartitions == {p1, p2}
OneGroup      == {g1}
OneAdmin      == {a1}
=============================================================================
