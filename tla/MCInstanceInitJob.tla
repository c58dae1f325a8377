------------------------- MODULE MCInstanceInitJob -------------------------
(* Small instances of InstanceInitJob. *)
EXTENDS InstanceInitJob

CONSTANTS p1, p2, g1, g2, a1

TwoPartitions == {p1, p2}
TwoGroups     == {g1, g2}
OneGroup      == {g1}
OneAdmin      == {a1}
=============================================================================
