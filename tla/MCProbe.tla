------------------------------ MODULE MCProbe ------------------------------
(***************************************************************************)
(* A run of the probe on a fresh platform, on one where everything of a    *)
(* fixed name is left, and on one where all but what a test does not       *)
(* accept as existing is left.                                             *)
(***************************************************************************)
EXTENDS ProbeRunner

SomeLeftovers == {{}, FixedNames, FixedNames \ Unforgiven}
=============================================================================
