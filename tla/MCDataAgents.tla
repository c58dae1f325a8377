---------------------------- MODULE MCDataAgents ----------------------------
(* Small instances of DataAgents.  The three steps in which agents meet are   *)
(* the same for all four: one pair shows the races.                           *)
EXTENDS DataAgents

PodsTogether == {{"partition", "entitlements"}, {"helper"}, {"static"}}
PartitionPod == {{"partition"}}
=============================================================================
