----------------------------- MODULE InitReport -----------------------------
(***************************************************************************)
(* What the agent's report promises to the one who reads it: calls are     *)
(* acknowledged one after the other and stay so, at most one report is      *)
(* given, and it is "success" only when every call has been acknowledged.  *)
(***************************************************************************)
CONSTANT Required        \* the calls an initialization consists of

VARIABLES
  acknowledged,          \* the calls a service has accepted
  report                 \* "none", "success" or "failure"

ReportInit ==
  /\ acknowledged = {}
  /\ report = "none"

Acknowledge ==
  /\ report = "none"
  /\ \E w \in Required \ acknowledged : acknowledged' = acknowledged \cup {w}
  /\ UNCHANGED report

ReportSuccess ==
  /\ report = "none"
  /\ acknowledged = Required
  /\ report' = "success"
  /\ UNCHANGED acknowledged

ReportFailure ==
  /\ report = "none"
  /\ report' = "failure"
  /\ UNCHANGED acknowledged

ReportNext == Acknowledge \/ ReportSuccess \/ ReportFailure

ReportSpec == ReportInit /\ [][ReportNext]_<<acknowledged, report>>
=============================================================================
