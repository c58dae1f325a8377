----------------------------- MODULE DataAgents -----------------------------
(***************************************************************************)
(* The four shell agents side by side: each runs in a pod of its own, and  *)
(* they meet in the config map.                                            *)
(***************************************************************************)
EXTENDS DataInit, SeedData, Transfer

CONSTANT PodSets         \* the sets of agents installed at a time

ASSUME PodSetsAssumption == PodSets \subseteq SUBSET Agents

vars == <<reportVars, initVars, seedVars, transferVars>>

Pods == {a \in Agents : pc[a] # "absent"}

Init ==
  /\ \E pods \in PodSets : ReportInit(pods)
  /\ InitAgentsInit /\ SeedInit /\ TransferInit

AgentStep(a) ==
  \/ /\ a \in InitAgents
     /\ InitAgentStep(a)
     /\ UNCHANGED <<seedVars, transferVars>>
  \/ /\ a = "static"
     /\ SeedStep
     /\ UNCHANGED <<initVars, transferVars>>
  \/ /\ a = "helper"
     /\ TransferStep
     /\ UNCHANGED <<initVars, seedVars>>
  \/ /\ ReportStep(a)
     /\ UNCHANGED <<initVars, seedVars, transferVars>>

Terminated == (\A a \in Agents : Ended(a)) /\ UNCHANGED vars

Next == (\E a \in Agents : AgentStep(a)) \/ Terminated

\* each pod goes on by itself; curl, git, az and kubectl are assumed to return
Spec == Init /\ [][Next]_vars /\ \A a \in Agents : WF_vars(AgentStep(a))

-----------------------------------------------------------------------------
(* properties *)

\* Types of the agents' own and of their shared state.
TypeOK ==
  /\ ReportTypeOK
  /\ InitTypeOK
  /\ SeedTypeOK
  /\ TransferTypeOK

TransferReport == INSTANCE InitReport WITH
  Required     <- Shares,
  acknowledged <- {x \in Shares : share[x] # "nothing"},
  report       <- ExitReport("helper")

\* What the agents report by their exit codes keeps InitReport's promise: each
\* call is accepted once, nothing is posted after the report, and a success is complete.
ExitIsAReport ==
  PartitionReport!ReportSpec /\ EntitlementsReport!ReportSpec /\ TransferReport!ReportSpec

\* Every agent that is installed exits, whatever the services answer.
AgentsExit == <>(\A a \in Agents : Ended(a))
=============================================================================
