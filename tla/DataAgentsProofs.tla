-------------------------- MODULE DataAgentsProofs --------------------------
(***************************************************************************)
(* Proofs about the shell agents: the config map the four share, and the   *)
(* two initialization agents, for every number of partitions and every set *)
(* of agents installed together.  What the two seeding agents do, and the  *)
(* reports of all, is in SeedingProofs.                                    *)
(***************************************************************************)
EXTENDS Integers, DataAgents, TLAPS

\* What each agent does between its start and the config map.
WorkStep(a) ==
  \/ a \in InitAgents /\ InitAgentStep(a) /\ UNCHANGED <<seedVars, transferVars>>
  \/ a = "static" /\ SeedStep /\ UNCHANGED <<initVars, transferVars>>
  \/ a = "helper" /\ TransferStep /\ UNCHANGED <<initVars, seedVars>>

Reporting == {"read", "replace", "exit", "done"}

\* A step of agent a leaves the config map and the other agents' places alone.
LeavesMap(a) ==
  /\ UNCHANGED mapVars
  /\ pc[a] \notin Reporting
  /\ pc' \in [Agents -> Labels]
  /\ pc'[a] \notin {"replace", "exit", "done", "absent"}
  /\ \A b \in Agents \ {a} : pc'[b] = pc[b] /\ failed'[b] = failed[b]
  /\ failed' \in [Agents -> BOOLEAN]

\* A step of the system is a step of one agent, at its work or at its report.
LEMMA StepOfAgent ==
  ASSUME [Next]_vars
  PROVE  \/ \E a \in Agents : WorkStep(a)
         \/ \E a \in Agents : ReportStep(a) /\ UNCHANGED <<initVars, seedVars, transferVars>>
         \/ UNCHANGED vars
BY DEF Next, AgentStep, WorkStep, Terminated

\* No step of an agent's work touches the config map.
LEMMA InitWorkLeavesMap ==
  ASSUME ReportTypeOK, NEW a \in InitAgents, InitAgentStep(a)
  PROVE  LeavesMap(a)
<1> USE DEF ReportTypeOK, Goto, InitAgentStep, FetchToken, CallAccepted, CallRejected,
            CallUnanswered, CallUnauthorized, EndLoop, CompareCounts, Continue, Break
<1>0. a \in Agents
      BY DEF InitAgents, Agents
<1>1. UNCHANGED mapVars /\ pc[a] \notin Reporting
      BY DEF MapFrame, Reporting
<1>2. pc' \in [Agents -> Labels]
      BY <1>0, ZenonT(30) DEF Labels
<1>3. pc'[a] \notin {"replace", "exit", "done", "absent"}
      BY <1>0
<1>4. \A b \in Agents \ {a} : pc'[b] = pc[b]
      BY <1>0
<1>5. \A b \in Agents \ {a} : failed'[b] = failed[b]
      BY <1>0
<1>6. failed' \in [Agents -> BOOLEAN]
      BY <1>0
<1> QED BY <1>1, <1>2, <1>3, <1>4, <1>5, <1>6 DEF LeavesMap

LEMMA SeedLeavesMap ==
  ASSUME ReportTypeOK, SeedStep
  PROVE  LeavesMap(s)
<1> USE DEF ReportTypeOK, Goto, SeedStep, LoginFails, LoginReturns, FindStorage, UploadBlob,
            ListBlobs, FindCosmos, UploadTenantInfo, EndRound, Advance, Fail
<1>0. s \in Agents
      BY DEF s, Agents
<1>1. UNCHANGED mapVars /\ pc[s] \notin Reporting
      BY DEF MapFrame, Reporting
<1>2. pc' \in [Agents -> Labels]
      BY <1>0, ZenonT(30) DEF Labels
<1>3. pc'[s] \notin {"replace", "exit", "done", "absent"}
      BY <1>0
<1>4. \A b \in Agents \ {s} : pc'[b] = pc[b]
      BY <1>0
<1>5. \A b \in Agents \ {s} : failed'[b] = failed[b]
      BY <1>0
<1>6. failed' \in [Agents -> BOOLEAN]
      BY <1>0
<1> QED BY <1>1, <1>2, <1>3, <1>4, <1>5, <1>6 DEF LeavesMap

LEMMA TransferLeavesMap ==
  ASSUME ReportTypeOK, TransferStep
  PROVE  LeavesMap(h)
<1> USE DEF ReportTypeOK, Goto, TransferStep, CloneRepositories, TransferLogin, CopyConversion,
            CopyCatalog, CopyUnit, Upload
<1>0. h \in Agents
      BY DEF h, Agents
<1>1. UNCHANGED mapVars /\ pc[h] \notin Reporting
      BY DEF MapFrame, Reporting
<1>2. pc' \in [Agents -> Labels]
      BY <1>0, ZenonT(30) DEF Labels
<1>3. pc'[h] \notin {"replace", "exit", "done", "absent"}
      BY <1>0
<1>4. \A b \in Agents \ {h} : pc'[b] = pc[b]
      BY <1>0
<1>5. \A b \in Agents \ {h} : failed'[b] = failed[b]
      BY <1>0
<1>6. failed' \in [Agents -> BOOLEAN]
      BY <1>0
<1> QED BY <1>1, <1>2, <1>3, <1>4, <1>5, <1>6 DEF LeavesMap

LEMMA WorkLeavesMap ==
  ASSUME ReportTypeOK, NEW a \in Agents, WorkStep(a)
  PROVE  LeavesMap(a)
BY InitWorkLeavesMap, SeedLeavesMap, TransferLeavesMap DEF WorkStep, s, h

-----------------------------------------------------------------------------
(* the config map *)

\* The map, the snapshots of it and what was replaced before a read hold agents that
\* have replaced the map.
MapHoldsReplaced ==
  /\ \A a \in Agents : replaced[a] => pc[a] \in {"exit", "done"}
  /\ \A b \in configMap.messages : replaced[b]
  /\ \A a \in Agents : \A b \in snapshot[a] : replaced[b]
  /\ \A a \in Agents : \A b \in before[a] : replaced[b]

\* agent b can have wiped the message of a
Wiped(a, b) == replaced[b] /\ a \notin snapshot[b] /\ (Overlapped(a, b) \/ getFailed[b])
Explained(a) == \E b \in Agents \ {a} : Wiped(a, b)

\* A reader who came after a replace and did not find its message found it lost already.
MissedIsLost ==
  \A a, b \in Agents : a \in before[b] /\ a \notin snapshot[b] /\ ~getFailed[b] => Explained(a)

MapInv == ReportTypeOK /\ MapHoldsReplaced /\ MissedIsLost /\ LostToRaceOrFailedGet

LEMMA MapInit == Init => MapInv
<1> SUFFICES ASSUME NEW pods \in PodSets, ReportInit(pods) PROVE MapInv
    BY DEF Init
<1> USE DEF ReportInit
<1>1. \A a \in Agents : Start(a) \in Labels
      BY DEF Agents, Start, Labels
<1>2. pc \in [Agents -> Labels]
      BY <1>1 DEF Labels
<1>3. ReportTypeOK
      BY <1>2 DEF ReportTypeOK
<1>4. \A a \in Agents : ~replaced[a] /\ snapshot[a] = {} /\ before[a] = {}
      OBVIOUS
<1>5. configMap.messages = {}
      OBVIOUS
<1> QED BY <1>3, <1>4, <1>5 DEF MapInv, MapHoldsReplaced, MissedIsLost, LostToRaceOrFailedGet

\* Who has replaced the map keeps what was read for it, so a cause stays a cause.
LEMMA CausesStay ==
  ASSUME NEW a \in Agents, Explained(a), replaced[a],
         \A b \in Agents : replaced[b] => /\ replaced'[b] /\ snapshot'[b] = snapshot[b]
                                         /\ before'[b] = before[b] /\ getFailed'[b] = getFailed[b]
  PROVE  Explained(a)'
<1>1. PICK b \in Agents \ {a} : Wiped(a, b)
      BY DEF Explained
<1>2. Wiped(a, b)'
      BY <1>1 DEF Wiped, Overlapped
<1> QED BY <1>1, <1>2 DEF Explained

LEMMA ReadKeepsMap == ASSUME MapInv, NEW a \in Agents, ReadConfigMap(a) PROVE MapInv'
<1> USE DEF ReadConfigMap, Goto, MapInv
<1>1. ReportTypeOK'
  <2>1. pc' \in [Agents -> Labels] /\ failed' \in [Agents -> BOOLEAN]
        BY DEF ReportTypeOK, Labels
  <2>2. snapshot' \in [Agents -> SUBSET Agents] /\ getFailed' \in [Agents -> BOOLEAN]
        BY DEF ReportTypeOK
  <2>3. before' \in [Agents -> SUBSET Agents] /\ UNCHANGED <<replaced, configMap, sidecar>>
        BY DEF ReportTypeOK
  <2> QED BY <2>1, <2>2, <2>3 DEF ReportTypeOK
<1>2. ~replaced[a] /\ UNCHANGED <<replaced, configMap>>
      BY DEF MapHoldsReplaced
<1>3. \A b \in Agents \ {a} : /\ snapshot'[b] = snapshot[b] /\ pc'[b] = pc[b]
                              /\ before'[b] = before[b] /\ getFailed'[b] = getFailed[b]
      BY DEF ReportTypeOK
<1>4. /\ \/ snapshot'[a] = configMap.messages
         \/ snapshot'[a] = snapshot[a] /\ getFailed'[a]
      /\ before'[a] = {b \in Agents : replaced[b]}
      BY DEF ReportTypeOK
<1>5. MapHoldsReplaced'
  <2>1. \A b \in snapshot'[a] : replaced'[b]
    <3>1. CASE snapshot'[a] = configMap.messages
          BY <1>2, <3>1 DEF MapHoldsReplaced
    <3>2. CASE snapshot'[a] = snapshot[a]
          BY <1>2, <3>2 DEF MapHoldsReplaced
    <3> QED BY <1>4, <3>1, <3>2
  <2>2. \A b \in before'[a] : replaced'[b]
        BY <1>2, <1>4
  <2> QED BY <1>2, <1>3, <2>1, <2>2 DEF MapHoldsReplaced
<1>6. \A b \in Agents : replaced[b] => /\ replaced'[b] /\ snapshot'[b] = snapshot[b]
                                      /\ before'[b] = before[b] /\ getFailed'[b] = getFailed[b]
      BY <1>2, <1>3
<1>7. \A x \in Agents : replaced[x] /\ Explained(x) => Explained(x)'
      BY <1>6, CausesStay
<1>8. LostToRaceOrFailedGet <=>
        \A x \in Agents : replaced[x] /\ x \notin configMap.messages => Explained(x)
      BY DEF LostToRaceOrFailedGet, Explained, Wiped
<1>9. LostToRaceOrFailedGet'
  <2>1. \A x \in Agents : replaced'[x] /\ x \notin configMap'.messages => Explained(x)'
        BY <1>2, <1>7, <1>8
  <2> QED BY <2>1 DEF LostToRaceOrFailedGet, Explained, Wiped
<1>10. MissedIsLost'
  <2> SUFFICES ASSUME NEW x \in Agents, NEW b \in Agents,
                      x \in before'[b], x \notin snapshot'[b], ~getFailed'[b]
               PROVE  Explained(x)'
      BY DEF MissedIsLost
  <2>1. replaced[x]
        BY <1>2, <1>5 DEF MapHoldsReplaced
  <2>2. CASE b = a
    <3>1. x \notin configMap.messages
          BY <1>4, <2>2
    <3> QED BY <1>7, <1>8, <2>1, <3>1
  <2>3. CASE b # a
        BY <1>3, <1>7, <2>1, <2>3 DEF MissedIsLost
  <2> QED BY <2>2, <2>3
<1> QED BY <1>1, <1>5, <1>9, <1>10

LEMMA ReplaceKeepsMap == ASSUME MapInv, NEW a \in Agents, ReplaceConfigMap(a) PROVE MapInv'
<1> USE DEF ReplaceConfigMap, Goto, MapInv
<1>1. ReportTypeOK'
  <2>1. configMap' \in [status : {"none", "success", "failure"}, messages : SUBSET Agents]
    <3>1. snapshot[a] \cup {a} \in SUBSET Agents
          BY DEF ReportTypeOK
    <3>2. Result(a) \in {"none", "success", "failure"}
          BY DEF Result
    <3> QED BY <3>1, <3>2 DEF ReportTypeOK
  <2>2. pc' \in [Agents -> Labels]
        BY DEF ReportTypeOK, Labels
  <2>3. replaced' \in [Agents -> BOOLEAN] /\ UNCHANGED <<failed, snapshot, sidecar, before, getFailed>>
        BY DEF ReportTypeOK
  <2> QED BY <2>1, <2>2, <2>3 DEF ReportTypeOK
<1>2. \A b \in Agents \ {a} : pc'[b] = pc[b] /\ replaced'[b] = replaced[b]
      BY DEF ReportTypeOK
<1>3. ~replaced[a] /\ pc'[a] = "exit" /\ UNCHANGED <<snapshot, before, getFailed>>
      BY DEF MapHoldsReplaced, ReportTypeOK
<1>4. \A x \in Agents : replaced[x] => replaced'[x]
      BY <1>2, <1>3
<1>5. \A x \in Agents : replaced[x] /\ Explained(x) => Explained(x)'
      BY <1>3, <1>4, CausesStay
<1>6. MissedIsLost'
  <2> SUFFICES ASSUME NEW x \in Agents, NEW b \in Agents,
                      x \in before[b], x \notin snapshot[b], ~getFailed[b]
               PROVE  Explained(x)'
      BY <1>3 DEF MissedIsLost
  <2>1. replaced[x] /\ Explained(x)
        BY DEF MissedIsLost, MapHoldsReplaced
  <2> QED BY <1>5, <2>1
<1>7. MapHoldsReplaced' /\ LostToRaceOrFailedGet'
  <2>1. CASE UNCHANGED <<configMap, replaced>>
    <3>1. MapHoldsReplaced'
          BY <1>2, <1>3, <2>1 DEF MapHoldsReplaced
    <3>2. LostToRaceOrFailedGet'
          BY <1>3, <2>1 DEF LostToRaceOrFailedGet, Overlapped
    <3> QED BY <3>1, <3>2
  <2>2. CASE configMap'.messages = snapshot[a] \cup {a} /\ replaced' = [replaced EXCEPT ![a] = TRUE]
    <3>1. replaced'[a]
          BY <2>2 DEF ReportTypeOK
    <3>2. MapHoldsReplaced'
      <4>1. \A b \in Agents : \A c \in snapshot[b] : c \in Agents /\ replaced[c]
            BY DEF MapHoldsReplaced, ReportTypeOK
      <4>2. \A b \in Agents : \A c \in before[b] : c \in Agents /\ replaced[c]
            BY DEF MapHoldsReplaced, ReportTypeOK
      <4>3. /\ \A b \in Agents : \A c \in snapshot[b] : replaced'[c]
            /\ \A b \in Agents : \A c \in before[b] : replaced'[c]
            BY <1>4, <4>1, <4>2
      <4>4. \A c \in configMap'.messages : replaced'[c]
            BY <2>2, <3>1, <4>3
      <4>5. \A b \in Agents : replaced'[b] => pc'[b] \in {"exit", "done"}
            BY <1>2, <1>3 DEF MapHoldsReplaced
      <4> QED BY <1>3, <4>3, <4>4, <4>5 DEF MapHoldsReplaced
    <3>3. ASSUME NEW x \in Agents, replaced'[x], x \notin configMap'.messages
          PROVE  Explained(x)'
      <4>1. x # a /\ replaced[x] /\ x \notin snapshot[a]
            BY <1>2, <2>2, <3>3
      <4>2. CASE getFailed[a] \/ x \notin before[a]
        <5>1. a \notin before[x]
              BY <1>3 DEF MapHoldsReplaced
        <5>2. Wiped(x, a)'
              BY <1>3, <3>1, <4>1, <4>2, <5>1 DEF Wiped, Overlapped
        <5> QED BY <4>1, <5>2 DEF Explained
      <4>3. CASE ~getFailed[a] /\ x \in before[a]
            BY <1>5, <4>1, <4>3 DEF MissedIsLost
      <4> QED BY <4>2, <4>3
    <3>4. LostToRaceOrFailedGet'
          BY <3>3 DEF LostToRaceOrFailedGet, Explained, Wiped
    <3> QED BY <3>2, <3>4
  <2>3. \/ configMap'.messages = snapshot[a] \cup {a} /\ replaced' = [replaced EXCEPT ![a] = TRUE]
        \/ UNCHANGED <<configMap, replaced>>
        OBVIOUS
  <2> QED BY <2>1, <2>2, <2>3
<1> QED BY <1>1, <1>6, <1>7

LEMMA MapStep == MapInv /\ [Next]_vars => MapInv'
<1> SUFFICES ASSUME MapInv, [Next]_vars PROVE MapInv'
    OBVIOUS
<1> USE DEF MapInv
<1>1. ASSUME NEW a \in Agents, WorkStep(a) PROVE MapInv'
  <2>1. LeavesMap(a)
        BY <1>1, WorkLeavesMap
  <2>2. ReportTypeOK'
        BY <2>1 DEF LeavesMap, ReportTypeOK, mapVars
  <2>3. MapHoldsReplaced'
        BY <2>1 DEF LeavesMap, MapHoldsReplaced, mapVars, Reporting
  <2>4. LostToRaceOrFailedGet'
        BY <2>1 DEF LeavesMap, LostToRaceOrFailedGet, Overlapped, mapVars
  <2>5. MissedIsLost'
        BY <2>1 DEF LeavesMap, MissedIsLost, Explained, Wiped, Overlapped, mapVars
  <2> QED BY <2>2, <2>3, <2>4, <2>5
<1>2. ASSUME NEW a \in Agents, ReadConfigMap(a) PROVE MapInv'
      BY <1>2, ReadKeepsMap
<1>3. ASSUME NEW a \in Agents, ReplaceConfigMap(a) PROVE MapInv'
      BY <1>3, ReplaceKeepsMap
<1>4. ASSUME NEW a \in Agents, Cleanup(a) PROVE MapInv'
  <2> USE <1>4 DEF Cleanup, Goto
  <2>1. ReportTypeOK'
        BY DEF ReportTypeOK, Labels
  <2>2. MapHoldsReplaced'
        BY DEF ReportTypeOK, MapHoldsReplaced
  <2>3. UNCHANGED <<snapshot, replaced, configMap, before, getFailed>>
        OBVIOUS
  <2>4. LostToRaceOrFailedGet' /\ MissedIsLost'
        BY <2>3 DEF LostToRaceOrFailedGet, MissedIsLost, Explained, Wiped, Overlapped
  <2> QED BY <2>1, <2>2, <2>4
<1>5. CASE UNCHANGED vars
  <2>1. UNCHANGED <<pc, failed, snapshot, replaced, configMap, sidecar, before, getFailed>>
        BY <1>5 DEF vars, reportVars, mapVars
  <2>2. ReportTypeOK' /\ MapHoldsReplaced'
        BY <2>1 DEF ReportTypeOK, MapHoldsReplaced
  <2>3. LostToRaceOrFailedGet' /\ MissedIsLost'
        BY <2>1 DEF LostToRaceOrFailedGet, MissedIsLost, Explained, Wiped, Overlapped
  <2> QED BY <2>2, <2>3
<1> QED BY <1>1, <1>2, <1>3, <1>4, <1>5, StepOfAgent DEF ReportStep

\* A message is lost from the config map only when the read and the replace of two
\* agents overlapped or the read of an agent that replaced the map failed, whatever
\* agents are installed and however they are interleaved.
THEOREM MessagesLostToRaceOrFailedGet == Spec => []LostToRaceOrFailedGet
<1>1. MapInv => LostToRaceOrFailedGet
      BY DEF MapInv
<1> QED BY <1>1, MapInit, MapStep, PTL DEF Spec
-----------------------------------------------------------------------------
(* the two initialization agents: an exit code of 0 is the report of accepted   *)
(* calls, and the groups follow the tenant                                     *)

\* The place of a loop among those of its agent.
Place(name) == IF name = "root" THEN 4 ELSE IF name = "ops" THEN 3 ELSE IF name = "user" THEN 2 ELSE 1

LEMMA StepsOfAgents ==
  /\ Len(Steps("partition")) = 1 /\ Len(Steps("entitlements")) = 4
  /\ Steps("partition")[1] = "init"
  /\ Steps("entitlements")[1] = "tenant" /\ Steps("entitlements")[2] = "user"
  /\ Steps("entitlements")[3] = "ops" /\ Steps("entitlements")[4] = "root"
  /\ StepNames("partition") = {"init"}
  /\ StepNames("entitlements") = {"tenant", "user", "ops", "root"}
<1>1. Steps("partition") = <<"init">>
      BY DEF Steps
<1>2. Steps("entitlements") = <<"tenant", "user", "ops", "root">>
      BY DEF Steps
<1>3. 1 .. 1 = {1} /\ 1 .. 4 = {1, 2, 3, 4}
      OBVIOUS
<1>4. StepNames("partition") = {Steps("partition")[k] : k \in {1}}
      BY <1>1, <1>3 DEF StepNames
<1>5. StepNames("entitlements") = {Steps("entitlements")[k] : k \in {1, 2, 3, 4}}
      BY <1>2, <1>3 DEF StepNames
<1> QED BY <1>1, <1>2, <1>4, <1>5

\* The current loop is one of the agent's, and the only one at its place.
LEMMA CurrentStep ==
  ASSUME NEW a \in InitAgents, step[a] \in 1 .. Len(Steps(a))
  PROVE  /\ Step(a) \in StepNames(a)
         /\ Place(Step(a)) = step[a]
         /\ \A name \in StepNames(a) :
              /\ Place(name) \in 1 .. Len(Steps(a))
              /\ Place(name) = step[a] => name = Step(a)
         /\ Step(a) = "tenant" <=> a = "entitlements" /\ step[a] = 1
         /\ Len(Steps(a)) \in 1 .. 4
<1>1. CASE a = "partition"
  <2>1. step[a] = 1 /\ Step(a) = "init" /\ StepNames(a) = {"init"} /\ Len(Steps(a)) = 1
        BY <1>1, StepsOfAgents DEF Step
  <2>2. Place("init") = 1
        BY DEF Place
  <2> QED BY <1>1, <2>1, <2>2
<1>2. CASE a = "entitlements"
  <2>1. step[a] = 1 \/ step[a] = 2 \/ step[a] = 3 \/ step[a] = 4
    <3>1. Len(Steps(a)) = 4
          BY <1>2, StepsOfAgents
    <3>2. step[a] \in 1 .. 4
          BY <3>1
    <3> QED BY <3>2
  <2>2. /\ Place("tenant") = 1 /\ Place("user") = 2 /\ Place("ops") = 3 /\ Place("root") = 4
        BY DEF Place
  <2>3. CASE step[a] = 1
        BY <1>2, <2>2, <2>3, StepsOfAgents DEF Step
  <2>4. CASE step[a] = 2
        BY <1>2, <2>2, <2>4, StepsOfAgents DEF Step
  <2>5. CASE step[a] = 3
        BY <1>2, <2>2, <2>5, StepsOfAgents DEF Step
  <2>6. CASE step[a] = 4
        BY <1>2, <2>2, <2>6, StepsOfAgents DEF Step
  <2> QED BY <2>1, <2>3, <2>4, <2>5, <2>6
<1> QED BY <1>1, <1>2 DEF InitAgents

-----------------------------------------------------------------------------

\* The loops over partition part[a] that are over.
Over(a, name) ==
  \/ pc[a] \in {"compare"} \cup Reporting
  \/ Place(name) < step[a]
  \/ Place(name) = step[a] /\ pc[a] = "endloop"

\* How many partitions the loop has been run for.
Passed(a, name) == IF Over(a, name) THEN part[a] ELSE part[a] - 1

\* A counter counts no more than the partitions passed, and it counts them all only
\* when each of them was accepted.
CountersAreHonest(a) ==
  \A name \in StepNames(a) :
    /\ count[a][name] <= Passed(a, name)
    /\ count[a][name] = Passed(a, name) => \A p \in 1 .. Passed(a, name) : <<p, name>> \in accepted

ExitsHonestly(a) ==
  /\ pc[a] = "compare" => part[a] = PartitionCount
  /\ pc[a] \in Reporting /\ ~failed[a] => CallsOf(a) \subseteq accepted

\* A loop is entered with an attempt left.
AttemptLeft(a) == pc[a] \in {"token", "call"} => i[a] < MaxAttempts

TenantFirst ==
  LET e == "entitlements" IN
  /\ GroupsNeedTenant
  /\ initialized[e] => <<part[e], "tenant">> \in accepted
  /\ pc[e] \in {"token", "call", "endloop"} /\ step[e] > 1 => initialized[e]

\* The inductive invariant of the initialization agents.
LoopInv ==
  /\ InitTypeOK
  /\ \A a \in InitAgents : CountersAreHonest(a) /\ ExitsHonestly(a) /\ AttemptLeft(a)
  /\ TenantFirst

LEMMA LoopInit == Init => LoopInv
<1> SUFFICES ASSUME NEW pods \in PodSets, ReportInit(pods), InitAgentsInit PROVE LoopInv
    BY DEF Init
<1> USE DEF InitAgentsInit, ReportInit
<1>1. \A a \in InitAgents : a \in Agents /\ pc[a] \in {"absent", "token"}
      BY DEF InitAgents, Agents, Start
<1>2. PartitionCount \in Nat \ {0}
      BY PartitionCountAssumption
<1>0. \A a \in InitAgents :
        step[a] = 1 /\ part[a] = 1 /\ count[a] = [name \in StepNames(a) |-> 0] /\ ~initialized[a]
      OBVIOUS
<1>3. InitTypeOK
  <2>1. part \in [InitAgents -> Index]
        BY <1>2 DEF Index
  <2>2. \A a \in InitAgents : step[a] <= Len(Steps(a))
    <3>1. step["partition"] <= Len(Steps("partition"))
          BY <1>0, StepsOfAgents DEF InitAgents
    <3>2. step["entitlements"] <= Len(Steps("entitlements"))
          BY <1>0, StepsOfAgents DEF InitAgents
    <3> QED BY <3>1, <3>2 DEF InitAgents
  <2>3. \A a \in InitAgents : count[a] \in [StepNames(a) -> 0 .. PartitionCount]
    <3>1. 0 \in 0 .. PartitionCount
          BY <1>2
    <3> QED BY <1>0, <3>1
  <2>4. i \in [InitAgents -> 0 .. MaxAttempts]
        BY DEF MaxAttempts
  <2>5. step \in [InitAgents -> 1 .. 4]
        OBVIOUS
  <2>6. DOMAIN count = InitAgents
        OBVIOUS
  <2> QED BY <1>1, <2>1, <2>2, <2>3, <2>4, <2>5, <2>6 DEF InitTypeOK
<1>4. \A a \in InitAgents : CountersAreHonest(a)
  <2> SUFFICES ASSUME NEW a \in InitAgents, NEW name \in StepNames(a)
               PROVE  count[a][name] = 0 /\ Passed(a, name) = 0
      BY DEF CountersAreHonest
  <2>1. step[a] = 1 /\ part[a] = 1 /\ count[a][name] = 0
        BY <1>0
  <2>2. Place(name) \in 1 .. 4
        BY DEF Place
  <2>3. ~ Over(a, name)
    <3>1. pc[a] = "absent" \/ pc[a] = "token"
          BY <1>1
    <3>2. ~ (Place(name) < 1)
          BY <2>2
    <3> QED BY <2>1, <3>1, <3>2 DEF Over, Reporting
  <2> QED BY <2>1, <2>3 DEF Passed
<1>5. \A a \in InitAgents : ExitsHonestly(a) /\ AttemptLeft(a)
  <2>1. \A a \in InitAgents : ExitsHonestly(a)
        BY <1>1 DEF ExitsHonestly, Reporting
  <2>2. \A a \in InitAgents : i[a] = 0
        OBVIOUS
  <2>3. \A a \in InitAgents : AttemptLeft(a)
        BY <2>2 DEF AttemptLeft, MaxAttempts
  <2> QED BY <2>1, <2>3
<1>6. TenantFirst
      BY DEF TenantFirst, GroupsNeedTenant, InitAgents
<1> QED BY <1>3, <1>4, <1>5, <1>6 DEF LoopInv

-----------------------------------------------------------------------------

\* Whatever does not touch a counter keeps it honest.
LEMMA HonestyLasts ==
  ASSUME NEW a \in InitAgents, InitTypeOK, CountersAreHonest(a),
         count'[a] = count[a], accepted \subseteq accepted',
         \A name \in StepNames(a) : Passed(a, name)' \in Int /\ Passed(a, name) <= Passed(a, name)'
  PROVE  CountersAreHonest(a)'
<1> SUFFICES ASSUME NEW name \in StepNames(a)
             PROVE  /\ count'[a][name] <= Passed(a, name)'
                    /\ count'[a][name] = Passed(a, name)' =>
                         \A p \in 1 .. Passed(a, name)' : <<p, name>> \in accepted'
    BY DEF CountersAreHonest
<1>1. part[a] \in Int /\ count[a][name] \in Int
      BY PartitionCountAssumption DEF InitTypeOK, Index
<1>2. Passed(a, name) \in Int
      BY <1>1 DEF Passed
<1>3. /\ count[a][name] <= Passed(a, name)
      /\ count[a][name] = Passed(a, name) => \A p \in 1 .. Passed(a, name) : <<p, name>> \in accepted
      BY DEF CountersAreHonest
<1>4. CASE Passed(a, name)' = Passed(a, name)
      BY <1>3, <1>4
<1>5. CASE Passed(a, name)' # Passed(a, name)
      BY <1>1, <1>2, <1>3, <1>5
<1> QED BY <1>4, <1>5

\* An agent that does not work keeps its part of the invariant.
Idle(a) ==
  /\ \/ pc'[a] = pc[a]
     \/ pc[a] \in Reporting /\ pc'[a] \in Reporting
  /\ failed'[a] = failed[a] /\ part'[a] = part[a] /\ step'[a] = step[a] /\ i'[a] = i[a]
  /\ initialized'[a] = initialized[a] /\ count'[a] = count[a]
  /\ accepted \subseteq accepted'

LEMMA IdleKeeps ==
  ASSUME NEW a \in InitAgents, InitTypeOK, Idle(a),
         CountersAreHonest(a), ExitsHonestly(a), AttemptLeft(a)
  PROVE  CountersAreHonest(a)' /\ ExitsHonestly(a)' /\ AttemptLeft(a)'
<1>1. \A name \in StepNames(a) : Passed(a, name)' = Passed(a, name) /\ Passed(a, name) \in Int
  <2>1. part[a] \in Int
        BY PartitionCountAssumption DEF InitTypeOK, Index
  <2>2. \A name \in StepNames(a) : Over(a, name)' <=> Over(a, name)
        BY DEF Over, Idle, Reporting
  <2> QED BY <2>1, <2>2 DEF Passed, Idle
<1>2. CountersAreHonest(a)'
      BY <1>1, HonestyLasts DEF Idle
<1>3. ExitsHonestly(a)' /\ AttemptLeft(a)'
      BY DEF ExitsHonestly, AttemptLeft, Idle, Reporting
<1> QED BY <1>2, <1>3

\* The steps of the two agents do not disturb each other.
LEMMA OtherAgentIdles ==
  ASSUME ReportTypeOK, InitTypeOK, NEW a \in InitAgents, NEW b \in InitAgents \ {a}, InitAgentStep(a)
  PROVE  Idle(b) /\ token'[b] = token[b]
<1> USE DEF InitAgentStep, FetchToken, CallAccepted, CallRejected, CallUnanswered,
            CallUnauthorized, EndLoop, CompareCounts, Continue, Break, LoopFrame
<1>1. pc'[b] = pc[b] /\ failed'[b] = failed[b]
      BY InitWorkLeavesMap DEF LeavesMap, InitAgents, Agents
<1>2. part'[b] = part[b] /\ step'[b] = step[b]
      BY DEF InitTypeOK
<1>3. i'[b] = i[b]
      BY DEF InitTypeOK
<1>4. initialized'[b] = initialized[b] /\ token'[b] = token[b]
      BY DEF InitTypeOK
<1>5. count'[b] = count[b]
      BY DEF InitTypeOK
<1>6. accepted \subseteq accepted'
      OBVIOUS
<1> QED BY <1>1, <1>2, <1>3, <1>4, <1>5, <1>6 DEF Idle

\* A step at work, seen from the agent that takes it: where its loop stands, and
\* what the counters and the services hold after it.
LEMMA WorkKeepsType ==
  ASSUME ReportTypeOK, InitTypeOK, NEW a \in InitAgents, InitAgentStep(a),
         AttemptLeft(a), CountersAreHonest(a)
  PROVE  InitTypeOK' /\ AttemptLeft(a)'
<1>a. PartitionCount \in Nat \ {0} /\ a \in Agents
      BY PartitionCountAssumption DEF InitAgents, Agents
<1>b. step[a] \in 1 .. Len(Steps(a)) /\ Len(Steps(a)) \in 1 .. 4
      BY CurrentStep, StepsOfAgents DEF InitTypeOK, InitAgents
<1>c. Step(a) \in StepNames(a) /\ StepNames(a) \subseteq AllSteps
      BY <1>b, CurrentStep DEF AllSteps
<1>d. part[a] \in Index /\ i[a] \in 0 .. MaxAttempts /\ count[a] \in [StepNames(a) -> 0 .. PartitionCount]
      BY DEF InitTypeOK
<1>o. \A b \in InitAgents \ {a} : Idle(b)
      BY OtherAgentIdles
<1>1. part' \in [InitAgents -> Index]
  <2> USE DEF InitAgentStep, FetchToken, CallAccepted, CallRejected, CallUnanswered,
            CallUnauthorized, EndLoop, CompareCounts, LoopFrame, InitTypeOK
  <2>1. CASE EndLoop(a)
    <3>1. part[a] < PartitionCount => part[a] + 1 \in Index
          BY <1>a, <1>d DEF Index
    <3> QED BY <2>1, <3>1
  <2>2. CASE UNCHANGED part
        BY <2>2
  <2> QED BY <2>1, <2>2
<1>2. step' \in [InitAgents -> 1 .. 4] /\ step'[a] <= Len(Steps(a))
  <2>1. CASE EndLoop(a)
    <3> DEFINE last == Len(Steps(a))
    <3>a. last \in 1 .. 4 /\ step[a] \in 1 .. last
          BY <1>b
    <3> HIDE DEF last
    <3>1. step[a] # last => step[a] + 1 \in 1 .. 4 /\ step[a] + 1 <= last
          BY <3>a
    <3>2. \/ step' = [step EXCEPT ![a] = 1]
          \/ step[a] # last /\ step' = [step EXCEPT ![a] = @ + 1]
          BY <2>1 DEF EndLoop, InitTypeOK, last
    <3>3. step' \in [InitAgents -> 1 .. 4] /\ step'[a] <= last
      <4>1. CASE step' = [step EXCEPT ![a] = 1]
            BY <3>a, <4>1 DEF InitTypeOK
      <4>2. CASE step[a] # last /\ step' = [step EXCEPT ![a] = step[a] + 1]
        <5>1. step[a] + 1 \in 1 .. 4 /\ step[a] + 1 <= last
              BY <3>1, <4>2
        <5>2. step'[a] = step[a] + 1
              BY <4>2 DEF InitTypeOK
        <5> QED BY <4>2, <5>1, <5>2 DEF InitTypeOK
      <4> QED BY <3>2, <4>1, <4>2
    <3> QED BY <3>3 DEF last
  <2>2. CASE UNCHANGED step
        BY <1>b, <2>2 DEF InitTypeOK
  <2> QED BY <2>1, <2>2 DEF InitAgentStep, FetchToken, CallAccepted, CallRejected, CallUnanswered,
             CallUnauthorized, CompareCounts, LoopFrame
<1>3. i' \in [InitAgents -> 0 .. MaxAttempts]
  <2> USE <1>d DEF InitAgentStep, FetchToken, CallAccepted, CallRejected, CallUnanswered,
            CallUnauthorized, EndLoop, CompareCounts, LoopFrame, Continue, Break, AttemptLeft,
            MaxAttempts
  <2>1. i \in [InitAgents -> 0 .. 3]
        BY DEF InitTypeOK
  <2>2. pc[a] = "call" => i[a] + 1 \in 0 .. 3
        OBVIOUS
  <2>3. \/ UNCHANGED i
        \/ i' = [i EXCEPT ![a] = 0]
        \/ pc[a] = "call" /\ i' = [i EXCEPT ![a] = @ + 1]
        OBVIOUS
  <2> QED BY <2>1, <2>2, <2>3
<1>4. token' \in [InitAgents -> BOOLEAN]
      BY DEF InitAgentStep, FetchToken, CallAccepted, CallRejected, CallUnanswered,
             CallUnauthorized, EndLoop, CompareCounts, InitTypeOK
<1>5. initialized' \in [InitAgents -> BOOLEAN]
      BY DEF InitAgentStep, FetchToken, CallAccepted, CallRejected, CallUnanswered,
             CallUnauthorized, EndLoop, CompareCounts, LoopFrame, InitTypeOK
<1>6. pc'[a] \in {"token", "call", "endloop", "compare", "read"} /\ AttemptLeft(a)'
  <2> USE <1>a, <1>d DEF InitAgentStep, FetchToken, CallAccepted, CallRejected, CallUnanswered,
            CallUnauthorized, EndLoop, CompareCounts, LoopFrame, Continue, Break, AttemptLeft,
            MaxAttempts, Goto, ReportTypeOK
  <2>1. i \in [InitAgents -> 0 .. 3]
        BY DEF InitTypeOK
  <2>2. CASE FetchToken(a)
        BY <2>2
  <2>3. CASE CallAccepted(a) \/ CallRejected(a)
        BY <2>3
  <2>4. CASE CallUnanswered(a)
        BY <2>1, <2>4
  <2>5. CASE CallUnauthorized(a)
        BY <2>1, <2>5
  <2>6. CASE EndLoop(a)
        BY <2>1, <2>6
  <2>7. CASE CompareCounts(a)
        BY <2>7
  <2> QED BY <2>2, <2>3, <2>4, <2>5, <2>6, <2>7
<1>7. DOMAIN count' = InitAgents /\ count'[a] \in [StepNames(a) -> 0 .. PartitionCount]
  <2>1. CASE CallAccepted(a)
    <3>1. ~ Over(a, Step(a)) /\ Passed(a, Step(a)) = part[a] - 1
          BY <1>b, <2>1, CurrentStep DEF Over, Passed, CallAccepted, Reporting
    <3>2. count[a][Step(a)] <= part[a] - 1
          BY <1>c, <3>1 DEF CountersAreHonest
    <3>3. count[a][Step(a)] + 1 \in 0 .. PartitionCount
          BY <1>a, <1>c, <1>d, <3>2 DEF Index
    <3>4. count' = [count EXCEPT ![a] = [count[a] EXCEPT ![Step(a)] = count[a][Step(a)] + 1]]
          BY <2>1 DEF CallAccepted
    <3> QED BY <1>d, <3>3, <3>4 DEF InitTypeOK
  <2>2. CASE UNCHANGED count
        BY <1>d, <2>2 DEF InitTypeOK
  <2> QED BY <2>1, <2>2 DEF InitAgentStep, FetchToken, CallRejected, CallUnanswered,
             CallUnauthorized, EndLoop, CompareCounts, LoopFrame
<1>8. accepted' \in SUBSET (Index \X AllSteps)
      BY <1>c, <1>d DEF InitAgentStep, FetchToken, CallAccepted, CallRejected, CallUnanswered,
             CallUnauthorized, EndLoop, CompareCounts, LoopFrame, InitTypeOK
<1>9. \A b \in InitAgents :
        /\ pc'[b] \in {"absent", "token", "call", "endloop", "compare", "read", "replace", "exit", "done"}
        /\ step'[b] <= Len(Steps(b))
        /\ count'[b] \in [StepNames(b) -> 0 .. PartitionCount]
  <2>1. \A b \in InitAgents \ {a} :
          pc'[b] \in {"absent", "token", "call", "endloop", "compare", "read", "replace", "exit", "done"}
        BY <1>o DEF Idle, InitTypeOK, Reporting
  <2>2. \A b \in InitAgents \ {a} : step'[b] <= Len(Steps(b)) /\ count'[b] \in [StepNames(b) -> 0 .. PartitionCount]
        BY <1>o DEF Idle, InitTypeOK
  <2> QED BY <1>2, <1>6, <1>7, <2>1, <2>2
<1> QED BY <1>1, <1>2, <1>3, <1>4, <1>5, <1>6, <1>7, <1>8, <1>9 DEF InitTypeOK

-----------------------------------------------------------------------------
(* the counters and the exit code *)

LEMMA WorkKeepsCounters ==
  ASSUME ReportTypeOK, InitTypeOK, NEW a \in InitAgents, InitAgentStep(a), CountersAreHonest(a)
  PROVE  CountersAreHonest(a)'
<1>a. a \in Agents
      BY DEF InitAgents, Agents
<1>b. step[a] \in 1 .. Len(Steps(a)) /\ Len(Steps(a)) \in 1 .. 4
      BY CurrentStep, StepsOfAgents DEF InitTypeOK, InitAgents
<1>c. /\ Step(a) \in StepNames(a) /\ Place(Step(a)) = step[a]
      /\ \A name \in StepNames(a) :
           Place(name) \in 1 .. Len(Steps(a)) /\ (Place(name) = step[a] => name = Step(a))
      BY <1>b, CurrentStep
<1>d. part[a] \in Nat \ {0} /\ \A name \in StepNames(a) : count[a][name] \in Nat
      BY PartitionCountAssumption DEF InitTypeOK, Index
<1>1. CASE CallAccepted(a)
  <2>1. pc[a] = "call" /\ pc'[a] = "endloop" /\ UNCHANGED <<part, step>>
        BY <1>1, <1>a DEF CallAccepted, Break, Goto, ReportTypeOK
  <2>2. accepted' = accepted \cup {<<part[a], Step(a)>>}
        BY <1>1 DEF CallAccepted
  <2>3. \A name \in StepNames(a) \ {Step(a)} : count'[a][name] = count[a][name]
        BY <1>1 DEF CallAccepted, InitTypeOK
  <2>4. count'[a][Step(a)] = count[a][Step(a)] + 1
        BY <1>1, <1>c DEF CallAccepted, InitTypeOK
  <2>5. ASSUME NEW name \in StepNames(a) \ {Step(a)}
        PROVE  /\ count'[a][name] <= Passed(a, name)'
               /\ count'[a][name] = Passed(a, name)' =>
                    \A p \in 1 .. Passed(a, name)' : <<p, name>> \in accepted'
    <3>1. Place(name) # step[a]
          BY <1>c
    <3>2. Over(a, name)' <=> Over(a, name)
          BY <2>1, <3>1 DEF Over, Reporting
    <3>3. Passed(a, name)' = Passed(a, name)
          BY <2>1, <3>2 DEF Passed
    <3> QED BY <2>2, <2>3, <3>3 DEF CountersAreHonest
  <2>6. /\ count'[a][Step(a)] <= Passed(a, Step(a))'
        /\ count'[a][Step(a)] = Passed(a, Step(a))' =>
             \A p \in 1 .. Passed(a, Step(a))' : <<p, Step(a)>> \in accepted'
    <3>1. ~ (Place(Step(a)) < step[a])
          BY <1>b, <1>c
    <3>2. ~ Over(a, Step(a)) /\ Passed(a, Step(a)) = part[a] - 1
          BY <1>c, <2>1, <3>1 DEF Over, Passed, Reporting
    <3>3. Step(a)' = Step(a)
          BY <2>1 DEF Step
    <3>4. (pc'[a] = "endloop" /\ Place(Step(a)) = step'[a]) /\ part'[a] = part[a]
          BY <1>c, <2>1
    <3>5. Over(a, Step(a))'
          BY <3>3, <3>4 DEF Over
    <3>6. Passed(a, Step(a))' = part[a]
          BY <3>4, <3>5 DEF Passed
    <3>7. /\ count[a][Step(a)] <= part[a] - 1
          /\ count[a][Step(a)] = part[a] - 1 => \A p \in 1 .. part[a] - 1 : <<p, Step(a)>> \in accepted
          BY <1>c, <3>2 DEF CountersAreHonest
    <3>8. \A p \in 1 .. part[a] : p = part[a] \/ p \in 1 .. part[a] - 1
          BY <1>d
    <3> QED BY <1>c, <1>d, <2>2, <2>4, <3>6, <3>7, <3>8
  <2>7. StepNames(a)' = StepNames(a) /\ Step(a)' = Step(a)
        BY <2>1 DEF Step, StepNames, Steps
  <2> QED BY <2>5, <2>6, <2>7 DEF CountersAreHonest
<1>2. CASE EndLoop(a)
  <2>1. pc[a] = "endloop" /\ count'[a] = count[a] /\ accepted \subseteq accepted'
        BY <1>2 DEF EndLoop
  <2> DEFINE lastStep == (Step(a) = "tenant" /\ ~initialized[a]) \/ step[a] = Len(Steps(a))
  <2>2. /\ step'[a] = IF lastStep THEN 1 ELSE step[a] + 1
        /\ part'[a] = IF lastStep /\ part[a] < PartitionCount THEN part[a] + 1 ELSE part[a]
        BY <1>2 DEF EndLoop, InitTypeOK
  <2>3. pc'[a] = IF lastStep /\ part[a] = PartitionCount THEN "compare" ELSE "call"
        BY <1>2, <1>a DEF EndLoop, Goto, ReportTypeOK
  <2> HIDE DEF lastStep
  <2>4. part[a] <= PartitionCount
        BY PartitionCountAssumption DEF InitTypeOK, Index
  <2>5. ASSUME NEW name \in StepNames(a)
        PROVE  Passed(a, name)' \in Int /\ Passed(a, name) <= Passed(a, name)'
    <3>1. CASE lastStep /\ part[a] = PartitionCount
      <4>1. Over(a, name)' /\ part'[a] = part[a]
            BY <2>2, <2>3, <3>1, PartitionCountAssumption DEF Over
      <4> QED BY <1>d, <4>1 DEF Passed
    <3>2. CASE lastStep /\ part[a] # PartitionCount
      <4>1. part[a] < PartitionCount
            BY <1>d, <2>4, <3>2, PartitionCountAssumption
      <4>2. part'[a] = part[a] + 1
            BY <2>2, <3>2, <4>1
      <4> QED BY <1>d, <4>2 DEF Passed
    <3>3. CASE ~lastStep
      <4>1. step'[a] = step[a] + 1 /\ part'[a] = part[a] /\ pc'[a] = "call"
            BY <2>2, <2>3, <3>3
      <4>2. Place(name) \in Int /\ step[a] \in Int
            BY <1>b DEF Place
      <4>3. Over(a, name) => Over(a, name)'
            BY <2>1, <4>1, <4>2 DEF Over, Reporting
      <4> QED BY <1>d, <4>1, <4>3 DEF Passed
    <3> QED BY <3>1, <3>2, <3>3
  <2> QED BY <2>1, <2>5, HonestyLasts
<1>3. ASSUME FetchToken(a) \/ CallRejected(a) \/ CallUnanswered(a) \/ CallUnauthorized(a) \/ CompareCounts(a)
      PROVE  CountersAreHonest(a)'
  <2> USE DEF FetchToken, CallRejected, CallUnanswered, CallUnauthorized, CompareCounts, LoopFrame
  <2>1. UNCHANGED <<part, step, count, accepted>>
        BY <1>3
  <2>2. \/ pc[a] \in {"token", "call"}
        \/ pc[a] = "compare" /\ pc'[a] = "read"
        BY <1>3, <1>a DEF Goto, ReportTypeOK
  <2>3. \A name \in StepNames(a) : Over(a, name) => Over(a, name)'
        BY <2>1, <2>2 DEF Over, Reporting
  <2>4. \A name \in StepNames(a) : Passed(a, name)' \in Int /\ Passed(a, name) <= Passed(a, name)'
        BY <1>d, <2>1, <2>3 DEF Passed
  <2> QED BY <2>1, <2>4, HonestyLasts
<1> QED BY <1>1, <1>2, <1>3 DEF InitAgentStep

LEMMA WorkKeepsExit ==
  ASSUME ReportTypeOK, InitTypeOK, NEW a \in InitAgents, InitAgentStep(a),
         CountersAreHonest(a), ExitsHonestly(a)
  PROVE  ExitsHonestly(a)'
<1>a. a \in Agents
      BY DEF InitAgents, Agents
<1>1. CASE CompareCounts(a)
  <2>1. pc[a] = "compare" /\ pc'[a] = "read" /\ UNCHANGED <<part, accepted>>
        BY <1>1, <1>a DEF CompareCounts, LoopFrame, Goto, ReportTypeOK
  <2>2. ~failed'[a] => ~CountsDiffer(a)
        BY <1>1, <1>a DEF CompareCounts, ReportTypeOK
  <2>3. Steps(a)[1] \in StepNames(a)
        BY StepsOfAgents DEF InitAgents
  <2>4. ASSUME ~CountsDiffer(a), NEW name \in StepNames(a)
        PROVE  \A p \in Index : <<p, name>> \in accepted
    <3>1. count[a][name] = PartitionCount
          BY <2>3, <2>4 DEF CountsDiffer
    <3>2. Passed(a, name) = PartitionCount
          BY <2>1 DEF Passed, Over, ExitsHonestly
    <3> QED BY <3>1, <3>2 DEF CountersAreHonest, Index
  <2> QED BY <2>1, <2>2, <2>4 DEF ExitsHonestly, CallsOf
<1>2. CASE FetchToken(a)
      BY <1>2, <1>a DEF FetchToken, Goto, ReportTypeOK, ExitsHonestly, Reporting
<1>3. CASE EndLoop(a)
  <2>1. pc'[a] \in {"call", "compare"} /\ (pc'[a] = "compare" => part[a] = PartitionCount)
        BY <1>3, <1>a DEF EndLoop, Goto, ReportTypeOK
  <2>2. part[a] = PartitionCount => part'[a] = part[a]
        BY <1>3, PartitionCountAssumption DEF EndLoop, InitTypeOK
  <2> QED BY <2>1, <2>2 DEF ExitsHonestly, Reporting
<1>4. ASSUME CallAccepted(a) \/ CallRejected(a) \/ CallUnanswered(a) \/ CallUnauthorized(a)
      PROVE  ExitsHonestly(a)'
  <2>1. pc'[a] \in {"call", "endloop"}
        BY <1>4, <1>a DEF CallAccepted, CallRejected, CallUnanswered, CallUnauthorized, Continue,
           Break, Goto, ReportTypeOK
  <2> QED BY <2>1 DEF ExitsHonestly, Reporting
<1> QED BY <1>1, <1>2, <1>3, <1>4 DEF InitAgentStep

LEMMA WorkKeepsTenantFirst ==
  ASSUME ReportTypeOK, InitTypeOK, NEW a \in InitAgents, InitAgentStep(a), TenantFirst
  PROVE  TenantFirst'
<1> DEFINE e == "entitlements"
<1>a. a \in Agents /\ e \in InitAgents /\ e \in Agents
      BY DEF InitAgents, Agents
<1>1. CASE a = "partition"
  <2>1. Idle(e)
        BY <1>1, <1>a, OtherAgentIdles
  <2>2. accepted' \ accepted \subseteq Index \X {"init"}
    <3>1. Step(a) = "init"
          BY <1>1, CurrentStep, StepsOfAgents DEF InitTypeOK, InitAgents
    <3> QED BY <3>1 DEF InitAgentStep, FetchToken, CallAccepted, CallRejected, CallUnanswered,
                 CallUnauthorized, EndLoop, CompareCounts, LoopFrame, InitTypeOK
  <2>3. GroupsNeedTenant'
    <3> SUFFICES ASSUME NEW p \in Index, NEW group \in {"user", "ops", "root"}, <<p, group>> \in accepted'
                 PROVE  <<p, "tenant">> \in accepted'
        BY DEF GroupsNeedTenant
    <3>1. <<p, group>> \notin Index \X {"init"}
          OBVIOUS
    <3>2. <<p, group>> \in accepted
          BY <2>2, <3>1
    <3> QED BY <2>1, <3>2 DEF TenantFirst, GroupsNeedTenant, Idle
  <2> QED BY <2>1, <2>3 DEF TenantFirst, Idle, Reporting
<1>2. CASE a = "entitlements"
  <2>1. /\ step[a] \in 1 .. 4 /\ Len(Steps(a)) = 4
        /\ Step(a) \in StepNames(a) /\ (Step(a) = "tenant" <=> step[a] = 1)
        /\ StepNames(a) = {"tenant", "user", "ops", "root"}
        BY <1>2, CurrentStep, StepsOfAgents DEF InitTypeOK
  <2>2. CASE CallAccepted(a)
    <3>1. /\ pc[a] = "call" /\ UNCHANGED <<part, step>>
          /\ accepted' = accepted \cup {<<part[a], Step(a)>>}
          /\ initialized'[a] = (initialized[a] \/ Step(a) = "tenant")
          BY <2>2 DEF CallAccepted, InitTypeOK
    <3>2. initialized'[a] => <<part'[a], "tenant">> \in accepted'
          BY <1>2, <3>1 DEF TenantFirst
    <3>3. step[a] > 1 => initialized[a] /\ <<part[a], "tenant">> \in accepted
          BY <1>2, <3>1 DEF TenantFirst
    <3>4. GroupsNeedTenant'
      <4>1. Step(a) = "tenant" \/ <<part[a], "tenant">> \in accepted
            BY <2>1, <3>3
      <4> QED BY <3>1, <4>1 DEF TenantFirst, GroupsNeedTenant
    <3> QED BY <1>2, <3>1, <3>2, <3>3, <3>4 DEF TenantFirst
  <2>3. CASE EndLoop(a)
    <3> DEFINE lastStep == (Step(a) = "tenant" /\ ~initialized[a]) \/ step[a] = Len(Steps(a))
    <3>1. /\ pc[a] = "endloop" /\ UNCHANGED accepted
          /\ step'[a] = IF lastStep THEN 1 ELSE step[a] + 1
          /\ initialized'[a] = (initialized[a] /\ ~lastStep)
          /\ ~lastStep => part'[a] = part[a]
          BY <2>3 DEF EndLoop, InitTypeOK
    <3>2. GroupsNeedTenant'
          BY <3>1 DEF TenantFirst, GroupsNeedTenant
    <3>3. initialized'[a] => <<part'[a], "tenant">> \in accepted'
          BY <1>2, <3>1 DEF TenantFirst
    <3>4. step'[a] > 1 => initialized'[a]
      <4>1. CASE lastStep
            BY <3>1, <4>1
      <4>2. CASE ~lastStep
        <5>1. step[a] = 1 => initialized[a]
              BY <2>1, <4>2
        <5>2. step[a] > 1 => initialized[a]
              BY <1>2, <3>1 DEF TenantFirst
        <5>3. step[a] = 1 \/ step[a] > 1
              BY <2>1
        <5> QED BY <3>1, <4>2, <5>1, <5>2, <5>3
      <4> QED BY <4>1, <4>2
    <3> QED BY <1>2, <3>2, <3>3, <3>4 DEF TenantFirst
  <2>4. ASSUME FetchToken(a) \/ CallRejected(a) \/ CallUnanswered(a) \/ CallUnauthorized(a) \/ CompareCounts(a)
        PROVE  TenantFirst'
    <3>1. UNCHANGED <<part, step, initialized, accepted>>
          BY <2>4 DEF FetchToken, CallRejected, CallUnanswered, CallUnauthorized, CompareCounts, LoopFrame
    <3>2. pc[a] \in {"token", "call"} \/ pc'[a] = "read"
          BY <2>4, <1>a DEF FetchToken, CallRejected, CallUnanswered, CallUnauthorized, CompareCounts, Goto,
             ReportTypeOK
    <3> QED BY <1>2, <3>1, <3>2 DEF TenantFirst, GroupsNeedTenant
  <2> QED BY <2>2, <2>3, <2>4 DEF InitAgentStep
<1> QED BY <1>1, <1>2 DEF InitAgents

-----------------------------------------------------------------------------

\* A step that is no agent's work leaves the loops alone.
LEMMA ReportLeavesLoops ==
  ASSUME ReportTypeOK, InitTypeOK, NEW a \in Agents, ReportStep(a), UNCHANGED initVars
  PROVE  \A b \in InitAgents : Idle(b)
<1>1. \A b \in Agents : failed'[b] = failed[b]
      BY DEF ReportStep, ReadConfigMap, ReplaceConfigMap, Cleanup
<1>2. \A b \in Agents \ {a} : pc'[b] = pc[b]
      BY DEF ReportStep, ReadConfigMap, ReplaceConfigMap, Cleanup, Goto, ReportTypeOK
<1>3. pc[a] \in Reporting /\ pc'[a] \in Reporting
      BY DEF ReportStep, ReadConfigMap, ReplaceConfigMap, Cleanup, Goto, ReportTypeOK, Reporting
<1>4. InitAgents \subseteq Agents
      BY DEF InitAgents, Agents
<1>5. \A b \in InitAgents : pc'[b] = pc[b] \/ (pc[b] \in Reporting /\ pc'[b] \in Reporting)
      BY <1>2, <1>3, <1>4
<1> QED BY <1>1, <1>4, <1>5 DEF Idle, initVars

LEMMA LoopStep == MapInv /\ LoopInv /\ [Next]_vars => LoopInv'
<1> SUFFICES ASSUME MapInv, LoopInv, [Next]_vars PROVE LoopInv'
    OBVIOUS
<1>t. ReportTypeOK /\ InitTypeOK /\ TenantFirst
      BY DEF MapInv, LoopInv
<1>1. ASSUME NEW a \in InitAgents, InitAgentStep(a) PROVE LoopInv'
  <2>1. CountersAreHonest(a) /\ ExitsHonestly(a) /\ AttemptLeft(a)
        BY DEF LoopInv
  <2>2. InitTypeOK' /\ AttemptLeft(a)' /\ CountersAreHonest(a)' /\ ExitsHonestly(a)' /\ TenantFirst'
        BY <1>1, <1>t, <2>1, WorkKeepsType, WorkKeepsCounters, WorkKeepsExit, WorkKeepsTenantFirst
  <2>3. ASSUME NEW b \in InitAgents \ {a}
        PROVE  CountersAreHonest(b)' /\ ExitsHonestly(b)' /\ AttemptLeft(b)'
    <3>1. Idle(b)
          BY <1>1, <1>t, OtherAgentIdles
    <3>2. CountersAreHonest(b) /\ ExitsHonestly(b) /\ AttemptLeft(b)
          BY DEF LoopInv
    <3> QED BY <1>t, <3>1, <3>2, IdleKeeps
  <2> QED BY <2>2, <2>3 DEF LoopInv
<1>2. ASSUME UNCHANGED initVars, \A b \in InitAgents : Idle(b) PROVE LoopInv'
  <2>1. InitTypeOK'
    <3>1. \A b \in InitAgents :
            pc'[b] \in {"absent", "token", "call", "endloop", "compare", "read", "replace", "exit", "done"}
          BY <1>t, <1>2 DEF InitTypeOK, Idle, Reporting
    <3> QED BY <1>t, <1>2, <3>1 DEF InitTypeOK, initVars
  <2>2. TenantFirst'
    <3>1. "entitlements" \in InitAgents
          BY DEF InitAgents
    <3>2. Idle("entitlements")
          BY <1>2, <3>1
    <3> QED BY <1>t, <1>2, <3>2 DEF TenantFirst, GroupsNeedTenant, Idle, initVars, Reporting
  <2>3. \A b \in InitAgents : CountersAreHonest(b)' /\ ExitsHonestly(b)' /\ AttemptLeft(b)'
        BY <1>t, <1>2, IdleKeeps DEF LoopInv
  <2> QED BY <2>1, <2>2, <2>3 DEF LoopInv
<1>3. ASSUME NEW a \in Agents, WorkStep(a), ~(a \in InitAgents /\ InitAgentStep(a)) PROVE LoopInv'
  <2>1. UNCHANGED initVars /\ a \notin InitAgents
        BY <1>3 DEF WorkStep, InitAgents
  <2>2. LeavesMap(a)
        BY <1>3, <1>t, WorkLeavesMap
  <2>3. \A b \in InitAgents : Idle(b)
    <3>1. \A b \in InitAgents : b \in Agents \ {a}
          BY <2>1 DEF InitAgents, Agents
    <3> QED BY <2>1, <2>2, <3>1 DEF Idle, LeavesMap, initVars
  <2> QED BY <1>2, <2>1, <2>3
<1>4. ASSUME NEW a \in Agents, ReportStep(a), UNCHANGED initVars PROVE LoopInv'
      BY <1>2, <1>4, <1>t, ReportLeavesLoops
<1>5. CASE UNCHANGED vars
  <2>1. UNCHANGED initVars /\ UNCHANGED <<pc, failed>>
        BY <1>5 DEF vars, reportVars
  <2>2. \A b \in InitAgents : Idle(b)
        BY <2>1 DEF Idle, initVars
  <2> QED BY <1>2, <2>1, <2>2
<1> QED BY <1>1, <1>3, <1>4, <1>5, StepOfAgent

LEMMA LoopInvariant == Spec => []LoopInv
<1> QED BY MapInit, MapStep, LoopInit, LoopStep, PTL DEF Spec

\* The types of the initialization agents' state, for every number of partitions: a
\* loop makes at most three attempts and no counter exceeds the partitions.
THEOREM InitTypeCorrect == Spec => []InitTypeOK
<1>1. LoopInv => InitTypeOK
      BY DEF LoopInv
<1> QED BY <1>1, LoopInvariant, PTL

\* Partition and entitlements initialization exit with 0 only when every call was
\* accepted for every partition, whatever is rejected, retried or skipped on the way.
THEOREM ExitsAreHonest == Spec => []ExitIsHonest
<1>1. LoopInv => ExitIsHonest
      BY DEF LoopInv, ExitsHonestly, ExitIsHonest, Succeeded, Reporting
<1> QED BY <1>1, LoopInvariant, PTL

\* No group call is accepted for a partition whose tenant was not provisioned.
THEOREM TenantsComeFirst == Spec => []GroupsNeedTenant
<1>1. LoopInv => GroupsNeedTenant
      BY DEF LoopInv, TenantFirst
<1> QED BY <1>1, LoopInvariant, PTL
=============================================================================
