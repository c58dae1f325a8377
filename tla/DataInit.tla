------------------------------ MODULE DataInit ------------------------------
(***************************************************************************)
(* The two shell agents of tools/data_initialization_agent.  Each walks    *)
(* through the partitions in order, makes its calls with up to three       *)
(* attempts each, compares its counters and then reports as                *)
(* ConfigMapReport has it.  They run in pods of their own, so their steps  *)
(* interleave freely.                                                      *)
(***************************************************************************)
EXTENDS Naturals, Sequences, ConfigMapReport

CONSTANT PartitionCount        \* length of partitions_array

ASSUME PartitionCountAssumption == PartitionCount \in Nat \ {0}

InitAgents == {"partition", "entitlements"}
Index  == 1 .. PartitionCount

\* the loops over one partition, in the order of the script
Steps(a) == IF a = "partition" THEN <<"init">> ELSE <<"tenant", "user", "ops", "root">>
StepNames(a) == {Steps(a)[k] : k \in 1 .. Len(Steps(a))}
AllSteps == UNION {StepNames(a) : a \in InitAgents}

VARIABLES
  part,         \* index into partitions_array
  step,         \* index into Steps(a)
  i,            \* attempts of the current loop
  token,        \* ACCESS_TOKEN is a token
  initialized,  \* partition_initialized
  count,        \* partition_*_initialized_count
  accepted      \* what the services hold: <<partition, step>>

initVars == <<part, step, i, token, initialized, count, accepted>>

MaxAttempts == 3
Step(a) == Steps(a)[step[a]]

InitAgentsInit ==
  /\ part = [a \in InitAgents |-> 1]
  /\ step = [a \in InitAgents |-> 1]
  /\ i = [a \in InitAgents |-> 0]
  /\ token = [a \in InitAgents |-> FALSE]
  /\ initialized = [a \in InitAgents |-> FALSE]
  /\ count = [a \in InitAgents |-> [s \in StepNames(a) |-> 0]]
  /\ accepted = {}

LoopFrame == UNCHANGED <<part, step, initialized, count, accepted>>

\* mutant: the first token's failure is not recorded
FetchTokenUnrecorded(a) ==
  /\ pc[a] = "token"
  /\ \E fetched \in BOOLEAN :
       /\ token' = [token EXCEPT ![a] = fetched]
       /\ Goto(a, IF fetched THEN "call" ELSE "read")
  /\ UNCHANGED <<i, failed>> /\ LoopFrame /\ MapFrame

FetchToken(a) ==
  /\ pc[a] = "token"
  /\ \E fetched \in BOOLEAN :
       /\ token' = [token EXCEPT ![a] = fetched]
       /\ failed' = [failed EXCEPT ![a] = ~fetched]
       /\ Goto(a, IF fetched THEN "call" ELSE "read")
  /\ UNCHANGED i /\ LoopFrame /\ MapFrame

-----------------------------------------------------------------------------
(* one attempt of the current call *)

\* continue: the loop goes on while i < 3
Continue(a) ==
  /\ i' = [i EXCEPT ![a] = @ + 1]
  /\ Goto(a, IF i[a] + 1 < MaxAttempts THEN "call" ELSE "endloop")

Break(a) ==
  /\ i' = [i EXCEPT ![a] = @ + 1]
  /\ Goto(a, "endloop")

\* 2xx; 409 too, except for "tenant"; the services refuse a caller without a token
CallAccepted(a) ==
  /\ pc[a] = "call"
  /\ token[a]
  /\ Break(a)
  /\ count' = [count EXCEPT ![a][Step(a)] = @ + 1]
  /\ initialized' = [initialized EXCEPT ![a] = @ \/ Step(a) = "tenant"]
  /\ accepted' = accepted \cup {<<part[a], Step(a)>>}
  /\ UNCHANGED <<part, step, token, failed>> /\ MapFrame

\* mutant: the counter is bumped before the answer is looked at
CallRejectedButCounted(a) ==
  /\ pc[a] = "call"
  /\ Break(a)
  /\ count' = [count EXCEPT ![a][Step(a)] = @ + 1]
  /\ initialized' = [initialized EXCEPT ![a] = @ \/ Step(a) = "tenant"]
  /\ UNCHANGED <<part, step, token, failed, accepted>> /\ MapFrame

\* 400 or 404
CallRejected(a) ==
  /\ pc[a] = "call"
  /\ Break(a)
  /\ failed' = [failed EXCEPT ![a] = TRUE]
  /\ UNCHANGED token /\ LoopFrame /\ MapFrame

\* no secret, an empty answer, 5xx, no connection; for "tenant" 409 as well
CallUnanswered(a) ==
  /\ pc[a] = "call"
  /\ Continue(a)
  /\ UNCHANGED <<token, failed>> /\ LoopFrame /\ MapFrame

\* 401 or 403: the token is fetched again, and without one the loop is left
CallUnauthorized(a) ==
  /\ pc[a] = "call"
  /\ \E fetched \in BOOLEAN :
       /\ token' = [token EXCEPT ![a] = fetched]
       /\ failed' = [failed EXCEPT ![a] = @ \/ ~fetched]
       /\ IF fetched THEN Continue(a) ELSE Break(a)
  /\ LoopFrame /\ MapFrame

-----------------------------------------------------------------------------
(* from one loop to the next, and the comparison at the end *)

\* mutant: the entitlements loops do not depend on the tenant
EndLoopNoSkip(a) ==
  LET lastStep == step[a] = Len(Steps(a)) IN
  /\ pc[a] = "endloop"
  /\ failed' = [failed EXCEPT ![a] = @ \/ i[a] >= MaxAttempts]
  /\ i' = [i EXCEPT ![a] = 0]
  /\ step' = [step EXCEPT ![a] = IF lastStep THEN 1 ELSE @ + 1]
  /\ part' = [part EXCEPT ![a] = IF lastStep /\ @ < PartitionCount THEN @ + 1 ELSE @]
  /\ initialized' = [initialized EXCEPT ![a] = @ /\ ~lastStep]
  /\ Goto(a, IF lastStep /\ part[a] = PartitionCount THEN "compare" ELSE "call")
  /\ UNCHANGED <<token, count, accepted>> /\ MapFrame

\* mutant: the attempts are not reset for the next loop
EndLoopNoReset(a) ==
  LET skip     == Step(a) = "tenant" /\ ~initialized[a]
      lastStep == skip \/ step[a] = Len(Steps(a)) IN
  /\ pc[a] = "endloop"
  /\ failed' = [failed EXCEPT ![a] = @ \/ i[a] >= MaxAttempts \/ skip]
  /\ step' = [step EXCEPT ![a] = IF lastStep THEN 1 ELSE @ + 1]
  /\ part' = [part EXCEPT ![a] = IF lastStep /\ @ < PartitionCount THEN @ + 1 ELSE @]
  /\ initialized' = [initialized EXCEPT ![a] = @ /\ ~lastStep]
  /\ Goto(a, IF lastStep /\ part[a] = PartitionCount THEN "compare" ELSE "call")
  /\ UNCHANGED <<i, token, count, accepted>> /\ MapFrame

\* mutant: a skipped partition is begun again
EndLoopSamePartition(a) ==
  LET skip     == Step(a) = "tenant" /\ ~initialized[a]
      lastStep == skip \/ step[a] = Len(Steps(a)) IN
  /\ pc[a] = "endloop"
  /\ failed' = [failed EXCEPT ![a] = @ \/ i[a] >= MaxAttempts \/ skip]
  /\ i' = [i EXCEPT ![a] = 0]
  /\ step' = [step EXCEPT ![a] = IF lastStep THEN 1 ELSE @ + 1]
  /\ part' = [part EXCEPT ![a] = IF lastStep /\ ~skip /\ @ < PartitionCount THEN @ + 1 ELSE @]
  /\ initialized' = [initialized EXCEPT ![a] = @ /\ ~lastStep]
  /\ Goto(a, IF lastStep /\ part[a] = PartitionCount THEN "compare" ELSE "call")
  /\ UNCHANGED <<token, count, accepted>> /\ MapFrame

\* the third attempt marks a failure whatever came of it; without the tenant,
\* the rest of the partition is skipped
EndLoop(a) ==
  LET skip     == Step(a) = "tenant" /\ ~initialized[a]
      lastStep == skip \/ step[a] = Len(Steps(a)) IN
  /\ pc[a] = "endloop"
  /\ failed' = [failed EXCEPT ![a] = @ \/ i[a] >= MaxAttempts \/ skip]
  /\ i' = [i EXCEPT ![a] = 0]
  /\ step' = [step EXCEPT ![a] = IF lastStep THEN 1 ELSE @ + 1]
  /\ part' = [part EXCEPT ![a] = IF lastStep /\ @ < PartitionCount THEN @ + 1 ELSE @]
  /\ initialized' = [initialized EXCEPT ![a] = @ /\ ~lastStep]
  /\ Goto(a, IF lastStep /\ part[a] = PartitionCount THEN "compare" ELSE "call")
  /\ UNCHANGED <<token, count, accepted>> /\ MapFrame

\* the partition counter against the first one, the first one against the others
CountsDiffer(a) ==
  \/ count[a][Steps(a)[1]] # PartitionCount
  \/ \E s \in StepNames(a) : count[a][s] # count[a][Steps(a)[1]]

CompareCounts(a) ==
  /\ pc[a] = "compare"
  /\ failed' = [failed EXCEPT ![a] = @ \/ CountsDiffer(a)]
  /\ Goto(a, "read")
  /\ UNCHANGED <<i, token>> /\ LoopFrame /\ MapFrame

InitAgentStep(a) ==
  \/ FetchToken(a)
  \/ CallAccepted(a)
  \/ CallRejected(a)
  \/ CallUnanswered(a)
  \/ CallUnauthorized(a)
  \/ EndLoop(a)
  \/ CompareCounts(a)

-----------------------------------------------------------------------------
(* properties *)

CallsOf(a) == Index \X StepNames(a)

\* Every variable has its type: a loop makes at most three attempts, and the
\* counters never exceed the number of partitions.
InitTypeOK ==
  /\ part \in [InitAgents -> Index]
  /\ step \in [InitAgents -> 1 .. 4]
  /\ i \in [InitAgents -> 0 .. MaxAttempts]
  /\ token \in [InitAgents -> BOOLEAN]
  /\ initialized \in [InitAgents -> BOOLEAN]
  /\ DOMAIN count = InitAgents
  /\ \A a \in InitAgents :
       /\ pc[a] \in {"absent", "token", "call", "endloop", "compare", "read", "replace", "exit", "done"}
       /\ step[a] <= Len(Steps(a))
       /\ count[a] \in [StepNames(a) -> 0 .. PartitionCount]
  /\ accepted \in SUBSET (Index \X AllSteps)

\* An agent exits with 0 only when every one of its calls was accepted for every
\* partition: no path through the retries, the skips and the counters hides one.
ExitIsHonest ==
  \A a \in InitAgents : Succeeded(a) => CallsOf(a) \subseteq accepted

\* The administrator is never added to a group of a partition whose tenant was
\* not provisioned ("Skipping Adding User as an Admin as Entitlements Init has failed").
GroupsNeedTenant ==
  \A p \in Index, s \in {"user", "ops", "root"} :
    <<p, s>> \in accepted => <<p, "tenant">> \in accepted

PartitionReport == INSTANCE InitReport WITH
  Required     <- CallsOf("partition"),
  acknowledged <- accepted \cap CallsOf("partition"),
  report       <- ExitReport("partition")

EntitlementsReport == INSTANCE InitReport WITH
  Required     <- CallsOf("entitlements"),
  acknowledged <- accepted \cap CallsOf("entitlements"),
  report       <- ExitReport("entitlements")

\* The comment on the status check: "succeed only if 2xx, or 409"; an agent
\* whose calls have all been accepted does not report a failure.
AcceptedAgentSucceeds ==
  \A a \in InitAgents : pc[a] = "done" /\ CallsOf(a) \subseteq accepted => ~failed[a]
=============================================================================
