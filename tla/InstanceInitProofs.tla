------------------------- MODULE InstanceInitProofs -------------------------
(***************************************************************************)
(* Proofs about the run of the instance initialization and the job around  *)
(* it, for every set of partitions, groups and administrators: a success   *)
(* is never reported of an initialization that is not complete, nobody     *)
(* waits in vain and nothing goes back, and the job keeps the promise of   *)
(* InitReport.                                                             *)
(***************************************************************************)
EXTENDS InstanceInitJob, TLAPS

\* Launching calls of a partition, ending one and retrying one keep the two
\* functions that describe the calls well typed.
LEMMA LaunchType ==
  ASSUME TypeOK, NEW p \in Partitions, NEW cs \in SUBSET Calls, Launch(p, cs)
  PROVE  /\ call' \in [Partitions -> [Calls -> CallStates]]
         /\ attempt' \in [Partitions -> [Calls -> 0 .. MaxAttempts]]
BY DEF TypeOK, Launch, CallStates, MaxAttempts

LEMMA FinishType ==
  ASSUME TypeOK, NEW p \in Partitions, NEW c \in Calls,
         NEW result \in Finished, Finish(p, c, result)
  PROVE  /\ call' \in [Partitions -> [Calls -> CallStates]]
         /\ attempt' \in [Partitions -> [Calls -> 0 .. MaxAttempts]]
BY DEF TypeOK, Finish, CallStates, Finished, MaxAttempts

LEMMA RetryType ==
  ASSUME TypeOK, NEW p \in Partitions, NEW c \in Calls,
         attempt[p][c] < MaxAttempts, Retry(p, c)
  PROVE  /\ call' \in [Partitions -> [Calls -> CallStates]]
         /\ attempt' \in [Partitions -> [Calls -> 0 .. MaxAttempts]]
BY DEF TypeOK, Retry, MaxAttempts

\* One attempt of a call changes the calls and the token, and nothing else.
LEMMA AttemptType ==
  ASSUME TypeOK, NEW p \in Partitions, NEW c \in Calls, PostAttempt(p, c)
  PROVE  TypeOK'
<1> USE DEF CallFrame
<1>0. /\ {"succeeded", "failed", "error", "throttled"} \subseteq Finished
      BY DEF Finished, Returned, Raised
<1>1. CASE PostSucceeds(p, c)
      BY <1>0, <1>1, FinishType DEF PostSucceeds, TypeOK
<1>2. CASE PostReturnsNothing(p, c)
  <2>1. CASE attempt[p][c] < MaxAttempts
        BY <1>2, <2>1, RetryType DEF PostReturnsNothing, TypeOK
  <2>2. CASE ~(attempt[p][c] < MaxAttempts)
        BY <1>0, <1>2, <2>2, FinishType DEF PostReturnsNothing, TypeOK
  <2> QED BY <2>1, <2>2
<1>3. CASE PostRaises(p, c)
      BY <1>0, <1>3, FinishType DEF PostRaises, TypeOK
<1>4. CASE PostIsRejected(p, c)
      BY <1>0, <1>4, FinishType DEF PostIsRejected, TypeOK
<1>5. CASE PostIsThrottled(p, c)
  <2>1. PICK result \in Finished : Finish(p, c, result)
        BY <1>0, <1>5 DEF PostIsThrottled
  <2> QED BY <1>5, <2>1, FinishType DEF PostIsThrottled, TypeOK
<1>6. CASE PostExhausted(p, c)
      BY <1>0, <1>6, FinishType DEF PostExhausted, TypeOK
<1>7. CASE PostIsRetried(p, c)
  <2>1. CASE token' \in {GoodToken, BadToken} /\ Retry(p, c)
        BY <1>7, <2>1, RetryType DEF PostIsRetried, TypeOK
  <2>2. CASE token' = token /\ Finish(p, c, "error")
        BY <1>0, <1>7, <2>2, FinishType DEF PostIsRetried, TypeOK
  <2> QED BY <1>7, <2>1, <2>2 DEF PostIsRetried
<1> QED BY <1>1, <1>2, <1>3, <1>4, <1>5, <1>6, <1>7 DEF PostAttempt

\* The run starts with the types.
LEMMA TypeInit == Init => TypeOK
<1> SUFFICES ASSUME Init PROVE TypeOK
    OBVIOUS
<1>1. call \in [Partitions -> [Calls -> CallStates]]
      BY DEF Init, CallStates
<1>2. attempt \in [Partitions -> [Calls -> 0 .. MaxAttempts]]
      BY DEF Init, MaxAttempts
<1>3. adminTasks \in [Partitions -> SUBSET GroupCalls] /\ tasks \in SUBSET Partitions
      BY DEF Init
<1>4. status \in [Partitions -> BOOLEAN] /\ ops \in BOOLEAN
      BY DEF Init
<1>5. stage \in [Partitions -> Stages]
      BY DEF Init, Stages
<1> QED BY <1>1, <1>2, <1>3, <1>4, <1>5 DEF Init, TypeOK

\* Every step of the run keeps the types.
LEMMA TypeStep ==
  ASSUME TypeOK, [Next]_vars
  PROVE  TypeOK'
<1> USE DEF TaskFrame, Stages
<1>0. /\ {InitCall} \in SUBSET Calls
      /\ {TenantCall} \in SUBSET Calls
      /\ GroupCalls \in SUBSET Calls
      BY DEF Calls
<1>1. CASE StartTasks
      BY <1>1 DEF StartTasks, TypeOK
<1>2. CASE FirstTokenFails
      BY <1>2 DEF FirstTokenFails, TypeOK
<1>3. ASSUME NEW p \in Partitions, PartitionStep(p) PROVE TypeOK'
  <2>1. CASE BeginPartition(p)
        BY <1>0, <2>1, LaunchType DEF BeginPartition, TypeOK
  <2>2. CASE SecretLookupRaises(p)
        BY <2>2 DEF SecretLookupRaises, TypeOK
  <2>3. CASE CollectPartitionInit(p)
        BY <1>0, <2>3, LaunchType DEF CollectPartitionInit, TypeOK
  <2>4. CASE CallRaises(p)
        BY <2>4 DEF CallRaises, TypeOK
  <2>5. CASE TenantProvisioned(p)
        BY <1>0, <2>5, LaunchType DEF TenantProvisioned, TypeOK
  <2>6. CASE TenantFailed(p)
        BY <2>6 DEF TenantFailed, TypeOK
  <2>7. CASE CollectGroups(p)
        BY <2>7 DEF CollectGroups, TypeOK
  <2>8. CASE GroupCallRaises(p)
        BY <2>8 DEF GroupCallRaises, TypeOK
  <2>9. CASE \E c \in Calls : PostAttempt(p, c)
        BY <2>9, AttemptType
  <2> QED BY <1>3, <2>1, <2>2, <2>3, <2>4, <2>5, <2>6, <2>7, <2>8, <2>9 DEF PartitionStep
<1>4. CASE CollectPartitions
      BY <1>4 DEF CollectPartitions, TypeOK
<1>5. CASE AbortRun
  <2>1. call' \in [Partitions -> [Calls -> CallStates]]
        BY <1>5 DEF AbortRun, TypeOK, CallStates
  <2>2. attempt' \in [Partitions -> [Calls -> 0 .. MaxAttempts]]
        BY <1>5 DEF AbortRun, MaxAttempts
  <2>3. stage' \in [Partitions -> Stages]
        BY <1>5 DEF AbortRun, TypeOK
  <2> QED BY <1>5, <2>1, <2>2, <2>3 DEF AbortRun, TypeOK
<1>6. CASE Terminated
      BY <1>6 DEF Terminated, vars, TypeOK
<1>7. CASE UNCHANGED vars
      BY <1>7 DEF vars, TypeOK
<1> QED BY <1>1, <1>2, <1>3, <1>4, <1>5, <1>6, <1>7 DEF Next, Work

\* Type correctness: every variable has its type and a call never exceeds
\* MaxAttempts attempts (attemptCount of servicePostApiCall), for all constants.
THEOREM TypeCorrect == Spec => []TypeOK
<1>1. Init => TypeOK
      BY TypeInit
<1>2. TypeOK /\ [Next]_vars => TypeOK'
      BY TypeStep
<1> QED BY <1>1, <1>2, PTL DEF Spec

-----------------------------------------------------------------------------

\* The two calls outside the groups are different calls, and no group call.
LEMMA CallsDiffer ==
  /\ InitCall # TenantCall
  /\ InitCall \notin GroupCalls
  /\ TenantCall \notin GroupCalls
  /\ Calls = {InitCall, TenantCall} \cup GroupCalls
BY ConstantsAssumption DEF InitCall, TenantCall, GroupCalls, Calls

\* An attempt changes the call of one partition that is pending, so no answer
\* that has come.
LEMMA AttemptKeepsAnswers ==
  ASSUME TypeOK, NEW p \in Partitions, NEW c \in Calls, PostAttempt(p, c)
  PROVE  /\ \A q \in Partitions, d \in Calls :
              call[q][d] = "succeeded" => call'[q][d] = "succeeded"
         /\ UNCHANGED <<main, ops, status, stage, adminTasks, tasks>>
<1>1. \/ UNCHANGED call
      \/ call[p][c] = "pending" /\ \E r \in CallStates : call' = [call EXCEPT ![p][c] = r]
      BY DEF PostAttempt, PostSucceeds, PostReturnsNothing, PostRaises, PostIsRejected,
             PostIsThrottled, PostExhausted, PostIsRetried, Finish, Retry, CallStates,
             Returned, Raised
<1>2. UNCHANGED <<main, ops, status, stage, adminTasks, tasks>>
      BY DEF PostAttempt, PostSucceeds, PostReturnsNothing, PostRaises, PostIsRejected,
             PostIsThrottled, PostExhausted, PostIsRetried, CallFrame
<1>3. ASSUME NEW q \in Partitions, NEW d \in Calls, call[q][d] = "succeeded"
      PROVE  call'[q][d] = "succeeded"
      BY <1>1, <1>3 DEF TypeOK
<1> QED BY <1>2, <1>3

\* A step of one partition's task keeps the account of every partition.
LEMMA PartitionKeepsAccount ==
  ASSUME TypeOK, StatusIsAccounted, NEW p \in Partitions, PartitionStep(p)
  PROVE  StatusIsAccounted'
<1> USE DEF TaskFrame, StatusIsAccounted, StatusRecordsCalls
<1>1. LoopKeepsUnfinished'
  <2>1. /\ UNCHANGED <<main, ops, tasks>>
        /\ \A q \in Partitions : stage[q] = "done" => stage'[q] = "done"
    <3>1. CASE \E c \in Calls : PostAttempt(p, c)
          BY <3>1, AttemptKeepsAnswers
    <3>2. CASE ~ \E c \in Calls : PostAttempt(p, c)
          BY <3>2 DEF TypeOK, PartitionStep, BeginPartition, SecretLookupRaises,
               CollectPartitionInit, CallRaises, TenantProvisioned, TenantFailed,
               CollectGroups, GroupCallRaises
    <3> QED BY <3>1, <3>2
  <2> QED BY <2>1 DEF LoopKeepsUnfinished
<1>2. ASSUME NEW q \in Partitions PROVE StatusRecordsCalls(q)'
  <2>1. CASE BeginPartition(p)
        BY <2>1, CallsDiffer DEF BeginPartition, Launch, TypeOK
  <2>2. CASE SecretLookupRaises(p)
        BY <2>2 DEF SecretLookupRaises, TypeOK
  <2>3. CASE CollectPartitionInit(p)
        BY <2>3, CallsDiffer DEF CollectPartitionInit, Launch, TypeOK
  <2>4. CASE CallRaises(p)
        BY <2>4 DEF CallRaises, TypeOK
  <2>5. CASE TenantProvisioned(p)
        BY <2>5, CallsDiffer DEF TenantProvisioned, Launch, TypeOK
  <2>6. CASE TenantFailed(p)
        BY <2>6 DEF TenantFailed, TypeOK
  <2>7. CASE CollectGroups(p)
    <3>1. CASE q = p
      <4>1. /\ stage[p] = "groups" /\ UNCHANGED call
            /\ stage'[p] \in {"groups", "done"}
            /\ adminTasks'[p] = adminTasks[p] \ FinishedAdminTasks(p)
            /\ stage'[p] = "done" => adminTasks'[p] = {}
            BY <2>7 DEF CollectGroups, TypeOK
      <4>2. status'[p] => /\ status[p]
                          /\ \A c \in FinishedAdminTasks(p) : call[p][c] = "succeeded"
            BY <2>7 DEF CollectGroups, TypeOK
      <4> QED BY <3>1, <4>1, <4>2
    <3>2. CASE q # p
          BY <2>7, <3>2 DEF CollectGroups, TypeOK
    <3> QED BY <3>1, <3>2
  <2>8. CASE GroupCallRaises(p)
        BY <2>8 DEF GroupCallRaises, TypeOK
  <2>9. CASE \E c \in Calls : PostAttempt(p, c)
        BY <2>9, AttemptKeepsAnswers, CallsDiffer
  <2> QED BY <2>1, <2>2, <2>3, <2>4, <2>5, <2>6, <2>7, <2>8, <2>9 DEF PartitionStep
<1> QED BY <1>1, <1>2

\* The run starts with nothing to account for.
LEMMA AccountInit == Init => StatusIsAccounted
BY DEF Init, StatusIsAccounted, LoopKeepsUnfinished, StatusRecordsCalls

\* Every step of the run keeps the account.
LEMMA AccountStep ==
  ASSUME TypeOK, StatusIsAccounted, [Next]_vars
  PROVE  StatusIsAccounted'
<1> USE DEF StatusIsAccounted, LoopKeepsUnfinished, StatusRecordsCalls
<1>1. CASE StartTasks
      BY <1>1 DEF StartTasks
<1>2. CASE FirstTokenFails
      BY <1>2 DEF FirstTokenFails
<1>3. CASE \E p \in Partitions : PartitionStep(p)
      BY <1>3, PartitionKeepsAccount
<1>4. CASE CollectPartitions
      BY <1>4 DEF CollectPartitions, FinishedTasks, TypeOK
<1>5. CASE AbortRun
      BY <1>5, CallsDiffer DEF AbortRun, TypeOK
<1>6. CASE Terminated
      BY <1>6 DEF Terminated, vars
<1>7. CASE UNCHANGED vars
      BY <1>7 DEF vars
<1> QED BY <1>1, <1>2, <1>3, <1>4, <1>5, <1>6, <1>7 DEF Next, Work

\* The status dictionary and the wait loops account for every call, whatever the
\* interleaving, the retries, the exceptions and the cancellations.
THEOREM StatusAccounted == Spec => []StatusIsAccounted
<1>1. Init => StatusIsAccounted
      BY AccountInit
<1>2. TypeOK /\ StatusIsAccounted /\ [Next]_vars => StatusIsAccounted'
      BY AccountStep
<1> QED BY <1>1, <1>2, TypeCorrect, PTL DEF Spec

\* The agent reports success only of a complete initialization: every call of
\* every partition was accepted.
THEOREM SuccessComplete == Spec => []SuccessIsComplete
<1>1. StatusIsAccounted => SuccessIsComplete
      BY CallsDiffer DEF StatusIsAccounted, LoopKeepsUnfinished, StatusRecordsCalls,
           SuccessIsComplete, FinalStatus
<1> QED BY <1>1, StatusAccounted, PTL
-----------------------------------------------------------------------------

\* An attempt leaves every call alone but its own, which was pending, and is
\* pending again or not idle.
LEMMA AttemptChangesOneCall ==
  ASSUME TypeOK, NEW p \in Partitions, NEW c \in Calls, PostAttempt(p, c)
  PROVE  /\ call[p][c] = "pending" /\ call'[p][c] # "idle"
         /\ \A q \in Partitions, d \in Calls :
              q # p \/ d # c => call'[q][d] = call[q][d]
<1>1. /\ call[p][c] = "pending"
      /\ \/ UNCHANGED call
         \/ \E r \in Finished : call' = [call EXCEPT ![p][c] = r]
      BY DEF PostAttempt, PostSucceeds, PostReturnsNothing, PostRaises, PostIsRejected,
             PostIsThrottled, PostExhausted, PostIsRetried, Finish, Retry, Finished,
             Returned, Raised
<1> QED BY <1>1 DEF TypeOK, Finished, Returned, Raised

\* Launching calls changes these calls, and no other.
LEMMA LaunchChangesCalls ==
  ASSUME TypeOK, NEW p \in Partitions, NEW cs \in SUBSET Calls, Launch(p, cs)
  PROVE  /\ \A c \in Calls : call'[p][c] = IF c \in cs THEN "pending" ELSE call[p][c]
         /\ \A q \in Partitions : q # p => call'[q] = call[q]
BY DEF TypeOK, Launch

\* A step that launches calls of p and moves its task to stage s keeps the other
\* partitions' calls with their stages: what it does to p's is enough to show.
LEMMA LaunchKeepsStages ==
  ASSUME TypeOK, CallsFollowStages, NEW p \in Partitions, NEW cs \in SUBSET Calls,
         Launch(p, cs), NEW s \in {"partitionInit", "tenant", "groups"},
         stage[p] \in {"scheduled", "partitionInit", "tenant"},
         stage' = [stage EXCEPT ![p] = s], UNCHANGED main,
         \A q \in Partitions : q # p => adminTasks'[q] = adminTasks[q],
         CallsFollowStage(p)',
         \A c \in GroupCalls : call'[p][c] # "idle" => call'[p][TenantCall] = "succeeded"
  PROVE  CallsFollowStages'
<1>1. main \notin {"start", "report"} /\ main' = main
      BY DEF CallsFollowStages
<1>2. ASSUME NEW q \in Partitions, q # p
      PROVE  call'[q] = call[q] /\ stage'[q] = stage[q] /\ adminTasks'[q] = adminTasks[q]
      BY <1>2, LaunchChangesCalls DEF TypeOK
<1>3. ASSUME NEW q \in Partitions
      PROVE  CallsFollowStage(q)'
  <2>1. CASE q = p
        BY <2>1
  <2>2. CASE q # p
        BY <1>2, <2>2 DEF CallsFollowStages, CallsFollowStage
  <2> QED BY <2>1, <2>2
<1>4. GroupsNeedTenant'
  <2> SUFFICES ASSUME NEW q \in Partitions, NEW c \in GroupCalls, call'[q][c] # "idle"
               PROVE  call'[q][TenantCall] = "succeeded"
      BY DEF GroupsNeedTenant
  <2>1. CASE q = p
        BY <2>1
  <2>2. CASE q # p
        BY <1>2, <2>2 DEF CallsFollowStages, GroupsNeedTenant
  <2> QED BY <2>1, <2>2
<1> QED BY <1>1, <1>3, <1>4 DEF CallsFollowStages, NothingInFlightAtReport

\* A step of one partition's task keeps every partition's calls with its stage.
LEMMA PartitionKeepsStages ==
  ASSUME TypeOK, CallsFollowStages, NEW p \in Partitions, PartitionStep(p)
  PROVE  CallsFollowStages'
<1> USE DEF TaskFrame
<1>0. /\ {InitCall} \in SUBSET Calls
      /\ {TenantCall} \in SUBSET Calls
      /\ GroupCalls \in SUBSET Calls
      BY DEF Calls
<1>a. CallsFollowStage(p) /\ \A c \in GroupCalls : call[p][c] # "idle" => call[p][TenantCall] = "succeeded"
      BY DEF CallsFollowStages, GroupsNeedTenant
<1>1. CASE BeginPartition(p)
  <2>1. /\ Launch(p, {InitCall}) /\ stage[p] = "scheduled"
        /\ stage' = [stage EXCEPT ![p] = "partitionInit"]
        /\ UNCHANGED <<main, adminTasks>>
        BY <1>1 DEF BeginPartition
  <2>2. stage'[p] = "partitionInit"
        BY <2>1 DEF TypeOK
  <2>3. \A c \in GroupCalls \cup {TenantCall} : call'[p][c] = "idle"
        BY <1>0, <1>a, <2>1, CallsDiffer, LaunchChangesCalls DEF CallsFollowStage
  <2>4. CallsFollowStage(p)'
        BY <2>2, <2>3 DEF CallsFollowStage
  <2> QED BY <1>0, <2>1, <2>3, <2>4, LaunchKeepsStages
<1>2. CASE SecretLookupRaises(p)
      BY <1>2, CallsDiffer DEF SecretLookupRaises, TypeOK, CallsFollowStages, CallsFollowStage,
           NothingInFlightAtReport, GroupsNeedTenant
<1>3. CASE CollectPartitionInit(p)
  <2>1. /\ Launch(p, {TenantCall}) /\ stage[p] = "partitionInit"
        /\ call[p][InitCall] # "pending"
        /\ stage' = [stage EXCEPT ![p] = "tenant"]
        /\ UNCHANGED <<main, adminTasks>>
        BY <1>3 DEF CollectPartitionInit, Returned
  <2>2. stage'[p] = "tenant"
        BY <2>1 DEF TypeOK
  <2>3. \A c \in Calls : call'[p][c] = IF c = TenantCall THEN "pending" ELSE call[p][c]
        BY <1>0, <2>1, LaunchChangesCalls
  <2>4. /\ \A c \in GroupCalls : call'[p][c] = "idle"
        /\ call'[p][InitCall] # "pending"
        BY <1>a, <2>1, <2>3, CallsDiffer DEF CallsFollowStage
  <2>5. CallsFollowStage(p)'
        BY <2>2, <2>4 DEF CallsFollowStage
  <2> QED BY <1>0, <2>1, <2>4, <2>5, LaunchKeepsStages
<1>4. CASE CallRaises(p)
      BY <1>4, CallsDiffer DEF CallRaises, Raised, TypeOK, CallsFollowStages, CallsFollowStage,
           NothingInFlightAtReport, GroupsNeedTenant
<1>5. CASE TenantProvisioned(p)
  <2>1. /\ Launch(p, GroupCalls) /\ stage[p] = "tenant"
        /\ call[p][TenantCall] = "succeeded"
        /\ stage' = [stage EXCEPT ![p] = "groups"]
        /\ adminTasks' = [adminTasks EXCEPT ![p] = GroupCalls]
        /\ UNCHANGED main
        BY <1>5 DEF TenantProvisioned
  <2>2. /\ stage'[p] = "groups" /\ adminTasks'[p] = GroupCalls
        /\ \A q \in Partitions : q # p => adminTasks'[q] = adminTasks[q]
        BY <2>1 DEF TypeOK
  <2>3. /\ call'[p][TenantCall] = "succeeded"
        /\ call'[p][InitCall] # "pending"
        BY <1>0, <1>a, <2>1, CallsDiffer, LaunchChangesCalls DEF CallsFollowStage
  <2>4. CallsFollowStage(p)'
        BY <2>2, <2>3 DEF CallsFollowStage
  <2> QED BY <1>0, <2>1, <2>2, <2>3, <2>4, LaunchKeepsStages
<1>6. CASE TenantFailed(p)
      BY <1>6, CallsDiffer DEF TenantFailed, TypeOK, CallsFollowStages, CallsFollowStage,
           NothingInFlightAtReport, GroupsNeedTenant
<1>7. CASE CollectGroups(p)
      BY <1>7, CallsDiffer DEF CollectGroups, FinishedAdminTasks, Finished, Returned, Raised,
           TypeOK, CallsFollowStages, CallsFollowStage, NothingInFlightAtReport, GroupsNeedTenant
<1>8. CASE GroupCallRaises(p)
      BY <1>8, CallsDiffer DEF GroupCallRaises, TypeOK, CallsFollowStages, CallsFollowStage,
           NothingInFlightAtReport, GroupsNeedTenant
<1>9. ASSUME NEW c \in Calls, PostAttempt(p, c) PROVE CallsFollowStages'
      BY <1>9, CallsDiffer, AttemptKeepsAnswers, AttemptChangesOneCall
         DEF CallsFollowStages, CallsFollowStage, NothingInFlightAtReport, GroupsNeedTenant
<1> QED BY <1>1, <1>2, <1>3, <1>4, <1>5, <1>6, <1>7, <1>8, <1>9 DEF PartitionStep

\* The run starts with no call made.
LEMMA StagesInit == Init => CallsFollowStages
BY DEF Init, CallsFollowStages, CallsFollowStage, NothingInFlightAtReport,
       GroupsNeedTenant, Calls

\* Every step of the run keeps the calls with the stages.
LEMMA StagesStep ==
  ASSUME TypeOK, StatusIsAccounted, CallsFollowStages, [Next]_vars
  PROVE  CallsFollowStages'
<1> USE DEF CallsFollowStages, CallsFollowStage, NothingInFlightAtReport, GroupsNeedTenant
<1>1. CASE StartTasks
      BY <1>1, CallsDiffer DEF StartTasks
<1>2. CASE FirstTokenFails
      BY <1>2, CallsDiffer DEF FirstTokenFails
<1>3. CASE \E p \in Partitions : PartitionStep(p)
      BY <1>3, PartitionKeepsStages
<1>4. CASE CollectPartitions
      BY <1>4, CallsDiffer, SMTT(30) DEF CollectPartitions, FinishedTasks, StatusIsAccounted,
           LoopKeepsUnfinished, TypeOK
<1>5. CASE AbortRun
      BY <1>5, CallsDiffer DEF AbortRun, TypeOK
<1>6. CASE Terminated
      BY <1>6 DEF Terminated, vars
<1>7. CASE UNCHANGED vars
      BY <1>7 DEF vars
<1> QED BY <1>1, <1>2, <1>3, <1>4, <1>5, <1>6, <1>7 DEF Next, Work

\* The calls of every partition follow its stage, through every interleaving,
\* exception and cancellation.
THEOREM StagesFollowed == Spec => []CallsFollowStages
<1>1. Init => CallsFollowStages
      BY StagesInit
<1>2. TypeOK /\ StatusIsAccounted /\ CallsFollowStages /\ [Next]_vars => CallsFollowStages'
      BY StagesStep
<1> QED BY <1>1, <1>2, TypeCorrect, StatusAccounted, PTL DEF Spec

\* When main writes its report, no call to a service is in flight any more.
THEOREM NothingInFlight == Spec => []NothingInFlightAtReport
<1>1. CallsFollowStages => NothingInFlightAtReport
      BY DEF CallsFollowStages
<1> QED BY <1>1, StagesFollowed, PTL

\* No administrator is added to a group of a tenant that is not provisioned.
THEOREM TenantBeforeGroups == Spec => []GroupsNeedTenant
<1>1. CallsFollowStages => GroupsNeedTenant
      BY DEF CallsFollowStages
<1> QED BY <1>1, StagesFollowed, PTL
-----------------------------------------------------------------------------

\* No step changes an answer that has come: tasks launch only calls that have not
\* been made, attempts and cancellations change only calls that are pending.
LEMMA StepKeepsAnswers ==
  ASSUME TypeOK, CallsFollowStages, [Next]_vars,
         NEW p \in Partitions, NEW c \in Calls, call[p][c] \in Finished
  PROVE  call'[p][c] = call[p][c]
<1>0. /\ {InitCall} \in SUBSET Calls
      /\ {TenantCall} \in SUBSET Calls
      /\ GroupCalls \in SUBSET Calls
      BY DEF Calls
<1>1. call[p][c] \notin {"idle", "pending", "cancelled"}
      BY DEF Finished, Returned, Raised
<1>2. ASSUME NEW q \in Partitions, PartitionStep(q)
      PROVE  call'[p][c] = call[p][c]
  <2>1. ASSUME NEW cs \in SUBSET Calls, Launch(q, cs), \A d \in cs : call[q][d] = "idle"
        PROVE  call'[p][c] = call[p][c]
        BY <1>1, <2>1, LaunchChangesCalls
  <2>2. CASE BeginPartition(q)
        BY <1>0, <2>1, <2>2 DEF BeginPartition, CallsFollowStages, CallsFollowStage
  <2>3. CASE CollectPartitionInit(q)
        BY <1>0, <2>1, <2>3 DEF CollectPartitionInit, CallsFollowStages, CallsFollowStage
  <2>4. CASE TenantProvisioned(q)
        BY <1>0, <2>1, <2>4 DEF TenantProvisioned, CallsFollowStages, CallsFollowStage
  <2>5. ASSUME NEW d \in Calls, PostAttempt(q, d) PROVE call'[p][c] = call[p][c]
        BY <1>1, <2>5, AttemptChangesOneCall
  <2> QED BY <1>2, <2>2, <2>3, <2>4, <2>5 DEF PartitionStep, SecretLookupRaises, CallRaises,
             TenantFailed, CollectGroups, GroupCallRaises
<1>3. CASE AbortRun
      BY <1>1, <1>3 DEF AbortRun
<1> QED BY <1>2, <1>3 DEF Next, Work, StartTasks, FirstTokenFails, CollectPartitions,
           Terminated, vars

\* An answer is final: no retry, collection or cancellation overwrites it, and no
\* call is posted again once it has been answered.
THEOREM AnswersFinal == Spec => AnswersAreFinal
<1>1. TypeOK /\ CallsFollowStages /\ [Next]_vars =>
        [\A p \in Partitions, c \in Calls :
           call[p][c] \in Finished => call'[p][c] = call[p][c]]_vars
      BY StepKeepsAnswers
<1> QED BY <1>1, TypeCorrect, StagesFollowed, PTL DEF Spec, AnswersAreFinal

\* A partition is reported as failed only because a call of it came back failed.
THEOREM FailuresHaveCauses == Spec => []FailureHasCause
<1>1. Init => FailureHasCause
      BY DEF Init, FailureHasCause
<1>2. TypeOK /\ CallsFollowStages /\ FailureHasCause /\ [Next]_vars => FailureHasCause'
  <2> SUFFICES ASSUME TypeOK, CallsFollowStages, FailureHasCause, [Next]_vars,
                      NEW p \in Partitions, ~status'[p]
               PROVE  \E c \in Calls : call'[p][c] = "failed"
      BY DEF FailureHasCause
  <2>1. \E c \in Calls : call[p][c] = "failed"
    <3>1. CASE ~status[p]
          BY <3>1 DEF FailureHasCause
    <3>2. CASE status[p]
      <4>1. PICK q \in Partitions : PartitionStep(q)
            BY <3>2 DEF Next, Work, StartTasks, FirstTokenFails, CollectPartitions, AbortRun,
                 Terminated, vars
      <4>2. CASE CollectPartitionInit(q)
            BY <3>2, <4>2 DEF CollectPartitionInit, Returned, Calls, TypeOK
      <4>3. CASE TenantFailed(q)
            BY <3>2, <4>3 DEF TenantFailed, Calls, TypeOK
      <4>4. CASE CollectGroups(q)
            BY <3>2, <4>4 DEF CollectGroups, FinishedAdminTasks, Returned, Calls, TypeOK
      <4>5. CASE GroupCallRaises(q)
            BY <3>2, <4>5 DEF GroupCallRaises, FinishedAdminTasks, Calls, TypeOK
      <4>6. CASE \E c \in Calls : PostAttempt(q, c)
            BY <3>2, <4>6, AttemptKeepsAnswers
      <4> QED BY <3>2, <4>1, <4>2, <4>3, <4>4, <4>5, <4>6 DEF PartitionStep, BeginPartition,
                 SecretLookupRaises, CallRaises, TenantProvisioned
    <3> QED BY <3>1, <3>2
  <2>2. PICK c \in Calls : call[p][c] = "failed"
        BY <2>1
  <2>3. call'[p][c] = "failed"
        BY <2>2, StepKeepsAnswers DEF Finished, Returned
  <2> QED BY <2>3
<1> QED BY <1>1, <1>2, TypeCorrect, StagesFollowed, PTL DEF Spec
-----------------------------------------------------------------------------
(* what is awaited *)

\* A call that is awaited is in flight or has ended.
Answerable(p, c) == call[p][c] \in {"pending"} \cup Finished

\* Every call that the task of p awaits has been made, and the set handed to aio.wait
\* is not empty.
AwaitsMadeCalls(p) ==
  /\ stage[p] \in {"scheduled", "partitionInit", "tenant", "groups", "done", "raised"}
  /\ stage[p] = "partitionInit" => Answerable(p, InitCall)
  /\ stage[p] = "tenant" => Answerable(p, TenantCall)
  /\ stage[p] = "groups" => adminTasks[p] # {} /\ \A c \in adminTasks[p] : Answerable(p, c)

\* While main runs, its loop has a task to wait for and every task a call that was made.
NobodyWaitsInVain ==
  main = "running" => tasks # {} /\ \A p \in Partitions : AwaitsMadeCalls(p)

\* An attempt leaves a call that is awaited answerable.
LEMMA AttemptIsAnswerable ==
  ASSUME TypeOK, NEW p \in Partitions, NEW c \in Calls, PostAttempt(p, c)
  PROVE  /\ \A q \in Partitions, d \in Calls : Answerable(q, d) => Answerable(q, d)'
         /\ UNCHANGED <<main, ops, status, stage, adminTasks, tasks>>
<1>1. \/ UNCHANGED call
      \/ \E r \in Finished : call' = [call EXCEPT ![p][c] = r]
      BY DEF PostAttempt, PostSucceeds, PostReturnsNothing, PostRaises, PostIsRejected,
             PostIsThrottled, PostExhausted, PostIsRetried, Finish, Retry, Finished,
             Returned, Raised
<1>2. ASSUME NEW q \in Partitions, NEW d \in Calls, Answerable(q, d)
      PROVE  Answerable(q, d)'
  <2>1. CASE UNCHANGED call
        BY <1>2, <2>1 DEF Answerable
  <2>2. CASE \E r \in Finished : call' = [call EXCEPT ![p][c] = r]
    <3>1. PICK r \in Finished : call' = [call EXCEPT ![p][c] = r]
          BY <2>2
    <3>2. call'[q][d] = r \/ call'[q][d] = call[q][d]
          BY <3>1 DEF TypeOK
    <3> QED BY <1>2, <3>2 DEF Answerable
  <2> QED BY <1>1, <2>1, <2>2
<1> QED BY <1>2, AttemptKeepsAnswers

\* A step of one partition's task awaits only calls it has made.
LEMMA PartitionAwaits ==
  ASSUME TypeOK, NobodyWaitsInVain, NEW p \in Partitions, PartitionStep(p)
  PROVE  NobodyWaitsInVain'
<1> SUFFICES ASSUME main' = "running"
             PROVE  tasks' # {} /\ \A q \in Partitions : AwaitsMadeCalls(q)'
    BY DEF NobodyWaitsInVain
<1> USE DEF TaskFrame
<1>1. CASE \E c \in Calls : PostAttempt(p, c)
  <2>1. /\ \A q \in Partitions, d \in Calls : Answerable(q, d) => Answerable(q, d)'
        /\ UNCHANGED <<main, stage, adminTasks, tasks>>
        BY <1>1, AttemptIsAnswerable
  <2>2. tasks # {} /\ \A q \in Partitions : AwaitsMadeCalls(q) /\ adminTasks[q] \subseteq Calls
        BY <2>1 DEF NobodyWaitsInVain, TypeOK, Calls
  <2> QED BY <2>1, <2>2, CallsDiffer DEF AwaitsMadeCalls
<1>2. CASE ~ \E c \in Calls : PostAttempt(p, c)
  <2>1. UNCHANGED <<main, tasks>> /\ tasks # {} /\ \A q \in Partitions : AwaitsMadeCalls(q)
        BY <1>2 DEF NobodyWaitsInVain, PartitionStep, BeginPartition, SecretLookupRaises,
             CollectPartitionInit, CallRaises, TenantProvisioned, TenantFailed,
             CollectGroups, GroupCallRaises
  <2>2. ASSUME NEW q \in Partitions, q # p
        PROVE  AwaitsMadeCalls(q)'
    <3>1. call'[q] = call[q] /\ stage'[q] = stage[q] /\ adminTasks'[q] = adminTasks[q]
          BY <1>2, <2>2 DEF TypeOK, PartitionStep, BeginPartition, SecretLookupRaises,
               CollectPartitionInit, CallRaises, TenantProvisioned, TenantFailed,
               CollectGroups, GroupCallRaises, Launch
    <3> QED BY <2>1, <3>1 DEF AwaitsMadeCalls, Answerable
  <2>3. AwaitsMadeCalls(p)'
    <3>1. CASE BeginPartition(p)
          BY <3>1, CallsDiffer DEF BeginPartition, Launch, TypeOK, AwaitsMadeCalls, Answerable
    <3>2. CASE SecretLookupRaises(p) \/ CallRaises(p) \/ GroupCallRaises(p)
      <4>1. stage'[p] = "raised"
            BY <3>2 DEF SecretLookupRaises, CallRaises, GroupCallRaises, TypeOK
      <4> QED BY <4>1 DEF AwaitsMadeCalls
    <3>3. CASE CollectPartitionInit(p)
          BY <3>3, CallsDiffer DEF CollectPartitionInit, Launch, TypeOK, AwaitsMadeCalls, Answerable
    <3>4. CASE TenantProvisioned(p)
      <4>1. stage'[p] = "groups" /\ adminTasks'[p] = GroupCalls
            BY <3>4 DEF TenantProvisioned, TypeOK
      <4>2. \A c \in GroupCalls : call'[p][c] = "pending"
            BY <3>4, CallsDiffer DEF TenantProvisioned, Launch, TypeOK
      <4>3. GroupCalls # {}
        <5>1. PICK g \in Groups, a \in Admins : TRUE
              BY ConstantsAssumption
        <5>2. <<g, a>> \in GroupCalls
              BY DEF GroupCalls
        <5> QED BY <5>2
      <4> QED BY <4>1, <4>2, <4>3 DEF AwaitsMadeCalls, Answerable
    <3>5. CASE TenantFailed(p)
      <4>1. stage'[p] = "done"
            BY <3>5 DEF TenantFailed, TypeOK
      <4> QED BY <4>1 DEF AwaitsMadeCalls
    <3>6. CASE CollectGroups(p)
      <4>1. /\ UNCHANGED call /\ stage[p] = "groups"
            /\ adminTasks'[p] = adminTasks[p] \ FinishedAdminTasks(p)
            /\ stage'[p] = IF adminTasks[p] \subseteq FinishedAdminTasks(p) THEN "done" ELSE "groups"
            BY <3>6 DEF CollectGroups, TypeOK
      <4> QED BY <2>1, <4>1 DEF AwaitsMadeCalls, Answerable
    <3> QED BY <1>2, <3>1, <3>2, <3>3, <3>4, <3>5, <3>6 DEF PartitionStep
  <2> QED BY <2>1, <2>2, <2>3
<1> QED BY <1>1, <1>2

\* While main runs there is always something to come: the loop waits for a task that is
\* not collected, every task for calls that were made, and none for an empty set, which
\* aio.wait refuses.
THEOREM NoVainWait == Spec => []NobodyWaitsInVain
<1>1. Init => NobodyWaitsInVain
      BY DEF Init, NobodyWaitsInVain
<1>2. ASSUME TypeOK, NobodyWaitsInVain, [Next]_vars
      PROVE  NobodyWaitsInVain'
  <2>1. CASE StartTasks
        BY <2>1, ConstantsAssumption DEF StartTasks, NobodyWaitsInVain, AwaitsMadeCalls
  <2>2. CASE FirstTokenFails \/ AbortRun \/ Terminated
        BY <2>2 DEF FirstTokenFails, AbortRun, Terminated, vars, NobodyWaitsInVain
  <2>3. CASE \E p \in Partitions : PartitionStep(p)
        BY <1>2, <2>3, PartitionAwaits
  <2>4. CASE CollectPartitions
        BY <1>2, <2>4 DEF CollectPartitions, NobodyWaitsInVain, AwaitsMadeCalls, Answerable
  <2>5. CASE UNCHANGED vars
        BY <1>2, <2>5 DEF vars, NobodyWaitsInVain, AwaitsMadeCalls, Answerable
  <2> QED BY <1>2, <2>1, <2>2, <2>3, <2>4, <2>5 DEF Next, Work
<1> QED BY <1>1, <1>2, TypeCorrect, PTL DEF Spec

-----------------------------------------------------------------------------
(* how far the run has come *)

\* How far main, a task and a call, of which attempt n is made, have come.
MainRank(m) == CASE m = "start" -> 0 [] m = "running" -> 1 [] OTHER -> 2

StageRank(s) ==
  CASE s = "idle"          -> 0
    [] s = "scheduled"     -> 1
    [] s = "partitionInit" -> 2
    [] s = "tenant"        -> 3
    [] s = "groups"        -> 4
    [] OTHER               -> 5

CallRank(r, n) == CASE r = "idle" -> 0 [] r = "pending" -> n [] OTHER -> MaxAttempts + 1

TaskMoves(p)    == StageRank(stage'[p]) > StageRank(stage[p])
CallMoves(p, c) == CallRank(call'[p][c], attempt'[p][c]) > CallRank(call[p][c], attempt[p][c])
MainMoves       == MainRank(main') > MainRank(main)

\* Main, the tasks and the calls never go back, and a set that is waited for grows only
\* with a step forward of whoever waits.
NothingGoesBack ==
  /\ MainRank(main') >= MainRank(main)
  /\ \A p \in Partitions : StageRank(stage'[p]) >= StageRank(stage[p])
  /\ \A p \in Partitions, c \in Calls :
       CallRank(call'[p][c], attempt'[p][c]) >= CallRank(call[p][c], attempt[p][c])
  /\ MainMoves \/ tasks' \subseteq tasks
  /\ \A p \in Partitions : TaskMoves(p) \/ adminTasks'[p] \subseteq adminTasks[p]

\* A step forward of main, a task or a call, or a set that is waited for gets smaller.
SomethingMoves ==
  \/ MainMoves
  \/ \E p \in Partitions : TaskMoves(p) \/ adminTasks'[p] # adminTasks[p]
  \/ \E p \in Partitions, c \in Calls : CallMoves(p, c)
  \/ tasks' # tasks

\* A call that is in flight is at its first attempt or a later one.
AttemptsCounted ==
  \A p \in Partitions, c \in Calls : call[p][c] = "pending" => attempt[p][c] >= 1

\* The ranks of the stages, of main and of the calls.
LEMMA StageRanks ==
  /\ StageRank("idle") = 0 /\ StageRank("scheduled") = 1 /\ StageRank("partitionInit") = 2
  /\ StageRank("tenant") = 3 /\ StageRank("groups") = 4
  /\ StageRank("done") = 5 /\ StageRank("raised") = 5 /\ StageRank("cancelled") = 5
  /\ \A s \in Stages : StageRank(s) \in 0 .. 5
BY DEF StageRank, Stages

LEMMA MainRanks == MainRank("start") = 0 /\ MainRank("running") = 1 /\ MainRank("report") = 2
BY DEF MainRank

LEMMA CallRanks ==
  ASSUME NEW n \in 0 .. MaxAttempts
  PROVE  /\ CallRank("idle", n) = 0 /\ CallRank("pending", n) = n
         /\ \A r \in Finished \cup {"cancelled"} : CallRank(r, n) = 4
         /\ \A r \in CallStates : CallRank(r, n) \in 0 .. 4
<1>1. \A r \in Finished \cup {"cancelled"} : r # "idle" /\ r # "pending"
      BY DEF Finished, Returned, Raised
<1>2. MaxAttempts + 1 = 4 /\ n \in 0 .. 4
      BY DEF MaxAttempts
<1> QED BY <1>1, <1>2 DEF CallRank

\* An attempt that ends the call or counts the next one.
LEMMA AttemptMovesCall ==
  ASSUME TypeOK, AttemptsCounted, NEW p \in Partitions, NEW c \in Calls, PostAttempt(p, c)
  PROVE  /\ CallMoves(p, c) /\ (call'[p][c] = "pending" => attempt'[p][c] >= 1)
         /\ \A q \in Partitions, d \in Calls :
              q # p \/ d # c => call'[q][d] = call[q][d] /\ attempt'[q][d] = attempt[q][d]
         /\ UNCHANGED <<main, stage, adminTasks, tasks>>
<1>0. attempt[p][c] \in 0 .. MaxAttempts /\ attempt[p][c] \in Nat /\ 0 \in 0 .. MaxAttempts
      BY DEF TypeOK, MaxAttempts
<1>1. /\ call[p][c] = "pending" /\ attempt[p][c] >= 1
      /\ \/ Retry(p, c) /\ attempt[p][c] < MaxAttempts
         \/ \E r \in Finished : Finish(p, c, r)
      BY DEF AttemptsCounted, PostAttempt, PostSucceeds, PostReturnsNothing, PostRaises,
             PostIsRejected, PostIsThrottled, PostExhausted, PostIsRetried, Finished,
             Returned, Raised
<1>2. UNCHANGED <<main, stage, adminTasks, tasks>>
      BY AttemptKeepsAnswers
<1>3. CallRank(call[p][c], attempt[p][c]) = attempt[p][c]
      BY <1>0, <1>1, CallRanks
<1>4. CASE Retry(p, c) /\ attempt[p][c] < MaxAttempts
  <2>1. call' = call /\ attempt'[p][c] = attempt[p][c] + 1
        BY <1>4 DEF Retry, TypeOK
  <2>2. attempt'[p][c] \in 0 .. MaxAttempts
        BY <1>0, <1>4, <2>1 DEF MaxAttempts
  <2>3. CallRank(call'[p][c], attempt'[p][c]) = attempt[p][c] + 1
        BY <1>1, <2>1, <2>2, CallRanks
  <2>4. \A q \in Partitions, d \in Calls : q # p \/ d # c => attempt'[q][d] = attempt[q][d]
        BY <1>4 DEF Retry, TypeOK
  <2> QED BY <1>0, <1>1, <1>2, <1>3, <2>1, <2>3, <2>4 DEF CallMoves
<1>5. CASE \E r \in Finished : Finish(p, c, r)
  <2>1. PICK r \in Finished : Finish(p, c, r)
        BY <1>5
  <2>2. call'[p][c] = r /\ attempt'[p][c] = 0
        BY <2>1 DEF Finish, TypeOK
  <2>3. CallRank(call'[p][c], attempt'[p][c]) = 4 /\ r # "pending"
        BY <1>0, <2>2, CallRanks DEF Finished, Returned, Raised
  <2>4. \A q \in Partitions, d \in Calls :
          q # p \/ d # c => call'[q][d] = call[q][d] /\ attempt'[q][d] = attempt[q][d]
        BY <2>1 DEF Finish, TypeOK
  <2> QED BY <1>0, <1>2, <1>3, <2>2, <2>3, <2>4 DEF CallMoves, MaxAttempts
<1> QED BY <1>1, <1>4, <1>5

\* A step that launches calls moves its task, and the calls from "idle".
LEMMA LaunchMoves ==
  ASSUME TypeOK, NEW p \in Partitions, NEW cs \in SUBSET Calls, Launch(p, cs),
         \A c \in cs : call[p][c] = "idle"
  PROVE  \A q \in Partitions, c \in Calls :
           /\ CallRank(call'[q][c], attempt'[q][c]) >= CallRank(call[q][c], attempt[q][c])
           /\ \/ call'[q][c] = "pending" /\ attempt'[q][c] = 1
              \/ call'[q][c] = call[q][c] /\ attempt'[q][c] = attempt[q][c]
<1> SUFFICES ASSUME NEW q \in Partitions, NEW c \in Calls
             PROVE  /\ CallRank(call'[q][c], attempt'[q][c]) >= CallRank(call[q][c], attempt[q][c])
                    /\ \/ call'[q][c] = "pending" /\ attempt'[q][c] = 1
                       \/ call'[q][c] = call[q][c] /\ attempt'[q][c] = attempt[q][c]
    OBVIOUS
<1>1. attempt[q][c] \in 0 .. MaxAttempts /\ call[q][c] \in CallStates /\ 1 \in 0 .. MaxAttempts
      BY DEF TypeOK, MaxAttempts
<1>2. CASE q = p /\ c \in cs
  <2>1. call'[q][c] = "pending" /\ attempt'[q][c] = 1
        BY <1>2 DEF Launch, TypeOK
  <2>2. CallRank(call[q][c], attempt[q][c]) = 0 /\ CallRank(call'[q][c], attempt'[q][c]) = 1
        BY <1>1, <1>2, <2>1, CallRanks
  <2> QED BY <2>1, <2>2
<1>3. CASE ~(q = p /\ c \in cs)
  <2>1. call'[q][c] = call[q][c] /\ attempt'[q][c] = attempt[q][c]
        BY <1>3 DEF Launch, TypeOK
  <2>2. CallRank(call[q][c], attempt[q][c]) \in 0 .. 4
        BY <1>1, CallRanks
  <2> QED BY <2>1, <2>2
<1> QED BY <1>2, <1>3

\* A step of one partition's task moves the task, a call, or the set it waits for.
LEMMA PartitionMoves ==
  ASSUME TypeOK, CallsFollowStages, AttemptsCounted, NEW p \in Partitions, PartitionStep(p)
  PROVE  NothingGoesBack /\ SomethingMoves /\ AttemptsCounted'
<1> USE DEF TaskFrame
<1>0. /\ {InitCall} \in SUBSET Calls /\ {TenantCall} \in SUBSET Calls /\ GroupCalls \in SUBSET Calls
      /\ CallsFollowStage(p)
      BY DEF Calls, CallsFollowStages
<1>a. /\ main \in {"start", "running", "report"}
      /\ \A q \in Partitions : stage[q] \in Stages /\ StageRank(stage[q]) \in Nat
  <2>1. main \in {"start", "running", "report"} /\ \A q \in Partitions : stage[q] \in Stages
        BY DEF TypeOK
  <2>2. \A t \in Stages : StageRank(t) \in Nat
    <3>1. \A t \in Stages : StageRank(t) \in 0 .. 5
          BY StageRanks
    <3> QED BY <3>1
  <2> QED BY <2>1, <2>2
<1>b. \A q \in Partitions, c \in Calls : CallRank(call[q][c], attempt[q][c]) \in Nat
  <2> SUFFICES ASSUME NEW q \in Partitions, NEW c \in Calls
               PROVE  CallRank(call[q][c], attempt[q][c]) \in Nat
      OBVIOUS
  <2>1. attempt[q][c] \in 0 .. MaxAttempts /\ call[q][c] \in CallStates
        BY DEF TypeOK
  <2> QED BY <2>1, CallRanks
<1>c. MainRank(main) \in Nat
      BY <1>a, MainRanks
<1>1. CASE \E c \in Calls : PostAttempt(p, c)
  <2>1. PICK c \in Calls : PostAttempt(p, c)
        BY <1>1
  <2>2. /\ CallMoves(p, c) /\ (call'[p][c] = "pending" => attempt'[p][c] >= 1)
        /\ \A q \in Partitions, d \in Calls :
             q # p \/ d # c => call'[q][d] = call[q][d] /\ attempt'[q][d] = attempt[q][d]
        /\ UNCHANGED <<main, stage, adminTasks, tasks>>
        BY <2>1, AttemptMovesCall
  <2>3. ASSUME NEW q \in Partitions, NEW d \in Calls
        PROVE  /\ CallRank(call'[q][d], attempt'[q][d]) >= CallRank(call[q][d], attempt[q][d])
               /\ call'[q][d] = "pending" => attempt'[q][d] >= 1
    <3>1. CASE q = p /\ d = c
      <4>1. CallRank(call'[p][c], attempt'[p][c]) > CallRank(call[p][c], attempt[p][c])
            BY <2>2 DEF CallMoves
      <4>2. CallRank(call'[p][c], attempt'[p][c]) \in Nat
        <5>1. attempt'[p][c] \in 0 .. MaxAttempts /\ call'[p][c] \in CallStates
              BY <2>1, AttemptType DEF TypeOK
        <5> QED BY <5>1, CallRanks
      <4> QED BY <1>b, <2>2, <3>1, <4>1, <4>2
    <3>2. CASE q # p \/ d # c
          BY <1>b, <2>2, <3>2 DEF AttemptsCounted
    <3> QED BY <3>1, <3>2
  <2>4. SomethingMoves
        BY <2>2 DEF SomethingMoves
  <2>5. NothingGoesBack
        BY <1>a, <1>c, <2>2, <2>3 DEF NothingGoesBack
  <2>6. AttemptsCounted'
        BY <2>3 DEF AttemptsCounted
  <2> QED BY <2>4, <2>5, <2>6
<1>2. CASE BeginPartition(p) \/ CollectPartitionInit(p) \/ TenantProvisioned(p)
  <2>1. /\ TaskMoves(p) /\ UNCHANGED <<main, tasks>>
        /\ \A q \in Partitions : q # p => stage'[q] = stage[q] /\ adminTasks'[q] = adminTasks[q]
        BY <1>2, StageRanks DEF BeginPartition, CollectPartitionInit, TenantProvisioned, TaskMoves, TypeOK
  <2>2. \E cs \in SUBSET Calls : Launch(p, cs) /\ \A c \in cs : call[p][c] = "idle"
        BY <1>0, <1>2, CallsDiffer
        DEF BeginPartition, CollectPartitionInit, TenantProvisioned, CallsFollowStage
  <2>3. \A q \in Partitions, c \in Calls :
          /\ CallRank(call'[q][c], attempt'[q][c]) >= CallRank(call[q][c], attempt[q][c])
          /\ \/ call'[q][c] = "pending" /\ attempt'[q][c] = 1
             \/ call'[q][c] = call[q][c] /\ attempt'[q][c] = attempt[q][c]
        BY <2>2, LaunchMoves
  <2>4. \A q \in Partitions : StageRank(stage'[q]) >= StageRank(stage[q])
    <3>1. StageRank(stage'[p]) > StageRank(stage[p]) /\ stage'[p] \in Stages
          BY <1>2, <2>1 DEF TaskMoves, BeginPartition, CollectPartitionInit, TenantProvisioned, TypeOK, Stages
    <3>2. StageRank(stage'[p]) \in Nat
          BY <3>1, StageRanks
    <3> QED BY <1>a, <2>1, <3>1, <3>2
  <2>5. SomethingMoves
        BY <2>1 DEF SomethingMoves
  <2>6. NothingGoesBack
        BY <1>c, <2>1, <2>3, <2>4 DEF NothingGoesBack
  <2>7. AttemptsCounted'
        BY <2>3 DEF AttemptsCounted
  <2> QED BY <2>5, <2>6, <2>7
<1>3. CASE SecretLookupRaises(p) \/ CallRaises(p) \/ TenantFailed(p) \/ CollectGroups(p) \/ GroupCallRaises(p)
  <2>1. /\ UNCHANGED <<main, tasks, call, attempt>>
        /\ \A q \in Partitions : q # p => stage'[q] = stage[q]
        /\ \A q \in Partitions : adminTasks'[q] \subseteq adminTasks[q]
        BY <1>3, SMTT(30) DEF SecretLookupRaises, CallRaises, TenantFailed, CollectGroups, GroupCallRaises, TypeOK
  <2>2. StageRank(stage'[p]) >= StageRank(stage[p]) /\ (TaskMoves(p) \/ adminTasks'[p] # adminTasks[p])
    <3>1. CASE CollectGroups(p)
      <4>1. /\ stage[p] = "groups" /\ stage'[p] \in {"groups", "done"}
            /\ adminTasks'[p] = adminTasks[p] \ FinishedAdminTasks(p)
            /\ FinishedAdminTasks(p) # {} /\ FinishedAdminTasks(p) \subseteq adminTasks[p]
            BY <3>1 DEF CollectGroups, FinishedAdminTasks, TypeOK
      <4>2. adminTasks'[p] # adminTasks[p]
            BY <4>1
      <4> QED BY <4>1, <4>2, StageRanks
    <3>2. CASE SecretLookupRaises(p) \/ CallRaises(p) \/ TenantFailed(p) \/ GroupCallRaises(p)
      <4>1. /\ stage[p] \in {"scheduled", "partitionInit", "tenant", "groups"}
            /\ stage'[p] \in {"done", "raised"}
            BY <3>2 DEF SecretLookupRaises, CallRaises, TenantFailed, GroupCallRaises, TypeOK
      <4> QED BY <4>1, StageRanks DEF TaskMoves
    <3> QED BY <1>3, <3>1, <3>2
  <2>3. SomethingMoves
        BY <2>2 DEF SomethingMoves
  <2>4. \A q \in Partitions : StageRank(stage'[q]) >= StageRank(stage[q])
        BY <1>a, <2>1, <2>2
  <2>5. NothingGoesBack
        BY <1>b, <1>c, <2>1, <2>4 DEF NothingGoesBack
  <2>6. AttemptsCounted'
        BY <2>1 DEF AttemptsCounted
  <2> QED BY <2>3, <2>5, <2>6
<1> QED BY <1>1, <1>2, <1>3 DEF PartitionStep

\* Every step of the run is a step forward of main, of a task, of a call or of one of
\* the two wait loops, and none is a step back: with finitely many partitions and calls
\* the run cannot go on for ever.
THEOREM RunMovesOn == Spec => [][NothingGoesBack /\ SomethingMoves]_vars
<1>1. Init => AttemptsCounted
      BY DEF Init, AttemptsCounted
<1>2. ASSUME TypeOK, CallsFollowStages, AttemptsCounted, Next, vars' # vars
      PROVE  NothingGoesBack /\ SomethingMoves /\ AttemptsCounted'
  <2>a. /\ main \in {"start", "running", "report"}
        /\ \A q \in Partitions : stage[q] \in Stages /\ StageRank(stage[q]) \in 0 .. 5
        BY <1>2, StageRanks DEF TypeOK
  <2>b. ASSUME NEW q \in Partitions, NEW c \in Calls
        PROVE  CallRank(call[q][c], attempt[q][c]) \in 0 .. 4
    <3>1. attempt[q][c] \in 0 .. MaxAttempts /\ call[q][c] \in CallStates
          BY <1>2 DEF TypeOK
    <3> QED BY <3>1, CallRanks
  <2>1. CASE StartTasks \/ FirstTokenFails
    <3>1. MainMoves /\ MainRank(main') >= MainRank(main)
          BY <2>1, MainRanks DEF StartTasks, FirstTokenFails, MainMoves
    <3>2. /\ UNCHANGED <<call, attempt, adminTasks>>
          /\ \A q \in Partitions : stage'[q] \in {stage[q], "scheduled"} /\ stage[q] = "idle"
          BY <1>2, <2>1 DEF StartTasks, FirstTokenFails, CallsFollowStages
    <3>3. \A q \in Partitions : StageRank(stage'[q]) >= StageRank(stage[q])
          BY <3>2, StageRanks
    <3> QED BY <1>2, <2>b, <3>1, <3>2, <3>3 DEF NothingGoesBack, SomethingMoves, AttemptsCounted
  <2>2. CASE \E p \in Partitions : PartitionStep(p)
        BY <1>2, <2>2, PartitionMoves
  <2>3. CASE CollectPartitions
    <3>1. /\ UNCHANGED <<stage, call, attempt, adminTasks>> /\ tasks' = tasks \ FinishedTasks
          /\ FinishedTasks # {} /\ FinishedTasks \subseteq tasks
          BY <2>3 DEF CollectPartitions, FinishedTasks
    <3>2. tasks' # tasks /\ tasks' \subseteq tasks
          BY <3>1
    <3>3. MainRank(main') >= MainRank(main)
          BY <2>3, MainRanks DEF CollectPartitions
    <3> QED BY <1>2, <2>a, <2>b, <3>1, <3>2, <3>3 DEF NothingGoesBack, SomethingMoves, AttemptsCounted
  <2>4. CASE AbortRun
    <3>1. MainMoves /\ MainRank(main') >= MainRank(main)
          BY <2>4, MainRanks DEF AbortRun, MainMoves
    <3>2. adminTasks' = adminTasks /\ \A q \in Partitions : StageRank(stage'[q]) >= StageRank(stage[q])
          BY <2>4, <2>a, StageRanks DEF AbortRun
    <3>3. ASSUME NEW q \in Partitions, NEW c \in Calls
          PROVE  /\ CallRank(call'[q][c], attempt'[q][c]) >= CallRank(call[q][c], attempt[q][c])
                 /\ call'[q][c] # "pending"
      <4>1. /\ call'[q][c] = IF call[q][c] = "pending" THEN "cancelled" ELSE call[q][c]
            /\ attempt'[q][c] = 0 /\ 0 \in 0 .. MaxAttempts
            BY <2>4 DEF AbortRun, MaxAttempts
      <4>2. call[q][c] \in {"idle", "pending", "cancelled"} \cup Finished
            BY <1>2 DEF TypeOK, CallStates, Finished
      <4>3. call'[q][c] # "pending"
            BY <4>1
      <4>4. CASE call[q][c] = "idle"
        <5>1. attempt[q][c] \in 0 .. MaxAttempts
              BY <1>2 DEF TypeOK
        <5>2. CallRank(call[q][c], attempt[q][c]) = 0 /\ CallRank(call'[q][c], attempt'[q][c]) = 0
              BY <4>1, <4>4, <5>1, CallRanks
        <5> QED BY <4>3, <5>2
      <4>5. CASE call[q][c] # "idle"
        <5>1. call'[q][c] \in Finished \cup {"cancelled"}
              BY <4>1, <4>2, <4>5
        <5>2. CallRank(call'[q][c], attempt'[q][c]) = 4
              BY <4>1, <5>1, CallRanks
        <5> QED BY <2>b, <4>3, <5>2
      <4> QED BY <4>4, <4>5
    <3> QED BY <3>1, <3>2, <3>3 DEF NothingGoesBack, SomethingMoves, AttemptsCounted
  <2> QED BY <1>2, <2>1, <2>2, <2>3, <2>4 DEF Next, Work, Terminated
<1>3. TypeOK /\ CallsFollowStages /\ AttemptsCounted /\ [Next]_vars =>
        AttemptsCounted' /\ [NothingGoesBack /\ SomethingMoves]_vars
  <2>1. vars' = vars /\ AttemptsCounted => AttemptsCounted'
        BY DEF vars, AttemptsCounted
  <2> QED BY <1>2, <2>1
<1> QED BY <1>1, <1>3, TypeCorrect, StagesFollowed, PTL DEF Spec

-----------------------------------------------------------------------------
(* the job *)

\* The finally clause begins when main is at its report, and the config map
\* holds a report of this run only after the write.
JobFollowsRun ==
  /\ job \in {"working", "read", "written", "exited"}
  /\ job # "working" => main = "report"
  /\ configMap.run = "current" => job \in {"written", "exited"}
  /\ configMap.run \in {"previous", "current"}

\* The inductive invariant of the job.
JobInv == TypeOK /\ StatusIsAccounted /\ CallsFollowStages /\ JobFollowsRun

Accepted == {w \in Partitions \X Calls : call[w[1]][w[2]] = "succeeded"}

\* A step of the job is a step of the run, or leaves the run alone.
LEMMA JobStepIsRunStep ==
  ASSUME [JobNext]_allVars
  PROVE  [Next]_vars
BY DEF JobNext, Run, Next, ReadFromConfigMap, ReadRaises, PatchConfigMap, PatchRaises,
       TerminateIstioSidecar, JobTerminated, allVars

\* Once main reports, no task of any partition can take a step.
LEMMA ReportEndsRun ==
  ASSUME CallsFollowStages, main = "report", Work
  PROVE  FALSE
<1>1. PICK p \in Partitions : PartitionStep(p)
      BY DEF Work, StartTasks, FirstTokenFails, CollectPartitions, AbortRun
<1>2. /\ stage[p] \notin {"scheduled", "partitionInit", "tenant", "groups"}
      /\ \A c \in Calls : call[p][c] # "pending"
      BY DEF CallsFollowStages, NothingInFlightAtReport
<1>3. \A c \in Calls : ~ PostAttempt(p, c)
      BY <1>2 DEF PostAttempt, PostSucceeds, PostReturnsNothing, PostRaises, PostIsRejected,
           PostIsThrottled, PostExhausted, PostIsRetried
<1> QED BY <1>1, <1>2, <1>3 DEF PartitionStep, BeginPartition, SecretLookupRaises,
           CollectPartitionInit, CallRaises, TenantProvisioned, TenantFailed, CollectGroups,
           GroupCallRaises

\* Success at the report is success of every call.
LEMMA FinalStatusIsComplete ==
  ASSUME StatusIsAccounted, main = "report", FinalStatus
  PROVE  Accepted = Partitions \X Calls
BY CallsDiffer DEF StatusIsAccounted, LoopKeepsUnfinished, StatusRecordsCalls, FinalStatus, Accepted

\* A step of the run has at most one more call accepted.
LEMMA StepAcceptsOne ==
  ASSUME TypeOK, CallsFollowStages, [Next]_vars
  PROVE  \/ Accepted' = Accepted
         \/ \E w \in (Partitions \X Calls) \ Accepted : Accepted' = Accepted \cup {w}
<1>1. CASE \E p \in Partitions, c \in Calls : PostAttempt(p, c)
  <2>1. PICK p \in Partitions, c \in Calls : PostAttempt(p, c)
        BY <1>1
  <2>2. /\ call[p][c] = "pending"
        /\ \A q \in Partitions, d \in Calls : q # p \/ d # c => call'[q][d] = call[q][d]
        BY <2>1, AttemptChangesOneCall
  <2>3. \A w \in Partitions \X Calls :
          w # <<p, c>> => (w \in Accepted' <=> w \in Accepted)
        BY <2>2 DEF Accepted
  <2>4. <<p, c>> \in (Partitions \X Calls) \ Accepted
        BY <2>2 DEF Accepted
  <2>5. Accepted \subseteq Partitions \X Calls /\ Accepted' \subseteq Partitions \X Calls
        BY DEF Accepted
  <2>6. CASE <<p, c>> \in Accepted'
        BY <2>3, <2>4, <2>5, <2>6
  <2>7. CASE <<p, c>> \notin Accepted'
        BY <2>3, <2>4, <2>5, <2>7
  <2> QED BY <2>6, <2>7
<1>2. CASE ~ \E p \in Partitions, c \in Calls : PostAttempt(p, c)
  <2>1. ASSUME NEW p \in Partitions, NEW c \in Calls, call'[p][c] = "succeeded"
        PROVE  call[p][c] = "succeeded"
    <3>1. ASSUME NEW q \in Partitions, NEW cs \in SUBSET Calls, Launch(q, cs)
          PROVE  call[p][c] = "succeeded"
          BY <2>1, <3>1, LaunchChangesCalls
    <3>2. {InitCall} \in SUBSET Calls /\ {TenantCall} \in SUBSET Calls /\ GroupCalls \in SUBSET Calls
          BY DEF Calls
    <3>3. CASE AbortRun
          BY <2>1, <3>3 DEF AbortRun
    <3>4. ASSUME NEW q \in Partitions, PartitionStep(q)
          PROVE  call[p][c] = "succeeded"
          BY <1>2, <2>1, <3>1, <3>2, <3>4 DEF PartitionStep, BeginPartition, SecretLookupRaises,
               CollectPartitionInit, CallRaises, TenantProvisioned, TenantFailed, CollectGroups,
               GroupCallRaises
    <3> QED BY <2>1, <3>3, <3>4 DEF Next, Work, StartTasks, FirstTokenFails, CollectPartitions,
               Terminated, vars
  <2>2. ASSUME NEW p \in Partitions, NEW c \in Calls, call[p][c] = "succeeded"
        PROVE  call'[p][c] = "succeeded"
        BY <2>2, StepKeepsAnswers DEF Finished, Returned
  <2> QED BY <2>1, <2>2 DEF Accepted
<1> QED BY <1>1, <1>2

\* The job's invariant holds at its start and is kept by each of its steps.
LEMMA JobInvHolds == JobSpec => []JobInv
<1>1. JobInit => JobInv
      BY TypeInit, AccountInit, StagesInit DEF JobInit, JobInv, JobFollowsRun
<1>2. JobInv /\ [JobNext]_allVars => JobInv'
  <2> SUFFICES ASSUME JobInv, [JobNext]_allVars PROVE JobInv'
      OBVIOUS
  <2>1. TypeOK' /\ StatusIsAccounted' /\ CallsFollowStages'
        BY JobStepIsRunStep, TypeStep, AccountStep, StagesStep DEF JobInv
  <2>2. JobFollowsRun'
    <3> USE DEF JobFollowsRun
    <3>1. CASE Run
          BY <3>1, ReportEndsRun DEF JobInv, Run, jobVars
    <3>2. CASE ReadFromConfigMap
          BY <3>2 DEF JobInv, ReadFromConfigMap, vars
    <3>3. CASE ReadRaises
          BY <3>3 DEF JobInv, ReadRaises, vars
    <3>4. CASE PatchConfigMap
          BY <3>4 DEF JobInv, PatchConfigMap, vars
    <3>5. CASE PatchRaises
          BY <3>5 DEF JobInv, PatchRaises, vars
    <3>6. CASE TerminateIstioSidecar
          BY <3>6 DEF JobInv, TerminateIstioSidecar, vars
    <3>7. CASE JobTerminated \/ UNCHANGED allVars
          BY <3>7 DEF JobInv, JobTerminated, allVars, jobVars, vars
    <3> QED BY <3>1, <3>2, <3>3, <3>4, <3>5, <3>6, <3>7 DEF JobNext
  <2> QED BY <2>1, <2>2 DEF JobInv
<1> QED BY <1>1, <1>2, PTL DEF JobSpec

\* The job implements InitReport: its acknowledged calls grow one by one, it
\* reports once, after the last of them, and "success" only when all have been accepted.
THEOREM JobReportsHonestly == JobSpec => ReportIsHonest
<1> DEFINE report == IF configMap.run = "current" THEN configMap.status ELSE "none"
           mapped == <<Accepted, report>>
<1>1. JobInit => Report!ReportInit
  <2> SUFFICES ASSUME JobInit PROVE Accepted = {} /\ report = "none"
      BY DEF Report!ReportInit, Accepted
  <2>1. \A p \in Partitions, c \in Calls : call[p][c] = "idle"
        BY DEF JobInit, Init
  <2>2. configMap.run = "previous"
        BY DEF JobInit
  <2> QED BY <2>1, <2>2 DEF Accepted
<1>2. JobInv /\ [JobNext]_allVars => [Report!ReportNext]_mapped
  <2> SUFFICES ASSUME JobInv, [JobNext]_allVars PROVE Report!ReportNext \/ UNCHANGED mapped
      OBVIOUS
  <2>1. CASE Run
    <3>1. configMap.run # "current" /\ UNCHANGED configMap
          BY <2>1, ReportEndsRun DEF Run, JobInv, JobFollowsRun, jobVars
    <3>2. report = "none" /\ UNCHANGED report
          BY <3>1
    <3>3. CASE Accepted' = Accepted
          BY <3>2, <3>3
    <3>4. CASE \E w \in (Partitions \X Calls) \ Accepted : Accepted' = Accepted \cup {w}
          BY <3>2, <3>4 DEF Report!ReportNext, Report!Acknowledge, Accepted
    <3> QED BY <3>3, <3>4, JobStepIsRunStep, StepAcceptsOne DEF JobInv
  <2>2. CASE PatchConfigMap
    <3>1. /\ configMap.run # "current" /\ main = "report"
          /\ UNCHANGED vars
          /\ configMap' = [status |-> IF FinalStatus THEN "success" ELSE "failure",
                           run    |-> "current"]
          BY <2>2 DEF PatchConfigMap, JobInv, JobFollowsRun
    <3>2. report = "none" /\ report' = IF FinalStatus THEN "success" ELSE "failure"
          BY <3>1
    <3>3. Accepted' = Accepted
          BY <3>1 DEF vars, Accepted
    <3>4. FinalStatus => Accepted = Partitions \X Calls
          BY <3>1, FinalStatusIsComplete DEF JobInv
    <3> QED BY <3>2, <3>3, <3>4 DEF Report!ReportNext, Report!ReportSuccess,
               Report!ReportFailure, Accepted
  <2>3. CASE ~Run /\ ~PatchConfigMap
    <3>1. UNCHANGED configMap /\ UNCHANGED call
          BY <2>3 DEF JobNext, ReadFromConfigMap, ReadRaises, PatchRaises,
               TerminateIstioSidecar, JobTerminated, allVars, jobVars, vars
    <3> QED BY <3>1 DEF Accepted
  <2> QED BY <2>1, <2>2, <2>3
<1> QED BY <1>1, <1>2, JobInvHolds, PTL
        DEF JobSpec, ReportIsHonest, Report!ReportSpec, Accepted
=============================================================================
