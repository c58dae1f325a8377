---------------------------- MODULE InstanceInit ----------------------------
(***************************************************************************)
(* The instance initialization agent: main.py and utils.py of              *)
(* tools/instance_initialization_agent.  One asyncio task per partition     *)
(* posts "partition-init", then "tenant-init", then one call per (group,   *)
(* administrator), every call with its own retries; the tasks share the    *)
(* bearer token and the status dictionary.                                 *)
(*                                                                         *)
(* asyncio runs a task up to its next await, and requests.post blocks the  *)
(* whole loop, so one attempt of a call (post, classification, token       *)
(* refresh) is one step; what a task learns from a call it awaits is       *)
(* another, later step.                                                    *)
(***************************************************************************)
EXTENDS Naturals, FiniteSets

CONSTANTS
  Partitions,   \* the data partitions (PARTITIONS)
  Groups,       \* the group APIs of config.json: add-user, add-ops-user, add-root-user
  Admins        \* the customer administrators (ADMIN_IDS)

\* str.split never returns an empty list, and config.json names three group APIs
ASSUME ConstantsAssumption ==
  /\ Partitions # {}
  /\ Groups # {}
  /\ Admins # {}
  /\ {"partition-init", "tenant-init"} \cap Groups = {}

VARIABLES
  main,        \* where main() is: "start", "running" (in the event loop), "report"
  token,       \* the global bearer token
  ops,         \* status["ops"]
  status,      \* status[p]
  stage,       \* how far the task initializeInstancePartition(p) is
  call,        \* what became of each servicePostApiCall task
  attempt,     \* its attemptCount while it is pending, else 0
  adminTasks,  \* admin_entitlements_tasks of initializeEntitlements(p)
  tasks        \* tasks of performInstanceInitialization

vars == <<main, token, ops, status, stage, call, attempt, adminTasks, tasks>>

MaxAttempts == 3

InitCall   == <<"partition-init", "self">>
TenantCall == <<"tenant-init", "self">>
GroupCalls == Groups \X Admins
Calls      == {InitCall, TenantCall} \cup GroupCalls

NoToken    == ""
BadToken   == "Token Fetch Failed"
GoodToken  == "valid"

Returned   == {"succeeded", "failed"}              \* {"isSuccess": ...}
Raised     == {"throttled", "error"}               \* an exception left the coroutine
CallStates == {"idle", "pending", "cancelled"} \cup Returned \cup Raised
Finished   == Returned \cup Raised

Stages == {"idle", "scheduled", "partitionInit", "tenant", "groups",
           "done", "raised", "cancelled"}

Init ==
  /\ main = "start"
  /\ token = NoToken
  /\ ops = TRUE
  /\ status = [p \in Partitions |-> TRUE]
  /\ stage = [p \in Partitions |-> "idle"]
  /\ call = [p \in Partitions |-> [c \in Calls |-> "idle"]]
  /\ attempt = [p \in Partitions |-> [c \in Calls |-> 0]]
  /\ adminTasks = [p \in Partitions |-> {}]
  /\ tasks = {}

-----------------------------------------------------------------------------
(* main and performInstanceInitialization, up to the first wait *)

\* main assigns the fetched token to a local variable: the global stays empty
StartTasks ==
  /\ main = "start"
  /\ main' = "running"
  /\ stage' = [p \in Partitions |-> "scheduled"]
  /\ tasks' = Partitions
  /\ UNCHANGED <<token, ops, status, call, attempt, adminTasks>>

\* no token after three tries, or the metadata endpoint raises
FirstTokenFails ==
  /\ main = "start"
  /\ main' = "report"
  /\ ops' = FALSE
  /\ UNCHANGED <<token, status, stage, call, attempt, adminTasks, tasks>>

-----------------------------------------------------------------------------
(* servicePostApiCall *)

\* aio.create_task(servicePostApiCall(...)) for the calls cs of partition p
Launch(p, cs) ==
  /\ call' = [call EXCEPT ![p] = [c \in Calls |-> IF c \in cs THEN "pending" ELSE @[c]]]
  /\ attempt' = [attempt EXCEPT ![p] = [c \in Calls |-> IF c \in cs THEN 1 ELSE @[c]]]

Finish(p, c, result) ==
  /\ call' = [call EXCEPT ![p][c] = result]
  /\ attempt' = [attempt EXCEPT ![p][c] = 0]

Retry(p, c) ==
  /\ attempt' = [attempt EXCEPT ![p][c] = @ + 1]
  /\ UNCHANGED call

CallFrame == UNCHANGED <<main, ops, status, stage, adminTasks, tasks>>

\* a status of 200..299 or 409; the services refuse a caller without a token
PostSucceeds(p, c) ==
  /\ call[p][c] = "pending"
  /\ token = GoodToken
  /\ Finish(p, c, "succeeded")
  /\ UNCHANGED token
  /\ CallFrame

\* mutant: one attempt too many
PostReturnsNothingOffByOne(p, c) ==
  /\ call[p][c] = "pending"
  /\ IF attempt[p][c] <= MaxAttempts THEN Retry(p, c) ELSE Finish(p, c, "failed")
  /\ UNCHANGED token
  /\ CallFrame

\* no response object: retried with the token as it is
PostReturnsNothing(p, c) ==
  /\ call[p][c] = "pending"
  /\ IF attempt[p][c] < MaxAttempts THEN Retry(p, c) ELSE Finish(p, c, "failed")
  /\ UNCHANGED token
  /\ CallFrame

\* requests raises, and its handlers raise in turn: json.dumps(exception)
PostRaises(p, c) ==
  /\ call[p][c] = "pending"
  /\ Finish(p, c, "error")
  /\ UNCHANGED token
  /\ CallFrame

\* 400, 404 and every status the code does not classify
PostIsRejected(p, c) ==
  /\ call[p][c] = "pending"
  /\ Finish(p, c, "failed")
  /\ UNCHANGED token
  /\ CallFrame

\* 429: before the last attempt, print.sleep raises AttributeError
PostIsThrottled(p, c) ==
  /\ call[p][c] = "pending"
  /\ Finish(p, c, IF attempt[p][c] < MaxAttempts THEN "throttled" ELSE "failed")
  /\ UNCHANGED token
  /\ CallFrame

\* 401, 403, 5xx on the last attempt
PostExhausted(p, c) ==
  /\ call[p][c] = "pending"
  /\ attempt[p][c] >= MaxAttempts
  /\ Finish(p, c, "failed")
  /\ UNCHANGED token
  /\ CallFrame

\* 401, 403, 5xx earlier: the token is fetched again, into the global, and
\* the call is retried even when no token came; getAccessToken may raise
PostIsRetried(p, c) ==
  /\ call[p][c] = "pending"
  /\ attempt[p][c] < MaxAttempts
  /\ \/ token' \in {GoodToken, BadToken} /\ Retry(p, c)
     \/ token' = token /\ Finish(p, c, "error")
  /\ CallFrame

PostAttempt(p, c) ==
  \/ PostSucceeds(p, c)
  \/ PostReturnsNothing(p, c)
  \/ PostRaises(p, c)
  \/ PostIsRejected(p, c)
  \/ PostIsThrottled(p, c)
  \/ PostExhausted(p, c)
  \/ PostIsRetried(p, c)

-----------------------------------------------------------------------------
(* the task of one partition *)

TaskFrame == UNCHANGED <<main, token, ops, tasks>>

\* initializePartition: the vault's secrets are read before the call is made
BeginPartition(p) ==
  /\ stage[p] = "scheduled"
  /\ stage' = [stage EXCEPT ![p] = "partitionInit"]
  /\ Launch(p, {InitCall})
  /\ UNCHANGED <<status, adminTasks>>
  /\ TaskFrame

\* a secret is missing: the except clause logs the exception object, which
\* ' '.join refuses, so the clause raises before it reaches status[p] = False
SecretLookupRaises(p) ==
  /\ stage[p] = "scheduled"
  /\ stage' = [stage EXCEPT ![p] = "raised"]
  /\ UNCHANGED <<status, call, attempt, adminTasks>>
  /\ TaskFrame

\* initializeInstancePartition goes on to the entitlements whatever the
\* partition call returned
CollectPartitionInit(p) ==
  /\ stage[p] = "partitionInit"
  /\ call[p][InitCall] \in Returned
  /\ status' = [status EXCEPT ![p] = @ /\ call[p][InitCall] = "succeeded"]
  /\ stage' = [stage EXCEPT ![p] = "tenant"]
  /\ Launch(p, {TenantCall})
  /\ UNCHANGED adminTasks
  /\ TaskFrame

\* the except clause around "partition-init" raises, as in SecretLookupRaises;
\* nothing catches what "tenant-init" raises
CallRaises(p) ==
  /\ \/ stage[p] = "partitionInit" /\ call[p][InitCall] \in Raised
     \/ stage[p] = "tenant" /\ call[p][TenantCall] \in Raised
  /\ stage' = [stage EXCEPT ![p] = "raised"]
  /\ UNCHANGED <<status, call, attempt, adminTasks>>
  /\ TaskFrame

\* mutant: the answer of "tenant-init" is not looked at
TenantAnswered(p) ==
  /\ stage[p] = "tenant"
  /\ call[p][TenantCall] \in Returned
  /\ stage' = [stage EXCEPT ![p] = "groups"]
  /\ Launch(p, GroupCalls)
  /\ adminTasks' = [adminTasks EXCEPT ![p] = GroupCalls]
  /\ UNCHANGED status
  /\ TaskFrame

TenantProvisioned(p) ==
  /\ stage[p] = "tenant"
  /\ call[p][TenantCall] = "succeeded"
  /\ stage' = [stage EXCEPT ![p] = "groups"]
  /\ Launch(p, GroupCalls)
  /\ adminTasks' = [adminTasks EXCEPT ![p] = GroupCalls]
  /\ UNCHANGED status
  /\ TaskFrame

TenantFailed(p) ==
  /\ stage[p] = "tenant"
  /\ call[p][TenantCall] = "failed"
  /\ status' = [status EXCEPT ![p] = FALSE]
  /\ stage' = [stage EXCEPT ![p] = "done"]
  /\ UNCHANGED <<call, attempt, adminTasks>>
  /\ TaskFrame

FinishedAdminTasks(p) == {c \in adminTasks[p] : call[p][c] \in Finished}

\* mutant: a call still in flight counts as a failure
CollectGroupsEagerly(p) ==
  LET finished == FinishedAdminTasks(p) IN
  /\ stage[p] = "groups"
  /\ finished # {}
  /\ \A c \in finished : call[p][c] \in Returned
  /\ status' = [status EXCEPT ![p] = @ /\ \A c \in adminTasks[p] : call[p][c] = "succeeded"]
  /\ adminTasks' = [adminTasks EXCEPT ![p] = @ \ finished]
  /\ stage' = [stage EXCEPT ![p] = IF adminTasks[p] \subseteq finished THEN "done" ELSE @]
  /\ UNCHANGED <<call, attempt>>
  /\ TaskFrame

\* aio.wait(admin_entitlements_tasks, FIRST_COMPLETED) hands over every call
\* that has finished by the time the waiter runs
CollectGroups(p) ==
  LET finished == FinishedAdminTasks(p) IN
  /\ stage[p] = "groups"
  /\ finished # {}
  /\ \A c \in finished : call[p][c] \in Returned
  /\ status' = [status EXCEPT ![p] = @ /\ \A c \in finished : call[p][c] = "succeeded"]
  /\ adminTasks' = [adminTasks EXCEPT ![p] = @ \ finished]
  /\ stage' = [stage EXCEPT ![p] = IF adminTasks[p] \subseteq finished THEN "done" ELSE @]
  /\ UNCHANGED <<call, attempt>>
  /\ TaskFrame

\* result() of a raised call ends the loop over the finished ones, which come in
\* any order: failures after it are not recorded, unfinished calls run on
GroupCallRaises(p) ==
  LET finished == FinishedAdminTasks(p) IN
  /\ stage[p] = "groups"
  /\ \E c \in finished : call[p][c] \in Raised
  /\ \/ UNCHANGED status
     \/ /\ \E c \in finished : call[p][c] = "failed"
        /\ status' = [status EXCEPT ![p] = FALSE]
  /\ stage' = [stage EXCEPT ![p] = "raised"]
  /\ UNCHANGED <<call, attempt, adminTasks>>
  /\ TaskFrame

PartitionStep(p) ==
  \/ BeginPartition(p)
  \/ SecretLookupRaises(p)
  \/ CollectPartitionInit(p)
  \/ CallRaises(p)
  \/ TenantProvisioned(p)
  \/ TenantFailed(p)
  \/ CollectGroups(p)
  \/ GroupCallRaises(p)
  \/ \E c \in Calls : PostAttempt(p, c)

-----------------------------------------------------------------------------
(* performInstanceInitialization's wait loop, and main's except clause *)

FinishedTasks == {p \in tasks : stage[p] \in {"done", "raised"}}

\* mutant: the first finished tasks end the loop
CollectFirstPartitions ==
  /\ main = "running"
  /\ FinishedTasks # {}
  /\ \A p \in FinishedTasks : stage[p] = "done"
  /\ tasks' = tasks \ FinishedTasks
  /\ main' = "report"
  /\ UNCHANGED <<token, ops, status, stage, call, attempt, adminTasks>>

CollectPartitions ==
  /\ main = "running"
  /\ FinishedTasks # {}
  /\ \A p \in FinishedTasks : stage[p] = "done"
  /\ tasks' = tasks \ FinishedTasks
  /\ main' = IF tasks \subseteq FinishedTasks THEN "report" ELSE main
  /\ UNCHANGED <<token, ops, status, stage, call, attempt, adminTasks>>

\* mutant: the except clause does not record the exception
AbortUnrecorded ==
  /\ main = "running"
  /\ \E p \in FinishedTasks : stage[p] = "raised"
  /\ main' = "report"
  /\ ops' = ops
  /\ stage' = [p \in Partitions |->
                 IF stage[p] \in {"done", "raised"} THEN stage[p] ELSE "cancelled"]
  /\ call' = [p \in Partitions |-> [c \in Calls |->
                 IF call[p][c] = "pending" THEN "cancelled" ELSE call[p][c]]]
  /\ attempt' = [p \in Partitions |-> [c \in Calls |-> 0]]
  /\ UNCHANGED <<token, status, adminTasks, tasks>>

\* mutant: the cancellation discards answers that have come
AbortDiscarding ==
  /\ main = "running"
  /\ \E p \in FinishedTasks : stage[p] = "raised"
  /\ main' = "report"
  /\ ops' = FALSE
  /\ stage' = [p \in Partitions |->
                 IF stage[p] \in {"done", "raised"} THEN stage[p] ELSE "cancelled"]
  /\ call' = [p \in Partitions |-> [c \in Calls |->
                 IF stage[p] # "done" /\ call[p][c] # "idle" THEN "cancelled" ELSE call[p][c]]]
  /\ attempt' = [p \in Partitions |-> [c \in Calls |-> 0]]
  /\ UNCHANGED <<token, status, adminTasks, tasks>>

\* fin.result() raises out of aio.run, which cancels every task still alive
AbortRun ==
  /\ main = "running"
  /\ \E p \in FinishedTasks : stage[p] = "raised"
  /\ main' = "report"
  /\ ops' = FALSE
  /\ stage' = [p \in Partitions |->
                 IF stage[p] \in {"done", "raised"} THEN stage[p] ELSE "cancelled"]
  /\ call' = [p \in Partitions |-> [c \in Calls |->
                 IF call[p][c] = "pending" THEN "cancelled" ELSE call[p][c]]]
  /\ attempt' = [p \in Partitions |-> [c \in Calls |-> 0]]
  /\ UNCHANGED <<token, status, adminTasks, tasks>>

\* what writeOutputToConfigMap is about to report
FinalStatus == ops /\ \A p \in Partitions : status[p]

Work ==
  \/ StartTasks
  \/ FirstTokenFails
  \/ \E p \in Partitions : PartitionStep(p)
  \/ CollectPartitions
  \/ AbortRun

\* the process of this module is over; main's finally clause is InstanceInitJob's
Terminated == main = "report" /\ UNCHANGED vars

Next == Work \/ Terminated

\* the loop runs a ready task as long as there is one, and every request is
\* assumed to be answered: requests.post is called with timeout=None
Spec == Init /\ [][Next]_vars /\ WF_vars(Next)

-----------------------------------------------------------------------------
(* properties *)

\* Every variable has its type, and attemptCount stays within its three values.
TypeOK ==
  /\ main \in {"start", "running", "report"}
  /\ token \in {NoToken, BadToken, GoodToken}
  /\ ops \in BOOLEAN
  /\ status \in [Partitions -> BOOLEAN]
  /\ stage \in [Partitions -> Stages]
  /\ call \in [Partitions -> [Calls -> CallStates]]
  /\ attempt \in [Partitions -> [Calls -> 0 .. MaxAttempts]]
  /\ adminTasks \in [Partitions -> SUBSET GroupCalls]
  /\ tasks \in SUBSET Partitions

\* A success that main is about to report is true of every call of every
\* partition: no failure, exception, cancellation or collection order hides one.
SuccessIsComplete ==
  main = "report" /\ FinalStatus =>
    \A p \in Partitions, c \in Calls : call[p][c] = "succeeded"

\* What status[p] = TRUE stands for while the task of p goes on: every call it
\* has collected so far was accepted.
StatusRecordsCalls(p) ==
  /\ stage[p] \in {"tenant", "groups", "done"} /\ status[p] =>
       call[p][InitCall] = "succeeded"
  /\ stage[p] \in {"groups", "done"} /\ status[p] =>
       /\ call[p][TenantCall] = "succeeded"
       /\ \A c \in GroupCalls \ adminTasks[p] : call[p][c] = "succeeded"
  /\ stage[p] = "done" /\ status[p] => adminTasks[p] = {}

\* The wait loop of performInstanceInitialization lets go of a task only when it
\* is done, and main reports status["ops"] only after all of them.
LoopKeepsUnfinished ==
  /\ main = "running" => \A p \in Partitions \ tasks : stage[p] = "done"
  /\ main = "report" /\ ops => \A p \in Partitions : stage[p] = "done"

\* The inductive invariant behind SuccessIsComplete: at every point of the
\* interleaving, the status dictionary and the two wait loops account for every
\* call that has been made so far.
StatusIsAccounted ==
  /\ LoopKeepsUnfinished
  /\ \A p \in Partitions : StatusRecordsCalls(p)

\* When main reports, no call is in flight any more, although an exception
\* leaves the group calls of its partition and the other partitions running.
NothingInFlightAtReport ==
  main = "report" => \A p \in Partitions, c \in Calls : call[p][c] # "pending"

\* An administrator is never added to a group of a partition whose tenant is
\* not provisioned (initializeEntitlements: "prerequisite call failed").
GroupsNeedTenant ==
  \A p \in Partitions, c \in GroupCalls :
    call[p][c] # "idle" => call[p][TenantCall] = "succeeded"

\* Which calls of p can be in flight, and which can have been made at all, at
\* each stage of its task; a raised task leaves its group calls running.
CallsFollowStage(p) ==
  /\ stage[p] \in {"idle", "scheduled"} => \A c \in Calls : call[p][c] = "idle"
  /\ stage[p] = "partitionInit" => \A c \in GroupCalls \cup {TenantCall} : call[p][c] = "idle"
  /\ stage[p] = "tenant" => \A c \in GroupCalls : call[p][c] = "idle"
  /\ call[p][InitCall] = "pending" => stage[p] = "partitionInit"
  /\ call[p][TenantCall] = "pending" => stage[p] = "tenant"
  /\ \A c \in GroupCalls : call[p][c] = "pending" =>
       \/ stage[p] = "groups" /\ c \in adminTasks[p]
       \/ stage[p] = "raised"

\* The inductive invariant behind NothingInFlightAtReport and GroupsNeedTenant:
\* at every stage only the calls awaited there are in flight, and when main
\* reports, no task of any partition can take a further step.
CallsFollowStages ==
  /\ \A p \in Partitions : CallsFollowStage(p)
  /\ main = "start" => \A p \in Partitions : stage[p] = "idle"
  /\ main = "report" => \A p \in Partitions : stage[p] \in {"idle", "done", "raised", "cancelled"}
  /\ NothingInFlightAtReport
  /\ GroupsNeedTenant

\* A partition's status is false only when one of its calls came back failed: a
\* retried attempt that recovers leaves no trace in the report.
FailureHasCause ==
  \A p \in Partitions :
    ~status[p] => \E c \in Calls : call[p][c] = "failed"

\* The answer of a call is final: no later attempt, collection or cancellation
\* of another partition overwrites it, and no call is posted twice.
AnswersAreFinal ==
  [][\A p \in Partitions, c \in Calls :
       call[p][c] \in Finished => call'[p][c] = call[p][c]]_vars

\* The log line of initializeInstancePartition: "Skipping Entitlements
\* Initialization since Partition Initialization failed".
EntitlementsSkippedAfterFailure ==
  \A p \in Partitions :
    call[p][InitCall] = "failed" => call[p][TenantCall] = "idle"

=============================================================================
