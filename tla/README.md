# TLA+ models of infra-azure-provisioning

This directory models the programs of the OSDU-on-Azure provisioning repository
that keep state, retry, run concurrently or can be cut off half way. Terraform
templates, helm charts without logic, dashboards and manual REST scripts carry
no behaviour of that kind and are listed as not modelled.

## 1. The system and its parts

| Part | Source | State it keeps | Operations | Talks to |
|---|---|---|---|---|
| Instance initialization agent | `tools/instance_initialization_agent` | token, status and message dictionaries, asyncio tasks | partition init, tenant provisioning, group additions, config map write, sidecar stop | partition and entitlements services, Key Vault, instance metadata, Kubernetes |
| Data initialization agents | `tools/data_initialization_agent/{partition_init,entitlements_init}` | shell variables, one shared config map | the same calls from shell loops, config map read-modify-write, exit trap | the same services, `kubectl`, istio |
| Data seeding agents | `tools/data_seeding_agent`, `tools/helper_services_data_seeding_agent` | shell variables, config map, storage shares | log in, fetch, upload with retries, report | Azure CLI, git, `kubectl` |
| Backup policy script | `tools/backup/update_backup_policies.sh` | protected items, policies | change the policy of every share | Azure CLI |
| Certificate rotation | `charts/osdu-istio/templates/cert-*.yaml` | certificate of the gateway, of Key Vault, of the Kubernetes secret | hourly compare, import, refresh, restart | Key Vault, application gateway, cert-manager |
| Airflow log function | `source/airflow-function` | one log record under construction | split a log blob into records, post them | storage queue, Log Analytics |
| StatsD backend | `source/airflow-statsd` | client, prefix, roles | parse metric keys, send on flush | StatsD, Application Insights |
| Legal tag job | `source/legal-tags-update-trigger` | token, partition list | token, partitions, one status update per partition | legal and partition services, Application Insights |
| Probe client | `source/probe-test-client` | `failedTests`, shared service table, OAuth token | test scenarios against every service, telemetry | all OSDU services, Application Insights |
| Preparation script | `infra/scripts/common_prepare.sh` | Azure and AD resources, vault secrets | check-then-create of each resource | Azure CLI |
| Cluster maintenance script | `infra/scripts/keda_upgrade_and_host_encryption.sh` | flux replicas, node pools, KEDA | disable flux, upgrade, enable flux | `kubectl`, `helm`, Azure CLI |
| Terraform driver | `infra/scripts/terraform.sh`, `infra/magefile.go` | workspace, plan files | init, select workspace, plan, apply | terraform |
| Infrastructure test harness | `test-harness` | expected and actual attribute maps | subset check of plans and outputs | terratest |
| Delivery pipelines | `devops` | plan artefacts, gitops repository, flux | plan, apply, push, wait | Azure DevOps, flux |
| Terraform templates and modules | `infra/templates`, `infra/modules` | — | declarative | terraform |
| Helm charts | `charts` | — | declarative | helm |
| REST scripts, test data, docs | `tools/rest`, `tools/test_data`, `docs` | — | manual | — |

### What is hard in them

* *Instance initialization agent.* One task per partition and one per group
  call, all retrying, share a token and a status dictionary. An exception in one
  task aborts the run and cancels the others. The report is written in a
  `finally` clause whose own error handlers raise. Correct means: success is
  reported only of a complete initialization; no call is posted twice or left in
  flight; the job ends.
* *Data initialization agents.* Two jobs read, modify and replace one config map
  without any lock, and each retries with its own counter. Correct means: a job
  that succeeded says so, one that failed says so, and nobody hides it.
* *Certificate rotation.* Three copies of a certificate are brought together by
  a job that may stop between any two steps. Correct means: copies converge, and
  one job alone never puts an older certificate in the place of a newer one.
* *Airflow log function.* The queue delivers a blob at least once; a record spans
  several lines. Correct means: every line of the blob reaches the workspace in
  one record, in order.
* *Probe client.* Tests mutate one shared table of services; several runs share
  the tenant's fixed identifiers. Correct means: the events and the exit
  code tell the outcome of that run, and a run leaves nothing behind.
* *Preparation script.* It is re-run after a failure; what was created before
  the failure is not created again, so what depends on it must not be lost. A query
  that fails is taken for absence, and what exists is created over.

PROJECT.json lists each such hazard at its line.

## 2. Plan

1. `InstanceInit`, `InstanceInitJob`, abstract `InitReport`. (done, proved)
2. `ConfigMapReport`, the map and the exit of all shell agents; `DataInit`, `SeedData` and
   `Transfer`, the agents; `DataAgents`, their composition. (done, proved)
3. `LogShipper`: queue deliveries and the record parser against a reference
   definition of a record. (done, proved)
4. `CertRotation`: the init job, the hourly job, cert-manager and the gateway's
   polling. (done, proved)
5. `ProbeRunner` and `ProbeScenarios`: the mocha runner, the scenarios as data.
   (done, proved; the per-API events are left)
6. The programs that run by themselves: `LegalTagJob`, `KedaUpgrade`, `CommonPrepare`,
   `StatsdBackend`, `ValidateTargets` (done, proved); one run,
   `MCPrograms`, checks them.
7. Left: the pipelines that push to one branch; the terraform driver and the backup
   script, which are sequences of commands without a state of their own.

What is not proved is listed, with the reasons, at the end of section 5.

## 3. The modules

### InstanceInit and InstanceInitJob (`tools/instance_initialization_agent`)

| Specification | Code |
|---|---|
| `token`, `ops`, `status` | the globals `token`, `status["ops"]`, `status[partition]` |
| `stage[p]` | how far the coroutine `initializeInstancePartition` of p has come |
| `call[p][c]`, `attempt[p][c]` | a `servicePostApiCall` task and its `attemptCount` |
| `adminTasks[p]`, `tasks` | the two lists the `aio.wait(..., FIRST_COMPLETED)` loops wait for |
| `StartTasks`, `FirstTokenFails` | `main` up to the event loop |
| `PostSucceeds` ... `PostIsRetried` | one attempt: post, classification of the status, token refresh, recursion |
| `BeginPartition`, `SecretLookupRaises`, `CollectPartitionInit`, `CallRaises` | `initializePartition` and what `initializeInstancePartition` makes of it |
| `TenantProvisioned`, `TenantFailed`, `CollectGroups`, `GroupCallRaises` | `initializeEntitlements` |
| `CollectPartitions`, `AbortRun` | the wait loop of `performInstanceInitialization`; an exception leaves `aio.run`, which cancels every task |
| `ReadFromConfigMap`, `ReadRaises`, `PatchConfigMap`, `PatchRaises`, `TerminateIstioSidecar` | the `finally` clause of `main` |

asyncio gives a task up only at an `await`, and `requests.post` blocks the
thread. One attempt of a call is therefore one step, and so is what a waiter
does with the calls that have finished; between these steps any other task may
run. A service refuses a request without a token, and the first token never
reaches the global, so every first call of a run goes out without one: this is
in the model because `main` assigns it to a local name.

Two exception paths are modelled as the code has them and not as it means them:
a 429 before the last attempt calls `print.sleep`, which does not exist
(`utils.py:55`); and the config map's exception handlers raise themselves
(`configmap_utils.py:52`, and `checkIfConfigMapLengthException`), so the read and the
write of the map are attempted once, however often the loop around them is meant
to run.

`InitReport` is the abstract specification: calls are acknowledged once and for
good, one report at most is given, and it is "success" only when every call has
been acknowledged. `ReportIsHonest` says that the job implements it, with the
calls that are "succeeded" and the map's content of this run as its two
variables. Three shell agents implement it as well, with exit codes as reports.

### ConfigMapReport, DataInit, SeedData, Transfer, DataAgents (`tools/data_*`, `tools/helper_*`)

The four scripts end alike, and `ConfigMapReport` is this end, parameterised by the
agent: `ReadConfigMap` and `ReplaceConfigMap` are the `kubectl get` and `kubectl
replace` of the map they share, without a lock between them; `Cleanup` is the exit trap.
`snapshot[a]` is what agent a has read, `configMap` what the cluster holds. `before[a]` and
`getFailed[a]` are history: which agents had replaced the map when a read it, and whether
its `kubectl get` failed, so that a lost message can be put down to one or the other.

`DataInit` has the two initialization scripts, which have one shape: over the partitions,
over the loops of a partition (`init`; or `tenant`, `user`, `ops`, `root`), up to three
attempts. One action is one attempt with one class of answer, `EndLoop` is the `-ge 3`
test, the reset of `i` and the next loop, `CompareCounts` the comparisons at the end.
`accepted` is what the services hold.

`SeedData` has `seed_data.sh`: the login with its retries, the rounds over the partitions, the
uploads with the checks after them, and `upload-data.py`, whose exit code is not read.
`Transfer` has `transfer.sh`: the clones, whose failure sets the message and not the
status, the login with its retries, and the uploads of the catalogs from the working
directory the steps before have left.

`DataAgents` composes them: the agents of `pods` run, each in a pod of its own, and their
steps interleave freely.

### LogShipper (`source/airflow-function`)

`Deliver` is one invocation for a queue message. Each line is one step:
`EndOfDocument`, `StartRecord`, `ContinueRecord` and `NoRecordToContinue` are the
branches of the loop in `queueTrigger.cs`. A line is one of four kinds, the
ones the code's tests tell apart: it starts with a timestamp, it has one further
on (the regular expression is not anchored, line 69), it has none, it is empty.
`SendLogs` is the post, whose failures `PostData` swallows. `EndOfDocument` posts the last
record and returns; that the host deletes the message is a step of its own,
`DeleteMessage`. An invocation may die before any line and between these two
(`InvocationDies`); the host then redelivers the message until its dequeue limit, also
one whose records are all posted.
`RecordsOf` defines what the records of a document are, without reference to the
loop.

### CertRotation (`charts/osdu-istio/templates/cert-*.yaml`)

Three stores (vault, gateway secret, application gateway), the source
certificate of cert-manager, and two pods with the files they have read. One
action is one command of the script. `CommandFails` is a command that fails on its own or
as the last of a pipe, under `set -e`. There is no `pipefail`: `PipedReadFails` is one of the
three `kubectl get ... | base64 -d` (lines 84, 190 and 191 of the checker), which leaves an
empty file, and the script goes on and applies what it has. `Issue` is a new certificate from
outside, at any point and possibly with the same expiry day as its predecessor.
`ReadGatewayAndCompare` keeps the first certificate read in a pod, because
`public.cert` is appended to and openssl prints the first block of it.
`overtaken` is history: whether the other job has stored something since this one fetched.

Only days are compared, and only those of certificates. With cert-manager as the source, a
renewal between the reads of lines 190 and 191, or a key read that fails, puts a
certificate with another key or with none into the gateway's secret before `openssl`
refuses the pair and ends the pod. Where the days of the three certificates then agree,
no later check sees it: `PlacesConverge` claims the days and not the keys.

One pod of each job runs at a time. The cron job sets no `concurrencyPolicy`, so that a pod
that takes longer than an hour would meet the next one: this is left out. Pods are tried
again without the limits of the jobs (`backoffLimit`), which only adds behaviours.

### ProbeScenarios and ProbeRunner (`source/probe-test-client`)

`ProbeScenarios` has each scenario file as the sequence of its tests, under the
flags of `config.js`. A test is a record: what it asks of a service (`do`), the
resources it is about, those the service needs, the variables it uses and sets.
`ProbeRunner` is mocha with the hooks of the files: token, tests in order,
`afterEach`, event at the end; and a platform that keeps what is stored between
tests and between files. A fault is a refused call, a lost or different answer, a
timeout of mocha with an answer that comes later, a token that is none, or a
workflow that is slower than the fixed wait. Some tests throw before they call anything
(`TestThrows`): two of `crud_policy.js` read apis that no service has, and two searches of
`scenario_csv-ingest.js` assign an undeclared name under `'use strict'`. With the flags that
enable them these files are never green. `arrived` is history: what is stored because it
came by itself, late. `Leftovers` are the sets of fixed names that earlier
runs may have left on the platform: any in the proofs, three of them in `MCProbe`.

### The programs that run by themselves

* `LegalTagJob` (`source/legal-tags-update-trigger`): the promise chain of
  `cronjob.js`. `Requests` are the token, the list and one update for each partition;
  `Retry` is axios-retry; `TokenFailed` is the `catch` that swallows, after which the list is asked
  for with an undefined token; `ListNoArray` is the `forEach` that rejects a promise nobody
  handles. The updates of the partitions run concurrently.
* `KedaUpgrade` (`infra/scripts/keda_upgrade_and_host_encryption.sh`): one action
  is one attempt of a loop or one command. `old` is what is left of KEDA 1, by the
  loop that deletes it. A deletion that ran into its timeout may still happen;
  `FluxSync` puts back objects while flux runs. `Clone` to `Apply` is the part under
  `set -euo pipefail`, `EnableFlux` the exit trap, `RunAgain` the operator.
* `CommonPrepare` (`infra/scripts/common_prepare.sh`): one action is one
  check-then-create or one command after it. Each query may fail, which the script takes for
  absence: it then sets the lock again, or has `az ad sp create-for-rbac` give an identity
  that exists another password (`Renew`). `values` are the shell variables all the functions
  share, `secrets` is what the vaults hold, by number, and `stale` those of them whose
  identity has another password since. `missed` is history: what a query did not find though
  it existed. `Stop` may happen anywhere, `PrepareAgain` runs the script again with the same
  number or another one.
* `StatsdBackend` (`source/airflow-statsd`): `onFlush` over counters, timers and gauges, with the
  selection by prefix and the parsing of a key's properties. `StatsdKeys` are the keys a flush
  brings, `BadProps` what is no base64 of JSON behind a key's "__".
* `ValidateTargets` (`test-harness/infratests/validate.go`): the match of expected
  attributes as recursive functions over `Values`, a set of documents that is closed under
  parts and in which a part is less deep than what it is of (`Depth`); against two things a match
  is to be: what is expected is stated, and a preorder.

## 4. The runs

| Run | Module | What it shows |
|---|---|---|
| `instance_init` | `MCInstanceInitJob` | a reported success is complete; the status and the wait loops account for every call; nothing is in flight at the report; groups follow the tenant; a failure has a cause; answers are final; the job implements `InitReport`, ends, and one that reported has asked its sidecar to quit unless that request failed |
| `data_init` | `MCDataAgents` | exit 0 means that all was accepted, uploaded and seeded, but for the two failures the seeding scripts cannot see; groups follow the tenant; a message is lost from the map only when two agents' read and replace overlap or a `kubectl get` failed; the agents implement `InitReport` and exit |
| `log_shipper` | `LogShipper` | no record is torn; the records of a regular log arrive or their post has failed; copies only by redelivery, of a completely posted log too; each message is settled |
| `cert_rotation` | `CertRotation` | one job alone never stores an older certificate over a newer one; the places converge by expiry day, from empty files and cut-off pods too |
| `probe` | `MCProbe` | exit code and events agree; a healthy run is green in spite of leftovers; of what a green file cleans up only what came late is on the platform; records go before their legal tag; the run ends |
| `programs` | `MCPrograms` | a silent legal tag job has updated all tags; terraform meets leftovers of KEDA 1 only where a loop gave up; a secret belongs to the identity it is named for, and a stored password is valid unless a query failed; what a preparation left half done is repaired only by such a mistake, and an undisturbed one is complete; a selected metric is sent once; the match is sound and a preorder; every program ends |

Six runs state what a comment or a message of the code says and find it refuted
by what the code does:

| Run | Property | What TLC finds |
|---|---|---|
| `instance_init_skip` | `EntitlementsSkippedAfterFailure` | the log announces that the entitlements are skipped, and the next call provisions the tenant |
| `instance_init_sidecar` | `SidecarIsAskedToQuit` | an exception of the config map API leaves the `finally` clause before the sidecar is asked to quit |
| `data_init_third_attempt` | `AcceptedAgentSucceeds` | a call accepted at the third attempt marks the job as failed |
| `log_shipper_blank` | `WholeDocumentIsRead` | an empty line is taken for the end of the document |
| `cert_rotation_recheck` | `CannotUpdateIsTrue` | the second comparison uses the gateway's certificate of before the update |
| `probe_validate` | `ValidationUsesOwnAnswer` | a check passes on what an earlier list of the file returned |

Every property of the passing runs is violated by at least one plausible bug;
the mutated operators stand before the definitions they replace, with a comment
that starts with "mutant:".

### Bounds

* `InstanceInit`: two partitions with two group calls each (one administrator).
  Two partitions are what an abort needs to cancel another task; two group calls
  are what `FIRST_COMPLETED` needs to hand over one, both, or a failed one next to
  a raised one. The three attempts are the code's own. `InstanceInitJob` has one
  group: its steps begin when the tasks have ended, but the run checks both together.
* `DataAgents`: two partitions (`PartitionCount`, `SeedPartitions`), for the resets from one to the
  next and for counters that agree by mistake; three attempts of the initialization
  agents are the code's; two logins and two rounds of the one seeding agent (`MaxRetry`) and two
  logins of the other (`MaxRetryCount`), for a failure followed by a success and by a second failure. The agents meet in the
  map only, and there they behave alike: the pods that run together (`PodSets`) are
  the two initialization agents; the helper and the seeding agent run alone. The theorems
  hold for every set of pods. The run of the violation needs one pod.
* `LogShipper`: every document of up to four lines of the four kinds (`MaxLines`):
  a record of two lines, a following one, and an end inside or behind them.
  Three deliveries (`MaxDequeue`), for a redelivery of a redelivery; the host's
  default is five.
* `CertRotation`: three certificates (`MaxCerts`), one of them issued during the
  run, at any point; two failing commands (`MaxFailures`), at any commands of either
  pod: two are a failed read of the certificate and one of the key. The comparison uses at
  most three certificates at once. An empty file has the date of today in the code and day
  0 in the model: no certificate expires today.
* `ProbeRunner`: one fault in a run (`MaxFaults`), at any test of any of the
  seventeen files; two sets of flags, the one of `config.js` and all on; three kinds
  of leftovers (`SomeLeftovers`: none, all fixed names, all but those a test does not accept). Two faults in one run are beyond five minutes; files share only the
  platform, and the leftovers stand for what earlier faults leave there.
* `MCPrograms`: each initial state names one program, the others stand still. Two
  partitions of the legal tag job, with the code's three retries (`Retries`); two runs of the
  upgrade (`MaxKedaRuns`) with the code's five attempts; two identities, one of each
  kind, two numbers (`PrepareNumbers`), three runs (`MaxPrepareRuns`) of the preparation
  and four disturbances (`MaxDisturbances`: a failed command, a stop, another number), after
  which stops are still possible: a run that is cut off, one that repairs by mistake and
  loses again, and one after it. The two numbers are interchangeable, and `MCInit` starts
  with one of them; six keys of statsd, one for each way a key is parsed; documents with
  one or two attributes and lists of up to two elements (`SomeDocuments`; `SomeValues` are they and
  their parts, and `SomeDepth` their depths, up to three).

### Fairness

* `InstanceInit`, `InstanceInitJob`: weak fairness of the whole next-state relation.
  The event loop is one thread, which runs a ready task as long as there is one,
  and the attempts are counted; no fairness between tasks is needed. That a
  request is answered at all is an assumption: the code passes `timeout=None`.
* `DataAgents`: weak fairness of each agent, which runs in a pod of its own. curl and
  kubectl are assumed to return.
* `LogShipper`: weak fairness of the next-state relation: the host polls the queue, and
  the dequeue count bounds the redeliveries.
* `CertRotation`: weak fairness of each pod (the hourly schedule and the retries
  of Kubernetes) and of the application gateway's polling; none of new
  certificates and failures, which must stop for the stores to converge.
* `ProbeRunner`: weak fairness of mocha, whose timeout of 550 seconds ends every test.
  Late answers and slow workflows get none: they may never come.
* `MCPrograms`: weak fairness of the steps of the program that runs. Its loops are counted,
  and requests and commands are assumed to return.

### Assumptions about the surroundings

* A service refuses a request without a token; curl, kubectl and az return.
* A secret is stored in the vault of this number or not at all. `az ad sp create-for-rbac`
  on an identity that exists renews its password; `az group create` and `az storage account
  create` on what exists change nothing. `az ... --display-name`, which matches by prefix,
  finds just the identity that is asked for.
* helm refuses to install under a name that is in use; flux puts back only objects whose
  type the cluster knows; a CRD takes its objects with it.

## 5. What is proved

`InstanceInitProofs` proves, for every set of partitions,
groups and administrators, under `ConstantsAssumption` (the three sets are not empty, and the
two named calls are no groups: `str.split` never returns an empty list, and
`config.json` names the group calls):

* `TypeCorrect`: `Spec => []TypeOK`; in particular no call exceeds three attempts.
* `StatusAccounted` and `SuccessComplete`. `SuccessIsComplete` is not inductive: it
  speaks of the report only. `StatusIsAccounted` is. It says what each
  `status[p] = TRUE` stands for at each stage of the task (the calls collected so
  far were accepted, the others are still in `adminTasks`), and that the outer loop lets
  go of a task only when it is done. At the report, with `ops` true, every task is
  done, its `adminTasks` is empty, and the conclusion follows. The step that needs care is
  `CollectGroups`, where the set of finished calls is removed and and-ed into the
  status at once; an attempt of a call keeps the invariant because an answer that has come is
  never changed (`AttemptKeepsAnswers`).
* `StagesFollowed`, `NothingInFlight` and `TenantBeforeGroups`. The invariant
  `CallsFollowStages` says which calls can be in flight, and which can have been made, at
  each stage; it contains the two properties as conjuncts. A raised task leaves group
  calls running, so "pending only while awaited" is not an invariant, and the
  conjunct for group calls allows the stage "raised"; `AbortRun` then ends
  them. That `CollectPartitions` reaches the report only when all tasks are done is
  taken from `StatusIsAccounted`. Three actions launch calls; they share the lemma
  `LaunchKeepsStages`.
* `NoVainWait`: while `main` runs, `tasks` is not empty, and a task that waits has calls it has
  made to wait for: `aio.wait` is never handed an empty set, nor a call nobody posts.
* `RunMovesOn`: every step raises the stage of `main`, of a task or of a call, counts an attempt,
  or shortens a list that is waited for, and no stage, answer or count goes back
  (`NothingGoesBack`, `SomethingMoves`).
* `AnswersFinal`: no answer changes. A task launches only calls that `CallsFollowStages`
  shows idle at its stage, and attempts and cancellations touch only pending calls.
* `FailuresHaveCauses`: `FailureHasCause` is inductive with the previous result: a
  status turns false in a step that sees a failed call, and the call stays failed.
* `JobReportsHonestly`: the job implements `InitReport`. A step of the run accepts at
  most one call more (`StepAcceptsOne`) and happens before the report only
  (`ReportEndsRun`, from `CallsFollowStages`): it maps to `Acknowledge` or to a stutter. The
  patch of the config map maps to `ReportSuccess` or `ReportFailure`; that the
  former's guard holds is `StatusIsAccounted`. Everything else stutters. The job's own part
  of the invariant, `JobFollowsRun`, says that the finally clause comes after the run and
  that the map holds this run's report only after the write.

`DataAgentsProofs` and `SeedingProofs` prove about the shell agents, for
every number of partitions, every limit of retries and every set of pods:

* `AgentsTypeCorrect`: `Spec => []TypeOK`.
* `MessagesLostToRaceOrFailedGet` (`LostToRaceOrFailedGet`), from `MapInv`: the map, the
  snapshots and `before` hold only agents that have replaced the map (`MapHoldsReplaced`),
  and whoever read after a replace, and successfully, without finding its message found
  a message that was lost already and whose loss has a cause (`MissedIsLost`). Hence a loss
  that is handed on from snapshot to snapshot goes back to an overlap or to a failed read.
* `ExitsAreHonest` and `TenantsComeFirst`, from `LoopInv`: types; `CountersAreHonest` (a
  counter is at most the number of partitions passed, and equal only when each of
  their calls was accepted); `ExitsHonestly`; `AttemptLeft` (a loop is entered with an attempt
  left); `TenantFirst`.
* `SeedingCompletes` and `SeedingRetries`, from `SeedInv`, whose part `RoundIsComplete` says what
  a round without an error has uploaded for the partitions before the current one.
* `TransferCompletes`, from `TransferInv`: `CopiedSoFar` says the same of the catalogs.
* `AgentsMoveOn`: every step brings one agent further and moves no other. Further is
  lexicographic: the stretch of the script, then its loops from the outermost inwards, then
  the spot in one.
* `ExitsAreReports` (`ExitIsAReport`): both initialization agents and the helper implement
  `InitReport`, an instance each. Accepting a call that was not accepted before, or filling
  a share, maps to `Acknowledge`, the exit to `ReportSuccess` or `ReportFailure`, and the
  rest to a stutter, as do the steps of the other agents. The guard of `ReportSuccess`
  is `ExitIsHonest` or `TransferIsComplete` after the step, which are proved before.

`LogShipperProofs` proves, for documents and numbers of deliveries of any size:

* `RecordsConsecutive`: `LinesOK` says that the record under construction is `Lines(a, n)`
  for the last line n read and some a before it, and so is each record that was sent.
* `RegularComplete`: `CompleteInv` adds that what is sent is a record of the document, and that
  all records before the one under construction are sent, by this delivery or an
  earlier one. `LastLine` shows that the next start, or the end, completes the
  record in the sense of `RecordsOf`, which is defined with CHOOSE and not by the loop.
* `CopiesByRedelivery`: `CountInv` counts the set-backs; one more is left to be counted as long
  as this delivery has sent nothing. That holds of the delivery after one that has posted
  every record and died before the message was deleted, too.

* `LogTypeCorrect` (`TypeOK`), and `MessageWearsOut`: every step takes from the deliveries that are
  left, or leaves them and takes from the lines.

`CertProofs` proves about the certificate jobs, for any number of certificates and of failing
commands:

* `CertTypeCorrect` (`TypeOK`), from `CertInv`. Its part `DaysBounded` (a certificate's day is
  at most its number) is needed for it: a renewal appends the last day or the one after it,
  and only the count of certificates bounds this.
* `GatewayGetsPairs` (`GatewayServesAPair`): in the mode with the vault as the source, the
  secret of the ingress gateway is never torn. One command fetches both files there
  (`FilesAreOfOneFetch`); in the other mode two do, and the secret may be torn.
* `OneJobNeverGoesBack` (`OnlyOverlapSetsBack`), from `OrderInv`: no place has a certificate
  newer than the source's (`StoresInOrder`), and what a pod has fetched is no older than what
  it is going to store it over, unless the other job has stored something since or the file is
  empty (`FileInOrder`). A pod that fetches takes the newest there is, a renewal changes
  the source only, and a pod that is tried again fetches again.

`ProbeProofs` proves about a run of the probe, for any number of faults:

* `ExitCodeAgreesWithEvents` (`GreenIsReported`), from `Counted`: mocha has seen a failure iff a
  file was silent or the current one has failed tests that no event has told yet.
* `ProbeTypeCorrect`, from `Placed`: where the run is, and that what is late is of files it
  has been at.
* `SuccessIsCleanButForLateThings` (`OnlyLateThingsStay`) and `RecordsGoBeforeTags`
  (`CleanupOrder`), from `ProbeInv`. Its part `Cleaning` says of all that is stored and did not
  come late, whoever has stored it, and of what the file's own calls have created: what the
  file cleans up of it is still to be deleted by a later test, or has failed to be. The
  exception is real: a workflow that ends after the deletion, or a late answer of any file,
  leaves its record behind a green file. The rest holds only because of
  the order of the tests: no test creates what an earlier one has deleted, and none
  deletes a record after its legal tag. The first half of the module proves
  this order (`Orderly`) of every one of the seventeen files and for every set of flags, not
  only the two that are run: sequences are composed by `OrderlyConcat` and `OrderlyWhen`.
* `HealthyIsGreen` (`HealthyRunIsGreen`), for any leftovers of fixed names but the unforgiven ones: a healthy run is
  followed through each file by a context, which says what is on the platform, which
  variables are set, and what they are from. `Leads(t, c, d)` says that a test passes in the context c and
  leaves d; `Passes` composes this along a sequence. The names a file needs to be free, which
  no leftover has, are free again after it (`Green`), so that the next file
  finds the platform as the first one did. `FilesAreGreen` has a way through each file.
* `MochaMovesOn`: every step takes mocha to a later phase, test or file, or is the arrival of
  one late thing.

`ProgramsProofs` proves, for any partitions, retries, runs, keys and documents:

* `LegalTypeCorrect` and `KedaTypeCorrect`: types, with them the limits of requests and attempts.
* `SelectedAreSentOnce` (`SelectedMetricsAreSentOnce`) of the statsd backend, under `StatsdAssumption`
  (the keys of an object are distinct, and a key is its three parts). `SentSoFar` says that the calls so far are those of the
  selected keys that the loops have passed (`Handled`), one for each.
* `SilenceIsUpdated` of the legal tag job. `Chain` says which requests have been made at each
  point of the promise chain.
* `LeftoversGivenUp` of the upgrade. `LoopsInOrder`: objects have the CRD of their type, and what
  is left of a loop that is passed was given up or is an object flux has put back.
  At terraform such an object's CRD is left of a passed loop as well, and a CRD is
  never put back: it was given up.
* `LegalMovesOn` and `KedaMovesOn`: every step brings the job, the upgrade further. `Uncalled` says
  that what a promise starts was not called before. In the upgrade the script deletes
  what an unstopped flux puts back; they do not go on for ever, since between two
  attempts flux can only add.
* `MatchedIsStated` and `MatchingIsPreorder` of the test harness, for documents of any depth, under
  `ValidateAssumption` (a value's parts are values and less deep). That a recursive definition
  has a solution, `RecursionHasSolution`, and that a claim holds of all values cannot use an induction
  theorem, which takes an operator; instead `LeastRank` gives a counterexample of least
  depth as an element of a set, and its parts, which are less deep, are none.
* `ProgramsTypeCorrect` (`ProgramsTypeOK`), from the invariants of the programs side by side.

`PrepareProofs` proves about the preparation script, for any identities, numbers and runs,
under `PrepareAssumption` (there is an identity, and no identity is called like another
thing that is stored or lost):

* `PrepareTypeCorrect`: types; the script stays within the list of identities and the
  secrets of each.
* `SecretsAreTheirOwn`: while secrets are stored, each shared variable is the current
  identity's or empty, and the index stays within the list (`IndexOK`, `ValuesOK`).
* `PasswordsStayValid` (`PasswordsAreValid`), from `PasswordInv`: only create-for-rbac makes a
  stored password stale, and it meets an identity with a stored password only where the query
  has missed it, since no vault has one of an identity that does not exist
  (`PasswordsHaveIdentities`).
* `LostForGood` (`RepairsAreMistakes`): one lemma for each thing that can be lost. The
  passphrase is never repaired; a lock and an identity are, where a query misses the group
  or the identity.
* `UndisturbedIsComplete`, from `ProgressInv`: without a disturbance every place of the
  script that is passed has left its secret, and every identity that exists has its
  secrets or is the current one, whose values the shell has. The second holds
  across runs, the first is made anew by each. Nothing in the vault gets stale, since no
  query misses what exists (`NewIdentityKeepsStored`).
* `PrepareMovesOn`: the run, the place, the identity and the secret are the digits of a number that
  grows with every step, a failure or a stop included.

Only model-checked:

* the liveness properties (`JobEnds`, `AgentsExit`, `MessageIsSettled`, `PlacesConverge`, `RunEnds`,
  `EveryProgramEnds`), since the prover has no rule for fairness and ENABLED. The part of them
  that is safety is proved: no step goes back and each goes on, by measures that are
  bounded by the theorems of types (`RunMovesOn`, `AgentsMoveOn`, `MessageWearsOut`,
  `MochaMovesOn`, `LegalMovesOn`, `KedaMovesOn`, `PrepareMovesOn`). What the runs add
  is that there is a step to take until the end. The stores of certificates are
  compared every hour for ever and have no such measure;
* the properties of the six violation runs, which do not hold.

## 6. What is not modelled

The components of step 7 of the plan, and what is declarative: terraform templates, charts
without scripts, pipelines' definitions, REST collections. Inside the modelled
components:

* Texts of messages, their redaction and length limits, and log lines. No reachable
  path of the instance agent redacts an earlier message.
* The contents of requests and the services' own logic: a service accepts or
  refuses a call, and it refuses one without a token.
* Time. A timeout is a step that may happen; expiry days are compared, not awaited. The index
  of the search service is up to date; a pod that flux is scaled down from does nothing more.
* The process around mocha: `RunEnds` is about mocha's runner, and without `--exit` the process
  may wait for a request that is still open.
* The per-API events of the probe next to those of the
  scenarios; the query objects and the schema test object that several tests share.
* Prompts, logins and unused functions of the two infrastructure scripts; permissions and
  access policies of the preparation; the drivers of the test harness around the match.

Divergences seen while modelling that no run states:

* `tools/instance_initialization_agent/utils.py:55`: on 429 the log announces a wait, and
  `print.sleep` raises AttributeError.
* `tools/instance_initialization_agent/configmap_utils.py:52`: the handler of an API
  exception raises NameError, so a missing map is never created.
* `source/airflow-function/queueTrigger.cs:69`: a timestamp within a line starts a
  new record.
* `charts/osdu-istio/templates/cert-checker-cronjob.yaml:190`: certificate and key of
  cert-manager are read one after the other; a renewal in between leaves a torn pair in
  the gateway's secret, which `openssl` refuses afterwards, before the vault. A read of
  these that fails, lines 190 and 191, does not end the script: an empty file is applied.
  Whether the key fits is never checked again.
* `source/airflow-statsd/README.md:59` promises that properties behind `__` are attached to the
  metric; `lib/appinsights.js` parses them and sends none (lines 47 to 51), so that metrics which
  differ in them only arrive under one name. Line 44 of the README calls `aiPrefix` optional;
  without it the backend names every metric `undefined` and its key (line 49 of the code).
  `SelectedMetricsAreSentOnce` therefore claims different names of metrics without properties only.
* `source/probe-test-client/scenarios/crud_policy.js:98` and 121 use apis that no service
  of the table has, `scenario_csv-ingest.js:439` and 491 an undeclared variable: with the flags
  that enable them the two scenarios always fail.
* `infra/scripts/keda_upgrade_and_host_encryption.sh`: terraform's apply comes only after a
  `state rm` of what the state lists, and under `set -e` a state that no longer lists it ends
  the script before; an upgrade that was stopped between the two is not finished by running
  it again.
* The same file, line 94: cert-manager's own certificate is not compared, so its renewal
  alone is never noticed while the three compared places agree.
* `source/probe-test-client/scenarios/crud_schema.js:143`: the test named "Delete" sends a
  read.
* `source/probe-test-client/scenarios/crud_policy.js:186`: the read after the deletion
  expects success.
* `source/probe-test-client/scenarios/crud_entitlements.js:581`: the same group is deleted
  twice under two names.
* `source/probe-test-client/scenarios/crud_search.js:305`: tests change query objects they share.
* The role assignments and `createWorkflow` of the probe do not accept what an earlier run
  left behind; `HealthyRunIsGreen` excludes these leftovers by name (`Unforgiven`).
