-------------------------- MODULE InstanceInitJob --------------------------
(***************************************************************************)
(* The whole job of the instance initialization agent: the run of           *)
(* InstanceInit, then main's finally clause, which writes the config map    *)
(* (configmap_utils.py) and asks the istio sidecar to quit (utils.py).     *)
(***************************************************************************)
EXTENDS InstanceInit

VARIABLES
  job,            \* "working", "read", "written", "exited"
  configMap,      \* [status, run]: its content and the run that wrote it
  attemptCount,   \* requests made to the config map by the current step
  crashed,        \* the finally clause was left by an exception
  sidecar         \* "running" or "terminated"

jobVars  == <<job, configMap, attemptCount, crashed, sidecar>>
allVars  == <<vars, jobVars>>

MaxWrites == 3

\* what the last run has left in the map, or that there is none, shows when it is read
JobInit ==
  /\ Init
  /\ job = "working"
  /\ configMap = [status |-> "unread", run |-> "previous"]
  /\ attemptCount = 0
  /\ crashed = FALSE
  /\ sidecar = "running"

Run ==
  /\ Work
  /\ UNCHANGED jobVars

\* readFromConfigMap returns the existing map
ReadFromConfigMap ==
  /\ main = "report" /\ job = "working"
  /\ job' = "read"
  /\ UNCHANGED <<vars, configMap, attemptCount, crashed, sidecar>>

\* any ApiException, the 404 of a missing map too: the handler calls
\* isRetryableFailureStatusCode, which the module does not import
ReadRaises ==
  /\ main = "report" /\ job = "working"
  /\ job' = "exited"
  /\ attemptCount' = 1
  /\ crashed' = TRUE
  /\ UNCHANGED <<vars, configMap, sidecar>>

\* mutant: the partitions' statuses are left out of the final one
PatchOpsStatus ==
  /\ job = "read"
  /\ attemptCount' = attemptCount + 1
  /\ configMap' = [status |-> IF ops THEN "success" ELSE "failure",
                   run    |-> "current"]
  /\ job' = "written"
  /\ UNCHANGED <<vars, crashed, sidecar>>

\* mutant: the job ends with the write
PatchAndExit ==
  /\ job = "read"
  /\ attemptCount' = attemptCount + 1
  /\ configMap' = [status |-> IF FinalStatus THEN "success" ELSE "failure",
                   run    |-> "current"]
  /\ job' = "exited"
  /\ UNCHANGED <<vars, crashed, sidecar>>

\* the loop of writeOutputToConfigMap; the map was read, so the write is a patch
\* and the "Create" branch is never taken
PatchConfigMap ==
  /\ job = "read"
  /\ attemptCount' = attemptCount + 1
  /\ configMap' = [status |-> IF FinalStatus THEN "success" ELSE "failure",
                   run    |-> "current"]
  /\ job' = "written"
  /\ UNCHANGED <<vars, crashed, sidecar>>

\* an ApiException: checkIfConfigMapLengthException reads e, which is not its
\* parameter, so the handler raises and the loop never comes round again
PatchRaises ==
  /\ job = "read"
  /\ attemptCount' = attemptCount + 1
  /\ job' = "exited"
  /\ crashed' = TRUE
  /\ UNCHANGED <<vars, configMap, sidecar>>

\* the request may fail; its exception leaves the finally clause, too
TerminateIstioSidecar ==
  /\ job = "written"
  /\ job' = "exited"
  /\ \/ sidecar' = "terminated" /\ UNCHANGED crashed
     \/ crashed' = TRUE /\ UNCHANGED sidecar
  /\ UNCHANGED <<vars, configMap, attemptCount>>

JobTerminated == job = "exited" /\ UNCHANGED allVars

JobNext ==
  \/ Run
  \/ ReadFromConfigMap
  \/ ReadRaises
  \/ PatchConfigMap
  \/ PatchRaises
  \/ TerminateIstioSidecar
  \/ JobTerminated

\* as in InstanceInit: one thread, and every request is answered in the end
JobSpec == JobInit /\ [][JobNext]_allVars /\ WF_allVars(JobNext)

-----------------------------------------------------------------------------
(* properties *)

\* The acknowledged calls and the report a reader of the config map sees.
Report == INSTANCE InitReport WITH
  Required     <- Partitions \X Calls,
  acknowledged <- {w \in Partitions \X Calls : call[w[1]][w[2]] = "succeeded"},
  report       <- IF configMap.run = "current" THEN configMap.status ELSE "none"

\* The job keeps the report's promise: whatever order the tasks finish, raise and
\* are cancelled in, "success" in the config map means that every call was accepted.
ReportIsHonest == Report!ReportSpec

\* Every job ends, and it ends with a report of this run and a sidecar that was asked to
\* quit, or with a crash.
JobEnds ==
  <>(job = "exited" /\ (crashed \/ (configMap.run = "current" /\ sidecar = "terminated")))

\* utils.py: "Terminate the istio side-car once processing has completed, so the
\* job can reach a completed state": a job that ends has at least asked.
SidecarIsAskedToQuit ==
  [][job # "exited" /\ job' = "exited" => job = "written"]_allVars
=============================================================================
