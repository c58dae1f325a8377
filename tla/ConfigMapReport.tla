-------------------------- MODULE ConfigMapReport --------------------------
(***************************************************************************)
(* The end of the four shell agents of tools/: data_initialization_agent   *)
(* (partition, entitlements), data_seeding_agent (static) and              *)
(* helper_services_data_seeding_agent (helper).  Each reads the status and *)
(* message of one config map, replaces the map by its own status and the   *)
(* message with its own appended, and exits through a trap that asks the   *)
(* istio sidecar of its pod to quit.                                       *)
(***************************************************************************)

Agents == {"partition", "entitlements", "static", "helper"}

\* where a script can be: the shared end, then the work of each agent
Labels ==
  {"absent", "read", "replace", "exit", "done"}
    \cup {"token", "call", "endloop", "compare"}
    \cup {"login", "storage", "upload", "list", "upload again", "list again", "cosmos", "tenants", "round"}
    \cup {"clone", "az login", "conversion", "catalog", "unit"}

VARIABLES
  pc,           \* where the script is; "absent" if its pod is not installed
  failed,       \* currentStatus = "failure"
  snapshot,     \* Message, as read from the config map: whose messages it holds
  replaced,     \* kubectl replace succeeded
  configMap,    \* [status, messages]
  sidecar,      \* the pod's istio sidecar still runs
  before,       \* history: the agents that had replaced the map when this one read it
  getFailed     \* history: the kubectl get failed

mapVars    == <<snapshot, replaced, configMap, sidecar, before, getFailed>>
reportVars == <<pc, failed, mapVars>>

Start(a) ==
  CASE a \in {"partition", "entitlements"} -> "token"
    [] a = "static" -> "login"
    [] a = "helper" -> "clone"

ReportInit(pods) ==
  /\ pc = [a \in Agents |-> IF a \in pods THEN Start(a) ELSE "absent"]
  /\ failed = [a \in Agents |-> FALSE]
  /\ snapshot = [a \in Agents |-> {}]
  /\ replaced = [a \in Agents |-> FALSE]
  /\ configMap = [status |-> "none", messages |-> {}]
  /\ sidecar = [a \in Agents |-> a \in pods]
  /\ before = [a \in Agents |-> {}]
  /\ getFailed = [a \in Agents |-> FALSE]

MapFrame == UNCHANGED mapVars

Goto(a, label) == pc' = [pc EXCEPT ![a] = label]

\* kubectl get; when it fails, Message is empty
ReadConfigMap(a) ==
  /\ pc[a] = "read"
  /\ \/ snapshot' = [snapshot EXCEPT ![a] = configMap.messages] /\ UNCHANGED getFailed
     \/ getFailed' = [getFailed EXCEPT ![a] = TRUE] /\ UNCHANGED snapshot
  /\ before' = [before EXCEPT ![a] = {b \in Agents : replaced[b]}]
  /\ Goto(a, "replace")
  /\ UNCHANGED <<failed, replaced, configMap, sidecar>>

Result(a) == IF failed[a] THEN "failure" ELSE "success"

\* mutant: the message is not appended to the one in the map
ReplaceMessage(a) ==
  /\ pc[a] = "replace"
  /\ configMap' = [status |-> Result(a), messages |-> {a}]
  /\ replaced' = [replaced EXCEPT ![a] = TRUE]
  /\ Goto(a, "exit")
  /\ UNCHANGED <<failed, snapshot, sidecar, before, getFailed>>

\* kubectl replace, unconditional; the scripts do not look at its exit code
ReplaceConfigMap(a) ==
  /\ pc[a] = "replace"
  /\ \/ /\ configMap' = [status |-> Result(a), messages |-> snapshot[a] \cup {a}]
        /\ replaced' = [replaced EXCEPT ![a] = TRUE]
     \/ UNCHANGED <<configMap, replaced>>
  /\ Goto(a, "exit")
  /\ UNCHANGED <<failed, snapshot, sidecar, before, getFailed>>

\* the EXIT trap; its exit keeps the status of the script
Cleanup(a) ==
  /\ pc[a] = "exit"
  /\ Goto(a, "done")
  /\ sidecar' \in {sidecar, [sidecar EXCEPT ![a] = FALSE]}
  /\ UNCHANGED <<failed, snapshot, replaced, configMap, before, getFailed>>

ReportStep(a) == ReadConfigMap(a) \/ ReplaceConfigMap(a) \/ Cleanup(a)

-----------------------------------------------------------------------------

Ended(a) == pc[a] \in {"absent", "done"}
Succeeded(a) == pc[a] = "done" /\ ~failed[a]

ExitReport(a) == IF pc[a] # "done" THEN "none" ELSE Result(a)

\* Types of what the agents share; a pod without its agent writes nothing.
ReportTypeOK ==
  /\ pc \in [Agents -> Labels]
  /\ failed \in [Agents -> BOOLEAN]
  /\ snapshot \in [Agents -> SUBSET Agents]
  /\ replaced \in [Agents -> BOOLEAN]
  /\ configMap \in [status : {"none", "success", "failure"}, messages : SUBSET Agents]
  /\ sidecar \in [Agents -> BOOLEAN]
  /\ before \in [Agents -> SUBSET Agents]
  /\ getFailed \in [Agents -> BOOLEAN]

\* Two agents overlap when each read the map before the other had replaced it.
Overlapped(a, b) == a \notin before[b] /\ b \notin before[a]

\* A message disappears from the shared config map for one of two causes only: the
\* read and the replace of its agent overlapped with those of another that has replaced
\* the map, or the kubectl get of an agent that has replaced it failed.  Agents whose
\* updates follow each other and whose reads succeed keep each other's messages.
LostToRaceOrFailedGet ==
  \A a \in Agents : replaced[a] /\ a \notin configMap.messages =>
    \E b \in Agents \ {a} :
      /\ replaced[b] /\ a \notin snapshot[b]
      /\ Overlapped(a, b) \/ getFailed[b]
=============================================================================
