------------------------------ MODULE SeedData ------------------------------
(***************************************************************************)
(* The static file agent, tools/data_seeding_agent/seed_data.sh: it logs   *)
(* in, and for every partition uploads Legal_COO.json to the storage       *)
(* account and, through upload-data.py, two items to the TenantInfo        *)
(* container.  A round over the partitions that fails anywhere is followed *)
(* by another; the last round's status is the one reported.                *)
(***************************************************************************)
EXTENDS Naturals, ConfigMapReport

CONSTANTS
  SeedPartitions,  \* how many partitions PARTITIONS lists
  MaxRetry         \* maxRetry: attempts to log in, and rounds

ASSUME SeedAssumption == SeedPartitions \in Nat \ {0} /\ MaxRetry \in Nat \ {0}

SeedIndex == 1 .. SeedPartitions
TenantInfo == {"tenant_info_1", "tenant_info_2"}

VARIABLES
  loginAttemptCount,
  loggedIn,     \* az has a login; without it every call of az fails
  retryCount,
  index,        \* the partition of the round
  blob,         \* the container holds Legal_COO.json
  others,       \* the containers hold other blobs, too
  tenantInfo,   \* the items upserted
  upload        \* what upload-data.py of this round came to: "none", "ended", "raised"

seedVars == <<loginAttemptCount, loggedIn, retryCount, index, blob, others, tenantInfo, upload>>

s == "static"

SeedInit ==
  /\ loginAttemptCount = 0 /\ loggedIn = FALSE
  /\ retryCount = 1 /\ index = 1
  /\ blob = [p \in SeedIndex |-> FALSE]
  /\ others \in IF pc[s] = "absent" THEN {FALSE} ELSE BOOLEAN
  /\ tenantInfo = [p \in SeedIndex |-> {}]
  /\ upload = [p \in SeedIndex |-> "none"]

RoundFrame == UNCHANGED <<loginAttemptCount, loggedIn, retryCount>>
DataFrame  == UNCHANGED <<blob, others, tenantInfo, upload>>

-----------------------------------------------------------------------------
(* az login; failing all the attempts is not recorded *)

\* no token, or one of the two messages on the standard output of az login
LoginFails ==
  /\ pc[s] = "login"
  /\ loginAttemptCount' = loginAttemptCount + 1
  /\ Goto(s, IF loginAttemptCount + 1 < MaxRetry THEN "login" ELSE "storage")
  /\ UNCHANGED <<failed, loggedIn, retryCount, index>> /\ DataFrame /\ MapFrame

\* any other outcome ends the loop, a failure that az login reports elsewhere too
LoginReturns ==
  /\ pc[s] = "login"
  /\ loginAttemptCount' = loginAttemptCount + 1
  /\ loggedIn' \in BOOLEAN
  /\ Goto(s, "storage")
  /\ UNCHANGED <<failed, retryCount, index>> /\ DataFrame /\ MapFrame

-----------------------------------------------------------------------------
(* Legal_COO.json *)

Fail == failed' = [failed EXCEPT ![s] = TRUE]

\* name and connection string of the storage account, from the vault and from az
FindStorage ==
  /\ pc[s] = "storage"
  /\ \/ loggedIn /\ Goto(s, "upload") /\ UNCHANGED failed
     \/ Goto(s, "cosmos") /\ Fail
  /\ UNCHANGED index /\ RoundFrame /\ DataFrame /\ MapFrame

\* the exit code is not read: the list that follows is to show what came of it
UploadBlob ==
  /\ pc[s] \in {"upload", "upload again"}
  /\ blob' \in {blob, [blob EXCEPT ![index] = TRUE]}
  /\ Goto(s, IF pc[s] = "upload" THEN "list" ELSE "list again")
  /\ UNCHANGED <<failed, index, others, tenantInfo, upload>> /\ RoundFrame /\ MapFrame

\* BLOB_LIST has a name per line and is matched against the name between blanks:
\* the file is seen only where it is the one blob
Seen(listed) == listed /\ blob[index] /\ ~others

\* not seen the first time: a minute's sleep and another upload
ListBlobs ==
  /\ pc[s] \in {"list", "list again"}
  /\ \E listed \in BOOLEAN :
       \/ Seen(listed) /\ Goto(s, "cosmos") /\ UNCHANGED failed
       \/ ~Seen(listed) /\ pc[s] = "list" /\ Goto(s, "upload again") /\ UNCHANGED failed
       \/ ~Seen(listed) /\ pc[s] = "list again" /\ Goto(s, "cosmos") /\ Fail
  /\ UNCHANGED index /\ RoundFrame /\ DataFrame /\ MapFrame

-----------------------------------------------------------------------------
(* the tenant information, and the rounds *)

\* the next partition of the round
Advance ==
  /\ index' = IF index < SeedPartitions THEN index + 1 ELSE index
  /\ Goto(s, IF index < SeedPartitions THEN "storage" ELSE "round")

\* mutant: the missing key is only a message
CosmosMissingUnnoticed ==
  /\ pc[s] = "cosmos"
  /\ \/ loggedIn /\ Goto(s, "tenants") /\ UNCHANGED index
     \/ Advance
  /\ UNCHANGED failed /\ RoundFrame /\ DataFrame /\ MapFrame

\* without an endpoint there is no name to ask the key for
FindCosmos ==
  /\ pc[s] = "cosmos"
  /\ \/ loggedIn /\ Goto(s, "tenants") /\ UNCHANGED <<failed, index>>
     \/ Advance /\ Fail
  /\ RoundFrame /\ DataFrame /\ MapFrame

\* two upserts; the exit code of upload-data.py is not read
UploadTenantInfo ==
  /\ pc[s] = "tenants"
  /\ Advance
  /\ \E items \in {{}, {"tenant_info_1"}, TenantInfo} :
       /\ tenantInfo' = [tenantInfo EXCEPT ![index] = @ \cup items]
       /\ upload' = [upload EXCEPT ![index] = IF items = TenantInfo THEN "ended" ELSE "raised"]
  /\ UNCHANGED <<failed, blob, others>> /\ RoundFrame /\ MapFrame

EndRound ==
  /\ pc[s] = "round"
  /\ LET again == failed[s] /\ retryCount < MaxRetry IN
     /\ failed' = [failed EXCEPT ![s] = @ /\ ~again]
     /\ retryCount' = IF again THEN retryCount + 1 ELSE retryCount
     /\ index' = IF again THEN 1 ELSE index
     /\ upload' = IF again THEN [p \in SeedIndex |-> "none"] ELSE upload
     /\ Goto(s, IF again THEN "storage" ELSE "read")
  /\ UNCHANGED <<loginAttemptCount, loggedIn, blob, others, tenantInfo>> /\ MapFrame

SeedStep ==
  \/ LoginFails \/ LoginReturns
  \/ FindStorage \/ UploadBlob \/ ListBlobs
  \/ FindCosmos \/ UploadTenantInfo \/ EndRound

-----------------------------------------------------------------------------
(* properties *)

\* Every variable has its type, and no loop exceeds maxRetry.
SeedTypeOK ==
  /\ pc[s] \in {"absent", "login", "storage", "upload", "list", "upload again", "list again",
                "cosmos", "tenants", "round", "read", "replace", "exit", "done"}
  /\ loginAttemptCount \in 0 .. MaxRetry
  /\ loggedIn \in BOOLEAN
  /\ retryCount \in 1 .. MaxRetry
  /\ index \in SeedIndex
  /\ blob \in [SeedIndex -> BOOLEAN]
  /\ others \in BOOLEAN
  /\ tenantInfo \in [SeedIndex -> SUBSET TenantInfo]
  /\ upload \in [SeedIndex -> {"none", "ended", "raised"}]

\* When the static file agent exits with 0, every partition has Legal_COO.json, and
\* its tenant information is complete unless upload-data.py itself has failed: the one
\* step whose failure the script does not see.  No failure of an earlier round, of the
\* login or of another partition is lost or left over.
SeedingIsComplete ==
  Succeeded(s) => \A p \in SeedIndex :
    /\ blob[p]
    /\ upload[p] = "raised" \/ (upload[p] = "ended" /\ tenantInfo[p] = TenantInfo)

\* A failure is reported only after maxRetry rounds.
SeedingGivesUpLast == pc[s] = "done" /\ failed[s] => retryCount = MaxRetry
=============================================================================
