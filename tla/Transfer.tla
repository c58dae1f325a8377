------------------------------ MODULE Transfer ------------------------------
(***************************************************************************)
(* The helper agent, tools/helper_services_data_seeding_agent/transfer.sh: *)
(* it clones three repositories, logs in and copies a part of each to a    *)
(* file share.  The commands are run without set -e: a failing clone or cd *)
(* shows only in what the later ones find.                                 *)
(***************************************************************************)
EXTENDS Naturals, ConfigMapReport

CONSTANT MaxRetryCount   \* max_retry_count: attempts to log in

ASSUME TransferAssumption == MaxRetryCount \in Nat \ {0}

Repositories == {"crs-conversion-service", "crs-catalog-service", "unit-service"}
Shares == {"crs-conversion", "crs", "unit"}

VARIABLES
  cloned,       \* the repositories that were cloned
  current_retry_count,
  loginStatus,  \* az has a login; without it every call of az fails
  moved,        \* apachesis_setup is in the directory that is uploaded
  cwd,          \* "app", where the clones are, or "parent"
  share         \* what the agent has put on each file share

transferVars == <<cloned, current_retry_count, loginStatus, moved, cwd, share>>

h == "helper"

TransferInit ==
  /\ cloned = {}
  /\ current_retry_count = 0 /\ loginStatus = FALSE
  /\ moved = FALSE /\ cwd = "app"
  /\ share = [x \in Shares |-> "nothing"]

\* a failure goes into currentMessage, not into currentStatus
CloneRepositories ==
  /\ pc[h] = "clone"
  /\ cloned' \in SUBSET Repositories
  /\ Goto(h, "az login")
  /\ UNCHANGED <<failed, current_retry_count, loginStatus, moved, cwd, share>> /\ MapFrame

\* the last failing attempt sets the status, and the script goes on
TransferLogin ==
  /\ pc[h] = "az login"
  /\ \/ /\ loginStatus' = TRUE
        /\ Goto(h, "conversion")
        /\ UNCHANGED <<failed, current_retry_count>>
     \/ /\ current_retry_count' = current_retry_count + 1
        /\ \/ current_retry_count' < MaxRetryCount /\ Goto(h, "az login") /\ UNCHANGED failed
           \/ /\ current_retry_count' = MaxRetryCount
              /\ Goto(h, "conversion")
              /\ failed' = [failed EXCEPT ![h] = TRUE]
        /\ UNCHANGED loginStatus
  /\ UNCHANGED <<cloned, moved, cwd, share>> /\ MapFrame

\* an upload that az carries out, or whose exit code sets the status
Upload(x, content, next) ==
  /\ Goto(h, next)
  /\ \/ /\ loginStatus /\ content # "nothing"
        /\ share' = [share EXCEPT ![x] = content]
        /\ UNCHANGED failed
     \/ /\ failed' = [failed EXCEPT ![h] = TRUE]
        /\ UNCHANGED share
  /\ UNCHANGED <<cloned, current_retry_count, loginStatus>> /\ MapFrame

\* mutant: the way back is an absolute one
CopyConversionFromApp ==
  /\ pc[h] = "conversion"
  /\ moved' \in BOOLEAN
  /\ moved' => "crs-conversion-service" \in cloned
  /\ cwd' = "app"
  /\ Upload("crs-conversion", IF moved' THEN "data" ELSE "empty directory", "catalog")

\* cd crs-conversion-service; mkdir tmp; mv apachesis_setup tmp; cd tmp; upload; cd ../..
\* Without the clone, tmp is made one directory higher, an empty one is uploaded, and
\* the way back leads out of the directory of the clones.
CopyConversion ==
  /\ pc[h] = "conversion"
  /\ moved' \in BOOLEAN
  /\ moved' => "crs-conversion-service" \in cloned
  /\ cwd' = IF "crs-conversion-service" \in cloned THEN "app" ELSE "parent"
  /\ Upload("crs-conversion", IF moved' THEN "data" ELSE "empty directory", "catalog")

\* the file that a relative path finds
FileOf(repository) == IF cwd = "app" /\ repository \in cloned THEN "data" ELSE "nothing"

CopyCatalog ==
  /\ pc[h] = "catalog"
  /\ Upload("crs", FileOf("crs-catalog-service"), "unit")
  /\ UNCHANGED <<moved, cwd>>

CopyUnit ==
  /\ pc[h] = "unit"
  /\ Upload("unit", FileOf("unit-service"), "read")
  /\ UNCHANGED <<moved, cwd>>

TransferStep == CloneRepositories \/ TransferLogin \/ CopyConversion \/ CopyCatalog \/ CopyUnit

-----------------------------------------------------------------------------
(* properties *)

\* Every variable has its type.
TransferTypeOK ==
  /\ pc[h] \in {"absent", "clone", "az login", "conversion", "catalog", "unit",
                "read", "replace", "exit", "done"}
  /\ cloned \in SUBSET Repositories
  /\ current_retry_count \in 0 .. MaxRetryCount
  /\ loginStatus \in BOOLEAN
  /\ moved \in BOOLEAN
  /\ cwd \in {"app", "parent"}
  /\ share \in [Shares -> {"nothing", "empty directory", "data"}]

\* When the helper agent exits with 0, all three repositories were cloned, although a
\* failing clone sets no status; both catalogs are on their shares; and so are the
\* conversion data unless the move of their directory has failed, which nobody sees.
TransferIsComplete ==
  Succeeded(h) =>
    /\ cloned = Repositories
    /\ share["crs"] = "data" /\ share["unit"] = "data"
    /\ share["crs-conversion"] = (IF moved THEN "data" ELSE "empty directory")
=============================================================================
