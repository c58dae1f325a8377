---------------------------- MODULE SeedingProofs ----------------------------
(***************************************************************************)
(* Proofs about the two seeding agents: what an exit code of 0 says, and   *)
(* when a failure is given up, for every number of partitions and every    *)
(* bound on the attempts; and with them the types of all four agents, the  *)
(* promise their exit codes keep, and that none goes round for ever.       *)
(***************************************************************************)
EXTENDS Integers, DataAgentsProofs

\* Agent c does not work in this step.
Rests(c) ==
  /\ failed'[c] = failed[c]
  /\ \/ pc'[c] = pc[c]
     \/ pc[c] \in Reporting /\ pc'[c] \in Reporting

LEMMA WorksOrRests ==
  ASSUME ReportTypeOK, [Next]_vars, NEW c \in {"static", "helper"}
  PROVE  \/ c = "static" /\ SeedStep
         \/ c = "helper" /\ TransferStep
         \/ /\ Rests(c)
            /\ c = "static" => UNCHANGED seedVars
            /\ c = "helper" => UNCHANGED transferVars
<1>a. c \in Agents /\ c \notin InitAgents
      BY DEF Agents, InitAgents
<1>1. ASSUME NEW a \in Agents, WorkStep(a), a # c
      PROVE  /\ Rests(c)
             /\ c = "static" => UNCHANGED seedVars
             /\ c = "helper" => UNCHANGED transferVars
  <2>1. Rests(c)
        BY <1>1, <1>a, WorkLeavesMap DEF LeavesMap, Rests
  <2> QED BY <1>1, <2>1 DEF WorkStep
<1>2. ASSUME WorkStep(c) PROVE (c = "static" /\ SeedStep) \/ (c = "helper" /\ TransferStep)
      BY <1>2, <1>a DEF WorkStep
<1>3. ASSUME NEW a \in Agents, ReportStep(a), UNCHANGED <<initVars, seedVars, transferVars>>
      PROVE  Rests(c) /\ UNCHANGED <<seedVars, transferVars>>
  <2>1. failed'[c] = failed[c]
        BY <1>3 DEF ReportStep, ReadConfigMap, ReplaceConfigMap, Cleanup
  <2>2. CASE a = c
    <3>1. pc[c] \in Reporting /\ pc'[c] \in Reporting
          BY <1>3, <1>a, <2>2 DEF ReportStep, ReadConfigMap, ReplaceConfigMap, Cleanup, Goto, ReportTypeOK,
             Reporting
    <3> QED BY <1>3, <2>1, <3>1 DEF Rests
  <2>3. CASE a # c
    <3>1. pc'[c] = pc[c]
          BY <1>3, <1>a, <2>3 DEF ReportStep, ReadConfigMap, ReplaceConfigMap, Cleanup, Goto, ReportTypeOK
    <3> QED BY <1>3, <2>1, <3>1 DEF Rests
  <2> QED BY <2>2, <2>3
<1>4. CASE UNCHANGED vars
      BY <1>4 DEF vars, reportVars, Rests
<1> QED BY <1>1, <1>2, <1>3, <1>4, StepOfAgent

-----------------------------------------------------------------------------
(* seed_data.sh *)

\* The partitions this round is through with.
Through(p) == p < index \/ pc[s] \in {"round"} \cup Reporting

\* While the round has no failure, the partitions it is through with are seeded, but
\* for an upload-data.py that raised.
RoundIsComplete ==
  ~failed[s] =>
    /\ \A p \in SeedIndex : Through(p) => blob[p] /\ upload[p] \in {"raised", "ended"}
    /\ pc[s] \in {"cosmos", "tenants"} => blob[index]

SeedInv ==
  /\ SeedTypeOK
  /\ pc[s] = "login" => loginAttemptCount < MaxRetry
  /\ \A p \in SeedIndex : upload[p] = "ended" => tenantInfo[p] = TenantInfo
  /\ RoundIsComplete
  /\ pc[s] \in Reporting /\ failed[s] => retryCount = MaxRetry

LEMMA SeedInvInit == Init => SeedInv
<1> SUFFICES ASSUME NEW pods \in PodSets, ReportInit(pods), SeedInit PROVE SeedInv
    BY DEF Init
<1>1. pc[s] \in {"absent", "login"} /\ failed[s] = FALSE
      BY DEF ReportInit, s, Agents, Start
<1>2. SeedTypeOK
  <2>1. others \in BOOLEAN
        BY DEF SeedInit
  <2>2. retryCount \in 1 .. MaxRetry /\ loginAttemptCount \in 0 .. MaxRetry /\ index \in SeedIndex
        BY SeedAssumption DEF SeedInit, SeedIndex
  <2>3. /\ blob \in [SeedIndex -> BOOLEAN] /\ tenantInfo \in [SeedIndex -> SUBSET TenantInfo]
        /\ upload \in [SeedIndex -> {"none", "ended", "raised"}]
        BY DEF SeedInit
  <2>4. loggedIn \in BOOLEAN
        BY DEF SeedInit
  <2> QED BY <1>1, <2>1, <2>2, <2>3, <2>4 DEF SeedTypeOK
<1>3. \A p \in SeedIndex : ~Through(p)
      BY <1>1 DEF Through, SeedInit, SeedIndex, Reporting
<1>4. RoundIsComplete
      BY <1>1, <1>3 DEF RoundIsComplete
<1> QED BY <1>1, <1>2, <1>4, SeedAssumption DEF SeedInv, SeedInit, Reporting

LEMMA SeedTypeStep == ReportTypeOK /\ SeedInv /\ SeedStep => SeedTypeOK' /\ (pc'[s] = "login" => loginAttemptCount' < MaxRetry)
<1> SUFFICES ASSUME ReportTypeOK, SeedInv, SeedStep
             PROVE  SeedTypeOK' /\ (pc'[s] = "login" => loginAttemptCount' < MaxRetry)
    OBVIOUS
<1>a. s \in Agents /\ MaxRetry \in Nat \ {0} /\ SeedPartitions \in Nat \ {0}
      BY SeedAssumption DEF s, Agents
<1> USE <1>a DEF SeedInv, SeedTypeOK, ReportTypeOK, Goto, RoundFrame, DataFrame, SeedIndex
<1>1. CASE LoginFails \/ LoginReturns
  <2>1. pc[s] = "login" /\ loginAttemptCount < MaxRetry /\ loginAttemptCount' = loginAttemptCount + 1
        BY <1>1 DEF LoginFails, LoginReturns
  <2>2. loginAttemptCount' \in 0 .. MaxRetry
        BY <2>1
  <2>3. /\ pc'[s] \in {"login", "storage"}
        /\ pc'[s] = "login" => loginAttemptCount + 1 < MaxRetry
        BY <1>1 DEF LoginFails, LoginReturns
  <2>4. loggedIn' \in BOOLEAN /\ UNCHANGED <<retryCount, index, blob, others, tenantInfo, upload>>
        BY <1>1 DEF LoginFails, LoginReturns
  <2> QED BY <2>1, <2>2, <2>3, <2>4
<1>2. CASE FindStorage \/ ListBlobs
      BY <1>2 DEF FindStorage, ListBlobs
<1>3. CASE UploadBlob
      BY <1>3 DEF UploadBlob
<1>4. CASE FindCosmos
  <2>1. pc'[s] \in {"tenants", "storage", "round"}
        BY <1>4 DEF FindCosmos, Advance
  <2>2. index' \in SeedIndex
        BY <1>4 DEF FindCosmos, Advance
  <2> QED BY <1>4, <2>1, <2>2 DEF FindCosmos
<1>5. CASE UploadTenantInfo
  <2>1. TenantInfo \in SUBSET TenantInfo /\ {} \in SUBSET TenantInfo /\ {"tenant_info_1"} \in SUBSET TenantInfo
        BY DEF TenantInfo
  <2>2. tenantInfo' \in [SeedIndex -> SUBSET TenantInfo]
        BY <1>5, <2>1 DEF UploadTenantInfo
  <2> QED BY <1>5, <2>2 DEF UploadTenantInfo, Advance
<1>6. CASE EndRound
      BY <1>6 DEF EndRound
<1> QED BY <1>1, <1>2, <1>3, <1>4, <1>5, <1>6 DEF SeedStep

LEMMA SeedInvStep == ReportTypeOK /\ SeedInv /\ SeedStep => SeedInv'
<1> SUFFICES ASSUME ReportTypeOK, SeedInv, SeedStep PROVE SeedInv'
    OBVIOUS
<1>a. s \in Agents /\ MaxRetry \in Nat \ {0} /\ SeedPartitions \in Nat \ {0}
      BY SeedAssumption DEF s, Agents
<1>b. SeedTypeOK' /\ (pc'[s] = "login" => loginAttemptCount' < MaxRetry)
      BY SeedTypeStep
<1>c. pc \in [Agents -> Labels] /\ failed \in [Agents -> BOOLEAN]
      BY DEF ReportTypeOK
<1>d. index \in SeedIndex /\ blob \in [SeedIndex -> BOOLEAN]
      BY DEF SeedInv, SeedTypeOK
<1>1. \A p \in SeedIndex : upload'[p] = "ended" => tenantInfo'[p] = TenantInfo
  <2> USE DEF SeedInv, SeedTypeOK, RoundFrame, DataFrame
  <2>1. CASE UploadTenantInfo
    <3>1. PICK items \in {{}, {"tenant_info_1"}, TenantInfo} :
            /\ tenantInfo' = [tenantInfo EXCEPT ![index] = @ \cup items]
            /\ upload' = [upload EXCEPT ![index] = IF items = TenantInfo THEN "ended" ELSE "raised"]
          BY <2>1 DEF UploadTenantInfo
    <3>2. tenantInfo[index] \cup TenantInfo = TenantInfo
          OBVIOUS
    <3> QED BY <3>1, <3>2
  <2>2. CASE EndRound
        BY <2>2 DEF EndRound
  <2>3. CASE UNCHANGED <<upload, tenantInfo>>
        BY <2>3
  <2> QED BY <2>1, <2>2, <2>3 DEF SeedStep, LoginFails, LoginReturns, FindStorage, UploadBlob, ListBlobs, FindCosmos
<1>2. RoundIsComplete'
  <2> SUFFICES ASSUME ~failed'[s] PROVE RoundIsComplete'
      BY DEF RoundIsComplete
  <2>a. SeedIndex' = SeedIndex /\ RoundIsComplete
        BY DEF SeedInv
  <2> USE <1>a, <1>c, <1>d, <2>a DEF Goto, RoundFrame, DataFrame
  <2>1. CASE LoginFails \/ LoginReturns \/ FindStorage \/ UploadBlob
    <3>1. ~failed[s] /\ pc[s] \in {"login", "storage", "upload", "upload again"} /\ UNCHANGED <<index, upload>>
          BY <2>1 DEF LoginFails, LoginReturns, FindStorage, UploadBlob, Fail
    <3>2. pc'[s] \in {"login", "storage", "upload", "list", "list again"}
          BY <2>1 DEF LoginFails, LoginReturns, FindStorage, UploadBlob, Fail
    <3>3. \A p \in SeedIndex : blob[p] => blob'[p]
          BY <2>1 DEF LoginFails, LoginReturns, FindStorage, UploadBlob
    <3> QED BY <3>1, <3>2, <3>3 DEF RoundIsComplete, Through, Reporting
  <2>2. CASE ListBlobs
    <3>1. ~failed[s] /\ pc[s] \in {"list", "list again"} /\ UNCHANGED <<index, upload, blob>>
          BY <2>2 DEF ListBlobs, Fail
    <3>2. pc'[s] = "upload again" \/ (pc'[s] = "cosmos" /\ blob[index])
          BY <2>2 DEF ListBlobs, Fail, Seen
    <3> QED BY <3>1, <3>2 DEF RoundIsComplete, Through, Reporting
  <2>3. CASE FindCosmos
    <3>1. ~failed[s] /\ pc[s] = "cosmos" /\ pc'[s] = "tenants" /\ UNCHANGED <<index, upload, blob>>
          BY <2>3 DEF FindCosmos, Fail
    <3> QED BY <3>1 DEF RoundIsComplete, Through, Reporting
  <2>4. CASE UploadTenantInfo
    <3>1. ~failed[s] /\ pc[s] = "tenants" /\ UNCHANGED blob
          BY <2>4 DEF UploadTenantInfo
    <3>2. upload'[index] \in {"raised", "ended"}
          BY <2>4 DEF UploadTenantInfo, SeedInv, SeedTypeOK
    <3>3. \A p \in SeedIndex \ {index} : upload'[p] = upload[p]
          BY <2>4 DEF UploadTenantInfo, SeedInv, SeedTypeOK
    <3>4. \/ index < SeedPartitions /\ index' = index + 1 /\ pc'[s] = "storage"
          \/ index = SeedPartitions /\ index' = index /\ pc'[s] = "round"
          BY <2>4 DEF UploadTenantInfo, Advance, SeedIndex
    <3>5. \A p \in SeedIndex : Through(p)' => p = index \/ p < index
          BY <3>4 DEF Through, SeedIndex, Reporting
    <3>6. \A p \in SeedIndex : p < index => blob[p] /\ upload[p] \in {"raised", "ended"}
          BY <3>1 DEF RoundIsComplete, Through
    <3>7. blob[index]
          BY <3>1 DEF RoundIsComplete
    <3>8. \A p \in SeedIndex : Through(p)' => blob'[p] /\ upload'[p] \in {"raised", "ended"}
          BY <3>1, <3>2, <3>3, <3>5, <3>6, <3>7
    <3> QED BY <3>4, <3>8 DEF RoundIsComplete
  <2>5. CASE EndRound
    <3>1. CASE failed[s] /\ retryCount < MaxRetry
      <4>1. index' = 1 /\ pc'[s] = "storage"
            BY <2>5, <3>1 DEF EndRound
      <4>2. \A p \in SeedIndex : ~ Through(p)'
            BY <4>1 DEF Through, SeedIndex, Reporting
      <4> QED BY <4>1, <4>2 DEF RoundIsComplete
    <3>2. CASE ~(failed[s] /\ retryCount < MaxRetry)
      <4>1. pc[s] = "round" /\ ~failed[s] /\ pc'[s] = "read" /\ UNCHANGED <<index, upload, blob>>
            BY <2>5, <3>2 DEF EndRound
      <4> QED BY <4>1 DEF RoundIsComplete, Through, Reporting
    <3> QED BY <3>1, <3>2
  <2> QED BY <2>1, <2>2, <2>3, <2>4, <2>5 DEF SeedStep
<1>3. pc'[s] \in Reporting /\ failed'[s] => retryCount' = MaxRetry
  <2>1. CASE EndRound
        BY <1>a, <1>c, <2>1 DEF EndRound, Goto, Reporting, SeedInv, SeedTypeOK
  <2>2. CASE ~EndRound
        BY <1>a, <1>c, <2>2 DEF SeedStep, LoginFails, LoginReturns, FindStorage, UploadBlob, ListBlobs, FindCosmos,
           UploadTenantInfo, Advance, Goto, Reporting
  <2> QED BY <2>1, <2>2
<1> QED BY <1>b, <1>1, <1>2, <1>3 DEF SeedInv

\* Where the agent rests, nothing of its invariant changes.
LEMMA SeedInvRests == SeedInv /\ Rests(s) /\ UNCHANGED seedVars => SeedInv'
<1> SUFFICES ASSUME SeedInv, Rests(s), UNCHANGED seedVars PROVE SeedInv'
    OBVIOUS
<1> USE DEF SeedInv, Rests, seedVars, Reporting
<1>1. SeedTypeOK'
      BY DEF SeedTypeOK
<1>2. RoundIsComplete'
      BY DEF RoundIsComplete, Through
<1> QED BY <1>1, <1>2

-----------------------------------------------------------------------------
(* transfer.sh *)

\* What an undisturbed run has done by the place it has come to.
CopiedSoFar ==
  LET beyond(places) == pc[h] \in places \cup Reporting IN
  /\ beyond({"catalog", "unit"}) =>
       /\ (moved \/ cwd = "app") => "crs-conversion-service" \in cloned
       /\ ~failed[h] => share["crs-conversion"] = (IF moved THEN "data" ELSE "empty directory")
  /\ beyond({"unit"}) /\ ~failed[h] =>
       cwd = "app" /\ "crs-catalog-service" \in cloned /\ share["crs"] = "data"
  /\ beyond({}) /\ ~failed[h] => "unit-service" \in cloned /\ share["unit"] = "data"

TransferInv ==
  /\ TransferTypeOK
  /\ pc[h] \in {"clone", "az login"} => current_retry_count < MaxRetryCount
  /\ CopiedSoFar

LEMMA TransferInvInit == Init => TransferInv
<1> SUFFICES ASSUME NEW pods \in PodSets, ReportInit(pods), TransferInit PROVE TransferInv
    BY DEF Init
<1>1. pc[h] \in {"absent", "clone"}
      BY DEF ReportInit, h, Agents, Start
<1>0. current_retry_count = 0 /\ 0 < MaxRetryCount /\ 0 \in 0 .. MaxRetryCount
      BY TransferAssumption DEF TransferInit
<1>2. TransferTypeOK
      BY <1>0, <1>1 DEF TransferInit, TransferTypeOK
<1>3. CopiedSoFar
      BY <1>1 DEF CopiedSoFar, Reporting
<1> QED BY <1>0, <1>2, <1>3 DEF TransferInv

LEMMA TransferInvStep == ReportTypeOK /\ TransferInv /\ TransferStep => TransferInv'
<1> SUFFICES ASSUME ReportTypeOK, TransferInv, TransferStep PROVE TransferInv'
    OBVIOUS
<1>a. h \in Agents /\ pc \in [Agents -> Labels] /\ failed \in [Agents -> BOOLEAN]
      BY DEF h, Agents, ReportTypeOK
<1> USE <1>a DEF Goto
<1>1. CASE CloneRepositories
      BY <1>1 DEF CloneRepositories, TransferInv, TransferTypeOK, CopiedSoFar, Reporting
<1>2. CASE TransferLogin
  <2>1. pc'[h] \in {"az login", "conversion"}
        BY <1>2 DEF TransferLogin
  <2>2. current_retry_count' \in 0 .. MaxRetryCount /\ (pc'[h] = "az login" => current_retry_count' < MaxRetryCount)
    <3>1. current_retry_count \in 0 .. MaxRetryCount /\ current_retry_count < MaxRetryCount /\ MaxRetryCount \in Nat
          BY <1>2, TransferAssumption DEF TransferLogin, TransferInv, TransferTypeOK
    <3>2. \/ UNCHANGED current_retry_count /\ pc'[h] = "conversion"
          \/ current_retry_count' = current_retry_count + 1 /\ (pc'[h] = "conversion" \/ current_retry_count' < MaxRetryCount)
          BY <1>2 DEF TransferLogin
    <3>3. current_retry_count + 1 \in 0 .. MaxRetryCount
          BY <3>1
    <3>4. current_retry_count' \in 0 .. MaxRetryCount
          BY <3>1, <3>2, <3>3
    <3>5. pc'[h] = "az login" => current_retry_count' < MaxRetryCount
          BY <3>2
    <3> QED BY <3>4, <3>5
  <2>3. loginStatus' \in BOOLEAN /\ UNCHANGED <<cloned, moved, cwd, share>>
        BY <1>2 DEF TransferLogin, TransferInv, TransferTypeOK
  <2>4. TransferTypeOK'
        BY <2>1, <2>2, <2>3 DEF TransferInv, TransferTypeOK
  <2>5. CopiedSoFar'
        BY <2>1 DEF CopiedSoFar, Reporting
  <2> QED BY <2>1, <2>2, <2>4, <2>5 DEF TransferInv
<1>3. CASE CopyConversion
  <2>0. moved' \in BOOLEAN
        BY <1>3 DEF CopyConversion
  <2>1. /\ pc'[h] = "catalog" /\ (moved' => "crs-conversion-service" \in cloned)
        /\ cwd' = IF "crs-conversion-service" \in cloned THEN "app" ELSE "parent"
        /\ UNCHANGED <<cloned, current_retry_count, loginStatus>>
        BY <1>3 DEF CopyConversion, Upload
  <2>2. \/ share' = [share EXCEPT !["crs-conversion"] = IF moved' THEN "data" ELSE "empty directory"]
        \/ failed'[h] = TRUE /\ UNCHANGED share
        BY <1>3 DEF CopyConversion, Upload
  <2>3. share' \in [Shares -> {"nothing", "empty directory", "data"}]
        BY <2>2 DEF TransferInv, TransferTypeOK
  <2>4. TransferTypeOK'
        BY <2>0, <2>1, <2>3 DEF TransferInv, TransferTypeOK
  <2>5. ~failed'[h] => share'["crs-conversion"] = (IF moved' THEN "data" ELSE "empty directory")
        BY <2>2 DEF TransferInv, TransferTypeOK, Shares
  <2>6. CopiedSoFar'
        BY <2>1, <2>5 DEF CopiedSoFar, Reporting
  <2> QED BY <2>1, <2>4, <2>6 DEF TransferInv
<1>4. CASE CopyCatalog
  <2>1. /\ pc[h] = "catalog" /\ pc'[h] = "unit"
        /\ UNCHANGED <<cloned, current_retry_count, loginStatus, moved, cwd>>
        BY <1>4 DEF CopyCatalog, Upload
  <2>2. \/ /\ share' = [share EXCEPT !["crs"] = "data"] /\ UNCHANGED failed
           /\ cwd = "app" /\ "crs-catalog-service" \in cloned
        \/ failed'[h] = TRUE /\ UNCHANGED share
        BY <1>4 DEF CopyCatalog, Upload, FileOf
  <2>3. share' \in [Shares -> {"nothing", "empty directory", "data"}]
        BY <2>2 DEF TransferInv, TransferTypeOK
  <2>4. TransferTypeOK'
        BY <2>1, <2>3 DEF TransferInv, TransferTypeOK
  <2>5. CopiedSoFar'
        BY <2>1, <2>2 DEF TransferInv, TransferTypeOK, Shares, CopiedSoFar, Reporting
  <2> QED BY <2>1, <2>4, <2>5 DEF TransferInv
<1>5. CASE CopyUnit
  <2>1. /\ pc[h] = "unit" /\ pc'[h] = "read"
        /\ UNCHANGED <<cloned, current_retry_count, loginStatus, moved, cwd>>
        BY <1>5 DEF CopyUnit, Upload
  <2>2. \/ /\ share' = [share EXCEPT !["unit"] = "data"] /\ UNCHANGED failed
           /\ cwd = "app" /\ "unit-service" \in cloned
        \/ failed'[h] = TRUE /\ UNCHANGED share
        BY <1>5 DEF CopyUnit, Upload, FileOf
  <2>3. share' \in [Shares -> {"nothing", "empty directory", "data"}]
        BY <2>2 DEF TransferInv, TransferTypeOK
  <2>4. TransferTypeOK'
        BY <2>1, <2>3 DEF TransferInv, TransferTypeOK
  <2>5. CopiedSoFar'
        BY <2>1, <2>2 DEF TransferInv, TransferTypeOK, Shares, CopiedSoFar, Reporting
  <2> QED BY <2>1, <2>4, <2>5 DEF TransferInv
<1> QED BY <1>1, <1>2, <1>3, <1>4, <1>5 DEF TransferStep

LEMMA TransferInvRests == TransferInv /\ Rests(h) /\ UNCHANGED transferVars => TransferInv'
<1> SUFFICES ASSUME TransferInv, Rests(h), UNCHANGED transferVars PROVE TransferInv'
    OBVIOUS
<1> USE DEF TransferInv, Rests, transferVars, Reporting
<1>1. TransferTypeOK'
      BY DEF TransferTypeOK
<1>2. CopiedSoFar'
      BY DEF CopiedSoFar
<1> QED BY <1>1, <1>2

-----------------------------------------------------------------------------

LEMMA SeedingInvariant == Spec => [](MapInv /\ SeedInv /\ TransferInv)
<1>1. Init => MapInv /\ SeedInv /\ TransferInv
      BY MapInit, SeedInvInit, TransferInvInit
<1>2. MapInv /\ SeedInv /\ TransferInv /\ [Next]_vars => (MapInv /\ SeedInv /\ TransferInv)'
  <2> SUFFICES ASSUME MapInv, SeedInv, TransferInv, [Next]_vars PROVE (MapInv /\ SeedInv /\ TransferInv)'
      OBVIOUS
  <2>1. ReportTypeOK /\ MapInv'
        BY MapStep DEF MapInv
  <2>2. SeedInv'
        BY <2>1, WorksOrRests, SeedInvStep, SeedInvRests DEF s
  <2>3. TransferInv'
        BY <2>1, WorksOrRests, TransferInvStep, TransferInvRests DEF h
  <2> QED BY <2>1, <2>2, <2>3
<1> QED BY <1>1, <1>2, PTL DEF Spec

\* The static file agent exits with 0 only when every partition is seeded, but for an
\* upload-data.py that raised, through any number of rounds.
THEOREM SeedingCompletes == Spec => []SeedingIsComplete
<1>1. SeedInv => SeedingIsComplete
      BY DEF SeedInv, RoundIsComplete, Through, SeedingIsComplete, Succeeded, Reporting
<1> QED BY <1>1, SeedingInvariant, PTL

\* It reports a failure only after maxRetry rounds.
THEOREM SeedingRetries == Spec => []SeedingGivesUpLast
<1>1. SeedInv => SeedingGivesUpLast
      BY DEF SeedInv, SeedingGivesUpLast, Reporting
<1> QED BY <1>1, SeedingInvariant, PTL

\* The helper agent exits with 0 only when it cloned all repositories and both
\* catalogs are on their shares, although a failing clone sets no status.
THEOREM TransferCompletes == Spec => []TransferIsComplete
<1>1. TransferInv => TransferIsComplete
  <2> SUFFICES ASSUME TransferInv, Succeeded(h)
               PROVE  /\ cloned = Repositories
                      /\ share["crs"] = "data" /\ share["unit"] = "data"
                      /\ share["crs-conversion"] = (IF moved THEN "data" ELSE "empty directory")
      BY DEF TransferIsComplete
  <2>1. pc[h] \in Reporting /\ ~failed[h]
        BY DEF Succeeded, Reporting
  <2> QED BY <2>1 DEF TransferInv, TransferTypeOK, CopiedSoFar, Repositories
<1> QED BY <1>1, SeedingInvariant, PTL

\* Every variable of the four agents has its type: no loop exceeds its bound, for
\* every value of the bounds.
THEOREM AgentsTypeCorrect == Spec => []TypeOK
<1>1. MapInv /\ SeedInv /\ TransferInv /\ InitTypeOK => TypeOK
      BY DEF MapInv, SeedInv, TransferInv, TypeOK
<1> QED BY <1>1, SeedingInvariant, InitTypeCorrect, PTL

-----------------------------------------------------------------------------
(* the exit codes implement InitReport *)

\* An agent's exit code appears in one step, the end of its cleanup, in which nothing
\* else happens, and stays.
LEMMA ExitCodeAppearsOnce ==
  ASSUME MapInv, [Next]_vars, NEW a \in Agents
  PROVE  \/ ExitReport(a) = "none" /\ ExitReport(a)' = "none" /\ pc[a] # "done"
         \/ /\ ExitReport(a) = "none" /\ ExitReport(a)' = Result(a)'
            /\ pc'[a] = "done" /\ UNCHANGED <<initVars, seedVars, transferVars>>
         \/ pc[a] = "done" /\ ExitReport(a)' = ExitReport(a) /\ ~ WorkStep(a)
<1>t. ReportTypeOK
      BY DEF MapInv
<1>1. ASSUME NEW b \in Agents, WorkStep(b)
      PROVE  \/ ExitReport(a) = "none" /\ ExitReport(a)' = "none" /\ pc[a] # "done"
             \/ pc[a] = "done" /\ ExitReport(a)' = ExitReport(a) /\ ~ WorkStep(a)
  <2>1. LeavesMap(b) /\ (WorkStep(a) => LeavesMap(a))
        BY <1>t, <1>1, WorkLeavesMap
  <2>2. CASE pc[a] = "done"
    <3>1. a # b /\ ~ WorkStep(a)
          BY <2>1, <2>2 DEF LeavesMap, Reporting
    <3> QED BY <2>1, <2>2, <3>1 DEF LeavesMap, ExitReport, Result
  <2>3. CASE pc[a] # "done"
    <3>1. pc'[a] # "done"
          BY <2>1, <2>3 DEF LeavesMap
    <3> QED BY <2>3, <3>1 DEF ExitReport
  <2> QED BY <2>2, <2>3
<1>2. ASSUME NEW b \in Agents, ReportStep(b), UNCHANGED <<initVars, seedVars, transferVars>>
      PROVE  \/ ExitReport(a) = "none" /\ ExitReport(a)' = "none" /\ pc[a] # "done"
             \/ ExitReport(a) = "none" /\ ExitReport(a)' = Result(a)' /\ pc'[a] = "done"
             \/ pc[a] = "done" /\ ExitReport(a)' = ExitReport(a) /\ ~ WorkStep(a)
  <2>1. UNCHANGED failed /\ (pc[a] = "done" => pc'[a] = "done")
        BY <1>t, <1>2 DEF ReportStep, ReadConfigMap, ReplaceConfigMap, Cleanup, Goto, ReportTypeOK
  <2>2. pc[a] = "done" => ~ WorkStep(a)
        BY <1>t, WorkLeavesMap DEF LeavesMap, Reporting
  <2> QED BY <2>1, <2>2 DEF ExitReport, Result
<1>3. CASE UNCHANGED vars
  <2>1. UNCHANGED <<pc, failed>>
        BY <1>3 DEF vars, reportVars
  <2>2. pc[a] = "done" => ~ WorkStep(a)
        BY <1>t, WorkLeavesMap DEF LeavesMap, Reporting
  <2> QED BY <2>1, <2>2 DEF ExitReport, Result
<1> QED BY <1>1, <1>2, <1>3, StepOfAgent

\* The services accept one call at a time, of the agent that is at its work.
LEMMA CallsAcceptedOneByOne ==
  ASSUME InitTypeOK, [Next]_vars, NEW a \in InitAgents
  PROVE  \/ (accepted \cap CallsOf(a))' = accepted \cap CallsOf(a)
         \/ /\ WorkStep(a)
            /\ \E w \in CallsOf(a) : (accepted \cap CallsOf(a))' = (accepted \cap CallsOf(a)) \cup {w}
<1>1. ASSUME NEW b \in InitAgents, CallAccepted(b), WorkStep(b)
      PROVE  \/ (accepted \cap CallsOf(a))' = accepted \cap CallsOf(a)
             \/ /\ WorkStep(a)
                /\ \E w \in CallsOf(a) : (accepted \cap CallsOf(a))' = (accepted \cap CallsOf(a)) \cup {w}
  <2> DEFINE w == <<part[b], Step(b)>>
  <2>1. accepted' = accepted \cup {w}
        BY <1>1 DEF CallAccepted
  <2>2. Step(b) \in StepNames(b) /\ part[b] \in Index
        BY CurrentStep, StepsOfAgents DEF InitTypeOK, InitAgents
  <2>3. CASE a = b
    <3>1. w \in CallsOf(a)
          BY <2>2, <2>3 DEF CallsOf
    <3> QED BY <1>1, <2>1, <2>3, <3>1 DEF CallsOf
  <2>4. CASE a # b
    <3>1. Step(b) \notin StepNames(a)
          BY <2>2, <2>4, StepsOfAgents DEF InitAgents
    <3>2. w \notin CallsOf(a)
          BY <3>1 DEF CallsOf
    <3> QED BY <2>1, <3>2 DEF CallsOf
  <2> QED BY <2>3, <2>4
<1>2. ASSUME NEW b \in Agents, WorkStep(b), ~ (b \in InitAgents /\ CallAccepted(b))
      PROVE  accepted' = accepted
  <2>1. CASE b \in InitAgents /\ InitAgentStep(b)
        BY <1>2, <2>1 DEF InitAgentStep, FetchToken, CallRejected, CallUnanswered, CallUnauthorized,
           EndLoop, CompareCounts, LoopFrame
  <2>2. CASE UNCHANGED initVars
        BY <2>2 DEF initVars
  <2> QED BY <1>2, <2>1, <2>2 DEF WorkStep
<1>3. UNCHANGED initVars => accepted' = accepted
      BY DEF initVars
<1>4. UNCHANGED vars => accepted' = accepted
      BY DEF vars, initVars
<1>5. accepted' = accepted => (accepted \cap CallsOf(a))' = accepted \cap CallsOf(a)
      BY DEF CallsOf
<1> QED BY <1>1, <1>2, <1>3, <1>4, <1>5, StepOfAgent

\* Each file share gets its content once.
LEMMA SharesFilledOneByOne ==
  ASSUME TransferTypeOK, [Next]_vars
  PROVE  \/ UNCHANGED share
         \/ /\ WorkStep("helper")
            /\ \E x \in Shares : \E content \in {"empty directory", "data"} :
                 share' = [share EXCEPT ![x] = content]
<1>1. ASSUME NEW b \in Agents, WorkStep(b), b # "helper" PROVE UNCHANGED share
      BY <1>1 DEF WorkStep, transferVars
<1>2. ASSUME WorkStep("helper")
      PROVE  \/ UNCHANGED share
             \/ \E x \in Shares : \E content \in {"empty directory", "data"} :
                  share' = [share EXCEPT ![x] = content]
  <2>1. TransferStep
        BY <1>2 DEF WorkStep, InitAgents
  <2>2. {"crs-conversion", "crs", "unit"} \subseteq Shares
        BY DEF Shares
  <2>3. CASE CloneRepositories \/ TransferLogin
        BY <2>3 DEF CloneRepositories, TransferLogin
  <2>4. CASE CopyConversion
        BY <2>2, <2>4 DEF CopyConversion, Upload
  <2>5. CASE CopyCatalog \/ CopyUnit
        BY <2>2, <2>5 DEF CopyCatalog, CopyUnit, Upload, FileOf
  <2> QED BY <2>1, <2>3, <2>4, <2>5 DEF TransferStep
<1>3. UNCHANGED <<initVars, seedVars, transferVars>> \/ UNCHANGED vars => UNCHANGED share
      BY DEF vars, transferVars
<1>4. "helper" \in Agents
      BY DEF Agents
<1> QED BY <1>1, <1>2, <1>3, <1>4, StepOfAgent

LEMMA PartitionReports == Spec => PartitionReport!ReportSpec
<1> DEFINE mine   == accepted \cap CallsOf("partition")
           report == ExitReport("partition")
<1>a. "partition" \in Agents /\ "partition" \in InitAgents
      BY DEF Agents, InitAgents
<1>1. Init => PartitionReport!ReportInit
  <2> SUFFICES ASSUME Init PROVE accepted = {} /\ report = "none"
      BY DEF PartitionReport!ReportInit
  <2>1. accepted = {}
        BY DEF Init, InitAgentsInit
  <2>2. PICK pods \in PodSets : ReportInit(pods)
        BY DEF Init
  <2>3. pc["partition"] # "done"
        BY <1>a, <2>2 DEF ReportInit, Start
  <2> QED BY <2>1, <2>3 DEF ExitReport
<1>2. MapInv /\ InitTypeOK /\ ExitIsHonest' /\ [Next]_vars => [PartitionReport!ReportNext]_<<mine, report>>
  <2> SUFFICES ASSUME MapInv, InitTypeOK, ExitIsHonest', [Next]_vars
               PROVE  PartitionReport!ReportNext \/ UNCHANGED <<mine, report>>
      OBVIOUS
  <2>1. CASE report = "none" /\ report' = "none" /\ pc["partition"] # "done"
    <3>1. \/ mine' = mine
          \/ \E w \in CallsOf("partition") : mine' = mine \cup {w}
          BY <1>a, CallsAcceptedOneByOne
    <3>2. CASE mine' = mine
          BY <2>1, <3>2
    <3>3. ASSUME NEW w \in CallsOf("partition") \ mine, mine' = mine \cup {w}
          PROVE  PartitionReport!ReportNext
          BY <2>1, <3>3 DEF PartitionReport!ReportNext, PartitionReport!Acknowledge
    <3> QED BY <3>1, <3>2, <3>3
  <2>2. CASE /\ report = "none" /\ report' = Result("partition")' /\ pc'["partition"] = "done"
             /\ UNCHANGED <<initVars, seedVars, transferVars>>
    <3>1. mine' = mine
          BY <2>2 DEF initVars, CallsOf
    <3>2. CASE failed'["partition"]
          BY <2>2, <3>1, <3>2 DEF Result, PartitionReport!ReportNext, PartitionReport!ReportFailure
    <3>3. CASE ~failed'["partition"]
      <4>1. CallsOf("partition") \subseteq accepted'
            BY <1>a, <2>2, <3>3 DEF ExitIsHonest, Succeeded, CallsOf
      <4>2. mine = CallsOf("partition")
            BY <2>2, <4>1 DEF initVars
      <4> QED BY <2>2, <3>1, <3>3, <4>2 DEF Result, PartitionReport!ReportNext, PartitionReport!ReportSuccess
    <3> QED BY <3>2, <3>3
  <2>3. CASE pc["partition"] = "done" /\ report' = report /\ ~ WorkStep("partition")
    <3>1. mine' = mine
          BY <1>a, <2>3, CallsAcceptedOneByOne
    <3> QED BY <2>3, <3>1
  <2> QED BY <1>a, <2>1, <2>2, <2>3, ExitCodeAppearsOnce
<1> QED BY <1>1, <1>2, SeedingInvariant, InitTypeCorrect, ExitsAreHonest, PTL
        DEF Spec, PartitionReport!ReportSpec

LEMMA EntitlementsReports == Spec => EntitlementsReport!ReportSpec
<1> DEFINE mine   == accepted \cap CallsOf("entitlements")
           report == ExitReport("entitlements")
<1>a. "entitlements" \in Agents /\ "entitlements" \in InitAgents
      BY DEF Agents, InitAgents
<1>1. Init => EntitlementsReport!ReportInit
  <2> SUFFICES ASSUME Init PROVE accepted = {} /\ report = "none"
      BY DEF EntitlementsReport!ReportInit
  <2>1. accepted = {}
        BY DEF Init, InitAgentsInit
  <2>2. PICK pods \in PodSets : ReportInit(pods)
        BY DEF Init
  <2>3. pc["entitlements"] # "done"
        BY <1>a, <2>2 DEF ReportInit, Start
  <2> QED BY <2>1, <2>3 DEF ExitReport
<1>2. MapInv /\ InitTypeOK /\ ExitIsHonest' /\ [Next]_vars => [EntitlementsReport!ReportNext]_<<mine, report>>
  <2> SUFFICES ASSUME MapInv, InitTypeOK, ExitIsHonest', [Next]_vars
               PROVE  EntitlementsReport!ReportNext \/ UNCHANGED <<mine, report>>
      OBVIOUS
  <2>1. CASE report = "none" /\ report' = "none" /\ pc["entitlements"] # "done"
    <3>1. \/ mine' = mine
          \/ \E w \in CallsOf("entitlements") : mine' = mine \cup {w}
          BY <1>a, CallsAcceptedOneByOne
    <3>2. CASE mine' = mine
          BY <2>1, <3>2
    <3>3. ASSUME NEW w \in CallsOf("entitlements") \ mine, mine' = mine \cup {w}
          PROVE  EntitlementsReport!ReportNext
          BY <2>1, <3>3 DEF EntitlementsReport!ReportNext, EntitlementsReport!Acknowledge
    <3> QED BY <3>1, <3>2, <3>3
  <2>2. CASE /\ report = "none" /\ report' = Result("entitlements")' /\ pc'["entitlements"] = "done"
             /\ UNCHANGED <<initVars, seedVars, transferVars>>
    <3>1. mine' = mine
          BY <2>2 DEF initVars, CallsOf
    <3>2. CASE failed'["entitlements"]
          BY <2>2, <3>1, <3>2 DEF Result, EntitlementsReport!ReportNext, EntitlementsReport!ReportFailure
    <3>3. CASE ~failed'["entitlements"]
      <4>1. CallsOf("entitlements") \subseteq accepted'
            BY <1>a, <2>2, <3>3 DEF ExitIsHonest, Succeeded, CallsOf
      <4>2. mine = CallsOf("entitlements")
            BY <2>2, <4>1 DEF initVars
      <4> QED BY <2>2, <3>1, <3>3, <4>2 DEF Result, EntitlementsReport!ReportNext, EntitlementsReport!ReportSuccess
    <3> QED BY <3>2, <3>3
  <2>3. CASE pc["entitlements"] = "done" /\ report' = report /\ ~ WorkStep("entitlements")
    <3>1. mine' = mine
          BY <1>a, <2>3, CallsAcceptedOneByOne
    <3> QED BY <2>3, <3>1
  <2> QED BY <1>a, <2>1, <2>2, <2>3, ExitCodeAppearsOnce
<1> QED BY <1>1, <1>2, SeedingInvariant, InitTypeCorrect, ExitsAreHonest, PTL
        DEF Spec, EntitlementsReport!ReportSpec

LEMMA TransferReports == Spec => TransferReport!ReportSpec
<1> DEFINE filled == {x \in Shares : share[x] # "nothing"}
           report == ExitReport("helper")
<1>a. "helper" \in Agents
      BY DEF Agents
<1>1. Init => TransferReport!ReportInit
  <2> SUFFICES ASSUME Init PROVE filled = {} /\ report = "none"
      BY DEF TransferReport!ReportInit
  <2>1. filled = {}
        BY DEF Init, TransferInit
  <2>2. PICK pods \in PodSets : ReportInit(pods)
        BY DEF Init
  <2>3. pc["helper"] # "done"
        BY <1>a, <2>2 DEF ReportInit, Start
  <2> QED BY <2>1, <2>3 DEF ExitReport
<1>2. MapInv /\ TransferTypeOK /\ TransferIsComplete' /\ [Next]_vars =>
        [TransferReport!ReportNext]_<<filled, report>>
  <2> SUFFICES ASSUME MapInv, TransferTypeOK, TransferIsComplete', [Next]_vars
               PROVE  TransferReport!ReportNext \/ UNCHANGED <<filled, report>>
      OBVIOUS
  <2>1. CASE report = "none" /\ report' = "none" /\ pc["helper"] # "done"
    <3>1. CASE UNCHANGED share
          BY <2>1, <3>1
    <3>2. ASSUME NEW x \in Shares, NEW content \in {"empty directory", "data"},
                 share' = [share EXCEPT ![x] = content]
          PROVE  TransferReport!ReportNext \/ UNCHANGED <<filled, report>>
      <4>1. filled' = filled \cup {x}
            BY <3>2 DEF TransferTypeOK
      <4>2. CASE x \in filled
            BY <2>1, <4>1, <4>2
      <4>3. CASE x \notin filled
        <5>1. x \in Shares \ filled
              BY <4>3
        <5> QED BY <2>1, <4>1, <5>1 DEF TransferReport!ReportNext, TransferReport!Acknowledge
      <4> QED BY <4>2, <4>3
    <3> QED BY <3>1, <3>2, SharesFilledOneByOne
  <2>2. CASE /\ report = "none" /\ report' = Result("helper")' /\ pc'["helper"] = "done"
             /\ UNCHANGED <<initVars, seedVars, transferVars>>
    <3>1. filled' = filled /\ UNCHANGED share
          BY <2>2 DEF transferVars
    <3>2. CASE failed'["helper"]
          BY <2>2, <3>1, <3>2 DEF Result, TransferReport!ReportNext, TransferReport!ReportFailure
    <3>3. CASE ~failed'["helper"]
      <4>1. \A x \in Shares : share'[x] # "nothing"
            BY <2>2, <3>3 DEF TransferIsComplete, Succeeded, Shares, h
      <4>2. filled = Shares
            BY <3>1, <4>1
      <4> QED BY <2>2, <3>1, <3>3, <4>2 DEF Result, TransferReport!ReportNext, TransferReport!ReportSuccess
    <3> QED BY <3>2, <3>3
  <2>3. CASE pc["helper"] = "done" /\ report' = report /\ ~ WorkStep("helper")
    <3>1. UNCHANGED share
          BY <2>3, SharesFilledOneByOne
    <3> QED BY <2>3, <3>1
  <2> QED BY <1>a, <2>1, <2>2, <2>3, ExitCodeAppearsOnce
<1>3. TypeOK => TransferTypeOK
      BY DEF TypeOK
<1> QED BY <1>1, <1>2, <1>3, SeedingInvariant, AgentsTypeCorrect, TransferCompletes, PTL
        DEF Spec, TransferReport!ReportSpec

\* The three agents whose exit code is the report of calls keep InitReport's promise, however
\* their steps and those of the fourth interleave: every call is acknowledged once and before
\* the report, and an exit code of 0 is given only when all have been.
THEOREM ExitsAreReports == Spec => ExitIsAReport
BY PartitionReports, EntitlementsReports, TransferReports DEF ExitIsAReport

-----------------------------------------------------------------------------
(* how far the agents have come *)

\* The stretches of the scripts, in order.
Stretch(l) ==
  IF l \in {"token", "login", "clone", "absent"} THEN 0
  ELSE IF l = "compare" \/ l = "conversion" THEN 2
  ELSE IF l = "catalog" THEN 3
  ELSE IF l = "unit" THEN 4
  ELSE IF l = "read" THEN 5
  ELSE IF l = "replace" THEN 6
  ELSE IF l = "exit" THEN 7
  ELSE IF l = "done" THEN 8
  ELSE 1

\* The order in which a partition is seeded, up to the end of the round.
Spot(l) ==
  IF l = "upload" THEN 1
  ELSE IF l = "list" THEN 2
  ELSE IF l = "upload again" THEN 3
  ELSE IF l = "list again" THEN 4
  ELSE IF l = "cosmos" THEN 5
  ELSE IF l = "tenants" THEN 6
  ELSE IF l = "round" THEN 7
  ELSE 0

\* Where agent a is: the stretch, and in it the counters of its loops, the outer one first.
Outer(a) ==
  IF a \in InitAgents THEN part[a]
  ELSE IF a = h THEN current_retry_count
  ELSE IF pc[a] = "login" THEN loginAttemptCount ELSE retryCount

Middle(a) == IF a \in InitAgents THEN step[a] ELSE IF a = s THEN index ELSE 0

Inner(a) == IF a \in InitAgents THEN i[a] ELSE IF a = s THEN Spot(pc[a]) ELSE 0

\* A step of agent a brings it further: in the script, or in the first loop that it changes.
Advances(a) ==
  \/ Stretch(pc'[a]) > Stretch(pc[a])
  \/ /\ Stretch(pc'[a]) = Stretch(pc[a])
     /\ \/ Outer(a)' > Outer(a)
        \/ /\ Outer(a)' = Outer(a)
           /\ \/ Middle(a)' > Middle(a)
              \/ Middle(a)' = Middle(a) /\ Inner(a)' > Inner(a)

\* Agent a has not been moved.
Stays(a) == pc'[a] = pc[a] /\ Outer(a)' = Outer(a) /\ Middle(a)' = Middle(a) /\ Inner(a)' = Inner(a)

\* The stretches and the spots of the labels.
LEMMA Stretches ==
  /\ Stretch("token") = 0 /\ Stretch("login") = 0 /\ Stretch("clone") = 0
  /\ Stretch("az login") = 1 /\ Stretch("conversion") = 2 /\ Stretch("catalog") = 3 /\ Stretch("unit") = 4
  /\ Stretch("call") = 1 /\ Stretch("endloop") = 1 /\ Stretch("compare") = 2
  /\ Stretch("storage") = 1 /\ Stretch("upload") = 1 /\ Stretch("list") = 1
  /\ Stretch("upload again") = 1 /\ Stretch("list again") = 1
  /\ Stretch("cosmos") = 1 /\ Stretch("tenants") = 1 /\ Stretch("round") = 1
  /\ Stretch("read") = 5 /\ Stretch("replace") = 6 /\ Stretch("exit") = 7 /\ Stretch("done") = 8
BY DEF Stretch

LEMMA Spots ==
  /\ Spot("storage") = 0 /\ Spot("upload") = 1 /\ Spot("list") = 2 /\ Spot("upload again") = 3
  /\ Spot("list again") = 4 /\ Spot("cosmos") = 5 /\ Spot("tenants") = 6 /\ Spot("round") = 7
  /\ Spot("login") = 0
BY DEF Spot

\* Each loop of an initialization agent ends, and the next one is a further one.
LEMMA InitAgentAdvances ==
  ASSUME ReportTypeOK, InitTypeOK, NEW a \in InitAgents, InitAgentStep(a)
  PROVE  Advances(a)
<1>a. a \in Agents /\ PartitionCount \in Nat
      BY PartitionCountAssumption DEF InitAgents, Agents
<1>b. part[a] \in Int /\ step[a] \in Int /\ i[a] \in Int /\ part[a] <= PartitionCount
  <2>1. part[a] \in 1 .. PartitionCount /\ step[a] \in 1 .. 4 /\ i[a] \in 0 .. 3
        BY DEF InitTypeOK, Index, MaxAttempts
  <2> QED BY <1>a, <2>1
<1>c. /\ Outer(a) = part[a] /\ Outer(a)' = part'[a] /\ Middle(a) = step[a] /\ Middle(a)' = step'[a]
      /\ Inner(a) = i[a] /\ Inner(a)' = i'[a]
      BY DEF Outer, Middle, Inner
<1>1. CASE FetchToken(a)
  <2>1. pc[a] = "token" /\ pc'[a] \in {"call", "read"}
        BY <1>1, <1>a DEF FetchToken, Goto, ReportTypeOK
  <2>2. Stretch(pc[a]) = 0 /\ (Stretch(pc'[a]) = 1 \/ Stretch(pc'[a]) = 5)
        BY <2>1, Stretches
  <2> QED BY <2>2 DEF Advances
<1>2. CASE CallAccepted(a) \/ CallRejected(a) \/ CallUnanswered(a) \/ CallUnauthorized(a)
  <2>1. /\ pc[a] = "call" /\ pc'[a] \in {"call", "endloop"}
        /\ i'[a] = i[a] + 1 /\ part' = part /\ step' = step
        BY <1>2, <1>a DEF CallAccepted, CallRejected, CallUnanswered, CallUnauthorized, Continue, Break,
           LoopFrame, Goto, ReportTypeOK, InitTypeOK
  <2>2. Stretch(pc'[a]) = Stretch(pc[a])
        BY <2>1, Stretches
  <2>3. Outer(a)' = Outer(a) /\ Middle(a)' = Middle(a) /\ Inner(a)' > Inner(a)
        BY <1>b, <1>c, <2>1
  <2> QED BY <2>2, <2>3 DEF Advances
<1>3. CASE EndLoop(a)
  <2>1. /\ pc[a] = "endloop"
        /\ \/ pc'[a] = "compare"
           \/ pc'[a] = "call" /\ part'[a] = part[a] + 1
           \/ pc'[a] = "call" /\ part'[a] = part[a] /\ step'[a] = step[a] + 1
    <3>1. part[a] <= PartitionCount
          BY <1>a DEF InitTypeOK, Index
    <3> QED BY <1>3, <1>a, <1>b, <3>1 DEF EndLoop, Goto, ReportTypeOK, InitTypeOK
  <2>2. CASE pc'[a] = "compare"
    <3>1. Stretch(pc[a]) = 1 /\ Stretch(pc'[a]) = 2
          BY <2>1, <2>2, Stretches
    <3> QED BY <3>1 DEF Advances
  <2>3. CASE pc'[a] = "call"
    <3>1. Stretch(pc'[a]) = Stretch(pc[a])
          BY <2>1, <2>3, Stretches
    <3>2. Outer(a)' > Outer(a) \/ (Outer(a)' = Outer(a) /\ Middle(a)' > Middle(a))
          BY <1>b, <1>c, <2>1, <2>3
    <3> QED BY <3>1, <3>2 DEF Advances
  <2> QED BY <2>1, <2>2, <2>3
<1>4. CASE CompareCounts(a)
  <2>1. pc[a] = "compare" /\ pc'[a] = "read"
        BY <1>4, <1>a DEF CompareCounts, Goto, ReportTypeOK
  <2>2. Stretch(pc[a]) = 2 /\ Stretch(pc'[a]) = 5
        BY <2>1, Stretches
  <2> QED BY <2>2 DEF Advances
<1> QED BY <1>1, <1>2, <1>3, <1>4 DEF InitAgentStep

\* A partition is seeded step by step, and a round that is repeated counts.
LEMMA SeedAdvances ==
  ASSUME ReportTypeOK, SeedTypeOK, SeedStep
  PROVE  Advances(s)
<1>a. s \in Agents /\ s \notin InitAgents /\ s # h
      BY DEF s, h, InitAgents, Agents
<1>b. loginAttemptCount \in Int /\ retryCount \in Int /\ index \in Int
  <2>1. loginAttemptCount \in 0 .. MaxRetry /\ retryCount \in 1 .. MaxRetry /\ index \in 1 .. SeedPartitions
        BY DEF SeedTypeOK, SeedIndex
  <2> QED BY <2>1, SeedAssumption
<1>c. /\ Outer(s) = (IF pc[s] = "login" THEN loginAttemptCount ELSE retryCount)
      /\ Outer(s)' = (IF pc'[s] = "login" THEN loginAttemptCount' ELSE retryCount')
      /\ Middle(s) = index /\ Middle(s)' = index' /\ Inner(s) = Spot(pc[s]) /\ Inner(s)' = Spot(pc'[s])
      BY <1>a DEF Outer, Middle, Inner
<1> USE DEF Goto, ReportTypeOK
<1>1. CASE LoginFails \/ LoginReturns
  <2>1. /\ pc[s] = "login" /\ pc'[s] \in {"login", "storage"}
        /\ loginAttemptCount' = loginAttemptCount + 1
        BY <1>1, <1>a DEF LoginFails, LoginReturns
  <2>2. CASE pc'[s] = "login"
    <3>1. Stretch(pc'[s]) = Stretch(pc[s])
          BY <2>1, <2>2
    <3>2. Outer(s)' > Outer(s)
          BY <1>b, <1>c, <2>1, <2>2
    <3> QED BY <3>1, <3>2 DEF Advances
  <2>3. CASE pc'[s] = "storage"
    <3>1. Stretch(pc[s]) = 0 /\ Stretch(pc'[s]) = 1
          BY <2>1, <2>3, Stretches
    <3> QED BY <3>1 DEF Advances
  <2> QED BY <2>1, <2>2, <2>3
<1>2. CASE FindStorage \/ UploadBlob \/ ListBlobs
  <2>1. /\ index' = index /\ retryCount' = retryCount
        /\ \/ pc[s] = "storage" /\ pc'[s] \in {"upload", "cosmos"}
           \/ pc[s] = "upload" /\ pc'[s] = "list"
           \/ pc[s] = "upload again" /\ pc'[s] = "list again"
           \/ pc[s] = "list" /\ pc'[s] \in {"upload again", "cosmos"}
           \/ pc[s] = "list again" /\ pc'[s] = "cosmos"
        BY <1>2, <1>a DEF FindStorage, UploadBlob, ListBlobs, RoundFrame
  <2>2. Stretch(pc'[s]) = Stretch(pc[s])
        BY <2>1, Stretches
  <2>3. \/ Spot(pc[s]) = 0 /\ (Spot(pc'[s]) = 1 \/ Spot(pc'[s]) = 5)
        \/ Spot(pc[s]) = 1 /\ Spot(pc'[s]) = 2
        \/ Spot(pc[s]) = 2 /\ (Spot(pc'[s]) = 3 \/ Spot(pc'[s]) = 5)
        \/ Spot(pc[s]) = 3 /\ Spot(pc'[s]) = 4
        \/ Spot(pc[s]) = 4 /\ Spot(pc'[s]) = 5
        BY <2>1, Spots
  <2>4. Outer(s)' = Outer(s) /\ Middle(s)' = Middle(s)
        BY <1>c, <2>1
  <2>5. Inner(s)' > Inner(s)
    <3>1. Spot(pc'[s]) > Spot(pc[s])
          BY <2>3
    <3> QED BY <1>c, <3>1
  <2> QED BY <2>2, <2>4, <2>5 DEF Advances
<1>3. CASE FindCosmos \/ UploadTenantInfo
  <2>1. /\ retryCount' = retryCount
        /\ pc[s] \in {"cosmos", "tenants"}
        /\ \/ pc'[s] = "storage" /\ index' = index + 1
           \/ pc'[s] = "round" /\ index' = index
           \/ pc[s] = "cosmos" /\ pc'[s] = "tenants" /\ index' = index
        BY <1>3, <1>a DEF FindCosmos, UploadTenantInfo, Advance, RoundFrame
  <2>2. Stretch(pc'[s]) = Stretch(pc[s]) /\ Outer(s)' = Outer(s)
        BY <1>c, <2>1, Stretches
  <2>3. CASE index' = index + 1
    <3>1. Middle(s)' > Middle(s)
          BY <1>b, <1>c, <2>3
    <3> QED BY <2>2, <3>1 DEF Advances
  <2>4. CASE index' = index /\ pc'[s] \in {"round", "tenants"} /\ pc'[s] # pc[s]
    <3>1. \/ Spot(pc[s]) = 5 /\ (Spot(pc'[s]) = 6 \/ Spot(pc'[s]) = 7)
          \/ Spot(pc[s]) = 6 /\ Spot(pc'[s]) = 7
          BY <2>1, <2>4, Spots
    <3>2. Middle(s)' = Middle(s) /\ Inner(s)' > Inner(s)
          BY <1>c, <2>4, <3>1
    <3> QED BY <2>2, <3>2 DEF Advances
  <2> QED BY <2>1, <2>3, <2>4
<1>4. CASE EndRound
  <2>1. /\ pc[s] = "round"
        /\ pc'[s] = "read" \/ (pc'[s] = "storage" /\ retryCount' = retryCount + 1)
        BY <1>4, <1>a DEF EndRound
  <2>2. CASE pc'[s] = "read"
    <3>1. Stretch(pc[s]) = 1 /\ Stretch(pc'[s]) = 5
          BY <2>1, <2>2, Stretches
    <3> QED BY <3>1 DEF Advances
  <2>3. CASE pc'[s] = "storage" /\ retryCount' = retryCount + 1
    <3>1. Stretch(pc'[s]) = Stretch(pc[s])
          BY <2>1, <2>3, Stretches
    <3>2. Outer(s)' > Outer(s)
          BY <1>b, <1>c, <2>1, <2>3
    <3> QED BY <3>1, <3>2 DEF Advances
  <2> QED BY <2>1, <2>2, <2>3
<1> QED BY <1>1, <1>2, <1>3, <1>4 DEF SeedStep

\* The helper agent goes straight on, but for its attempts to log in.
LEMMA TransferAdvances ==
  ASSUME ReportTypeOK, TransferTypeOK, TransferStep
  PROVE  Advances(h)
<1>a. h \in Agents /\ h \notin InitAgents
      BY DEF h, InitAgents, Agents
<1>b. Outer(h) = current_retry_count /\ Outer(h)' = current_retry_count'
      BY <1>a DEF Outer
<1>c. current_retry_count \in Int
  <2>1. current_retry_count \in 0 .. MaxRetryCount
        BY DEF TransferTypeOK
  <2> QED BY <2>1, TransferAssumption
<1>1. \/ pc[h] = "clone" /\ pc'[h] = "az login"
      \/ pc[h] = "az login" /\ pc'[h] = "conversion"
      \/ pc[h] = "az login" /\ pc'[h] = "az login" /\ current_retry_count' = current_retry_count + 1
      \/ pc[h] = "conversion" /\ pc'[h] = "catalog"
      \/ pc[h] = "catalog" /\ pc'[h] = "unit"
      \/ pc[h] = "unit" /\ pc'[h] = "read"
      BY <1>a DEF TransferStep, CloneRepositories, TransferLogin, CopyConversion, CopyCatalog, CopyUnit,
         Upload, Goto, ReportTypeOK
<1>2. CASE pc'[h] = pc[h] /\ current_retry_count' = current_retry_count + 1
  <2>1. Outer(h)' > Outer(h)
        BY <1>b, <1>c, <1>2
  <2> QED BY <1>2, <2>1 DEF Advances
<1>3. CASE pc'[h] # pc[h]
  <2>1. \/ Stretch(pc[h]) = 0 /\ Stretch(pc'[h]) = 1
        \/ Stretch(pc[h]) = 1 /\ Stretch(pc'[h]) = 2
        \/ Stretch(pc[h]) = 2 /\ Stretch(pc'[h]) = 3
        \/ Stretch(pc[h]) = 3 /\ Stretch(pc'[h]) = 4
        \/ Stretch(pc[h]) = 4 /\ Stretch(pc'[h]) = 5
        BY <1>1, <1>3, Stretches
  <2> QED BY <2>1 DEF Advances
<1> QED BY <1>1, <1>2, <1>3

\* The report follows the work, step by step.
LEMMA ReportAdvances ==
  ASSUME ReportTypeOK, NEW a \in Agents, ReportStep(a)
  PROVE  Advances(a)
<1>1. \/ pc[a] = "read" /\ pc'[a] = "replace"
      \/ pc[a] = "replace" /\ pc'[a] = "exit"
      \/ pc[a] = "exit" /\ pc'[a] = "done"
      BY DEF ReportStep, ReadConfigMap, ReplaceConfigMap, Cleanup, Goto, ReportTypeOK
<1>2. \/ Stretch(pc[a]) = 5 /\ Stretch(pc'[a]) = 6
      \/ Stretch(pc[a]) = 6 /\ Stretch(pc'[a]) = 7
      \/ Stretch(pc[a]) = 7 /\ Stretch(pc'[a]) = 8
      BY <1>1, Stretches
<1> QED BY <1>2 DEF Advances

\* No agent is moved by another one.
LEMMA OthersStay ==
  ASSUME TypeOK, NEW a \in Agents, NEW b \in Agents \ {a},
         WorkStep(a) \/ (ReportStep(a) /\ UNCHANGED <<initVars, seedVars, transferVars>>)
  PROVE  Stays(b)
<1>t. ReportTypeOK /\ InitTypeOK
      BY DEF TypeOK
<1>1. pc'[b] = pc[b]
  <2>1. CASE WorkStep(a)
        BY <1>t, <2>1, WorkLeavesMap DEF LeavesMap
  <2>2. CASE ReportStep(a)
        BY <1>t, <2>2 DEF ReportStep, ReadConfigMap, ReplaceConfigMap, Cleanup, Goto, ReportTypeOK
  <2> QED BY <2>1, <2>2
<1>2. CASE b \in InitAgents
  <2>1. part'[b] = part[b] /\ step'[b] = step[b] /\ i'[b] = i[b]
    <3>1. CASE a \in InitAgents /\ InitAgentStep(a)
      <4>1. Idle(b)
            BY <1>t, <1>2, <3>1, OtherAgentIdles
      <4> QED BY <4>1 DEF Idle
    <3>2. CASE ~(a \in InitAgents /\ InitAgentStep(a))
      <4>1. UNCHANGED initVars
            BY <3>2 DEF WorkStep
      <4> QED BY <4>1 DEF initVars
    <3> QED BY <3>1, <3>2
  <2>2. b # s /\ b # h
        BY <1>2 DEF s, h, InitAgents
  <2> QED BY <1>1, <1>2, <2>1, <2>2 DEF Stays, Outer, Middle, Inner
<1>3. CASE b \notin InitAgents
  <2>1. /\ b = s => UNCHANGED <<loginAttemptCount, retryCount, index>>
        /\ b = h => UNCHANGED current_retry_count
        /\ b = s \/ b = h
        BY <1>3 DEF WorkStep, seedVars, transferVars, s, h, Agents, InitAgents
  <2>2. s # h
        BY DEF s, h
  <2> QED BY <1>1, <1>3, <2>1, <2>2 DEF Stays, Outer, Middle, Inner
<1> QED BY <1>2, <1>3

\* Every step brings one agent further and moves no other; and as every place has its
\* bounds (AgentsTypeCorrect), no agent goes round for ever, whatever the services answer.
THEOREM AgentsMoveOn ==
  Spec => [][\E a \in Agents : Advances(a) /\ \A b \in Agents \ {a} : Stays(b)]_vars
<1>1. ASSUME TypeOK, [Next]_vars, vars' # vars
      PROVE  \E a \in Agents : Advances(a) /\ \A b \in Agents \ {a} : Stays(b)
  <2>t. ReportTypeOK /\ InitTypeOK /\ SeedTypeOK /\ TransferTypeOK
        BY <1>1 DEF TypeOK
  <2>1. PICK a \in Agents : WorkStep(a) \/ (ReportStep(a) /\ UNCHANGED <<initVars, seedVars, transferVars>>)
        BY <1>1, StepOfAgent
  <2>2. Advances(a)
        BY <2>t, <2>1, InitAgentAdvances, SeedAdvances, TransferAdvances, ReportAdvances DEF WorkStep, s, h
  <2>3. \A b \in Agents \ {a} : Stays(b)
        BY <1>1, <2>1, OthersStay
  <2> QED BY <2>2, <2>3
<1>2. TypeOK /\ [Next]_vars => [\E a \in Agents : Advances(a) /\ \A b \in Agents \ {a} : Stays(b)]_vars
      BY <1>1
<1> QED BY <1>2, AgentsTypeCorrect, PTL DEF Spec
=============================================================================
