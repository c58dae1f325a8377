---------------------------- MODULE CertRotation ----------------------------
(***************************************************************************)
(* The certificate jobs of charts/osdu-istio: the one-off cert-init job    *)
(* and the hourly cert-checker.  They bring together the certificate of    *)
(* Key Vault, the secret of the istio ingress gateway and the certificate  *)
(* of the application gateway, by commands that may fail one by one.       *)
(*                                                                         *)
(* With enableIstioKeyvaultCert the vault is the source; without it the    *)
(* source is the secret cert-manager renews in the osdu namespace, and the *)
(* application gateway follows the vault by itself.  The scripts run under *)
(* set -e without pipefail.  A file that is empty has today's date, on     *)
(* which no certificate of the model expires.                              *)
(***************************************************************************)
EXTENDS Naturals, Sequences

CONSTANTS
  MaxCerts,      \* bound on the certificates ever issued
  MaxFailures    \* bound on the commands that fail

ASSUME BoundsAssumption == MaxCerts \in Nat /\ MaxCerts >= 2 /\ MaxFailures \in Nat

Jobs   == {"init", "checker"}
NoCert == 0

VARIABLES
  mode,       \* "keyvault" or "certmanager"
  day,        \* the expiry day of each certificate issued so far
  vault,      \* certificate in Key Vault
  source,     \* certificate (and key) cert-manager keeps in the osdu namespace
  secret,     \* [crt, key] of the gateway's secret in istio-system
  gateway,    \* certificate of the application gateway
  pc,         \* the next command of each job's pod, or how the pod ended
  file,       \* the files in the pod: what it has read
  overtaken,  \* history: the other job has stored something since this one fetched
  failures

vars == <<mode, day, vault, source, secret, gateway, pc, file, overtaken, failures>>
stores == <<mode, day, vault, source, secret, gateway>>

Day(c) == IF c = NoCert THEN 0 ELSE day[c]
NoFiles == [vault |-> NoCert, secret |-> NoCert, gateway |-> NoCert, crt |-> NoCert, key |-> NoCert]

\* terraform creates the vault's first certificate, cert-manager its own
Init ==
  /\ mode \in {"keyvault", "certmanager"}
  /\ day = <<1, 2>>
  /\ vault = 1
  /\ source = 2
  /\ secret = [crt |-> NoCert, key |-> NoCert]
  /\ gateway = IF mode = "keyvault" THEN NoCert ELSE 1
  /\ pc = [init |-> "fetch", checker |-> "waiting"]
  /\ file = [j \in Jobs |-> NoFiles]
  /\ overtaken = [j \in Jobs |-> FALSE]
  /\ failures = 0

-----------------------------------------------------------------------------
(* the surroundings *)

\* the customer uploads a new version, or cert-manager renews; the new certificate
\* may expire on the same day
Issue ==
  /\ Len(day) < MaxCerts
  /\ \E d \in {0, 1} : day' = Append(day, day[Len(day)] + d)
  /\ IF mode = "keyvault"
       THEN vault' = Len(day) + 1 /\ UNCHANGED source
       ELSE source' = Len(day) + 1 /\ UNCHANGED vault
  /\ UNCHANGED <<mode, secret, gateway, pc, file, overtaken, failures>>

GatewayFollowsVault ==
  /\ mode = "certmanager"
  /\ gateway' = vault
  /\ UNCHANGED <<mode, day, vault, source, secret, pc, file, overtaken, failures>>

-----------------------------------------------------------------------------
(* the pods *)

Goto(j, next) == pc' = [pc EXCEPT ![j] = next]

\* the hourly schedule, or the retry of a failed pod; a new pod has no files
StartPod(j) ==
  /\ \/ j = "checker" /\ pc[j] = "waiting" /\ Goto(j, "readVault")
     \/ j = "checker" /\ pc[j] \in {"failed", "cannotUpdate", "upToDate"} /\ Goto(j, "readVault")
     \/ j = "init" /\ pc[j] = "failed" /\ Goto(j, "fetch")
  /\ file' = [file EXCEPT ![j] = NoFiles]
  /\ UNCHANGED <<stores, overtaken, failures>>

Commands == {"readVault", "readSecret", "readGateway", "fetch", "fetchKey",
             "upload", "apply", "restart", "export", "import",
             "rereadVault", "rereadSecret", "rereadGateway"}

\* set -e: a command that fails on its own, or as the last of a pipe, ends the pod
CommandFails(j) ==
  /\ pc[j] \in Commands
  /\ failures < MaxFailures
  /\ failures' = failures + 1
  /\ Goto(j, "failed")
  /\ UNCHANGED <<stores, file, overtaken>>

\* check_expire_date, first and second time: three reads, then the comparison
ReadVault(j) ==
  /\ pc[j] \in {"readVault", "rereadVault"}
  /\ file' = [file EXCEPT ![j].vault = vault]
  /\ Goto(j, IF pc[j] = "readVault" THEN "readSecret" ELSE "rereadSecret")
  /\ UNCHANGED <<stores, overtaken, failures>>

SecretRead(j, c) ==
  /\ pc[j] \in {"readSecret", "rereadSecret"}
  /\ file' = [file EXCEPT ![j].secret = c]
  /\ Goto(j, IF pc[j] = "readSecret" THEN "readGateway" ELSE "rereadGateway")
  /\ UNCHANGED <<stores, overtaken>>

ReadSecret(j) == SecretRead(j, secret.crt) /\ UNCHANGED failures

GatewayHasNoCert(j) ==
  /\ pc[j] \in {"readGateway", "rereadGateway"}
  /\ gateway = NoCert
  /\ Goto(j, "failed")
  /\ UNCHANGED <<stores, file, overtaken, failures>>

DatesAgree(f) == Day(f.vault) = Day(f.secret) /\ Day(f.secret) = Day(f.gateway)

\* mutant: the gateway's certificate is left out of the comparison
CompareVaultAndSecret(j) ==
  LET first == pc[j] = "readGateway"
      f     == [file[j] EXCEPT !.gateway = IF @ = NoCert THEN gateway ELSE @] IN
  /\ pc[j] \in {"readGateway", "rereadGateway"}
  /\ gateway # NoCert
  /\ file' = [file EXCEPT ![j] = f]
  /\ Goto(j, IF Day(f.vault) = Day(f.secret) THEN "upToDate"
             ELSE IF first THEN "fetch" ELSE "cannotUpdate")
  /\ UNCHANGED <<stores, overtaken, failures>>

\* public.cert is appended to, and openssl prints the first block of it: the
\* second time, the gateway's certificate is the one read the first time
ReadGatewayAndCompare(j) ==
  LET first == pc[j] = "readGateway"
      f     == [file[j] EXCEPT !.gateway = IF @ = NoCert THEN gateway ELSE @] IN
  /\ pc[j] \in {"readGateway", "rereadGateway"}
  /\ gateway # NoCert
  /\ file' = [file EXCEPT ![j] = f]
  /\ Goto(j, IF DatesAgree(f) THEN "upToDate"
             ELSE IF first THEN "fetch" ELSE "cannotUpdate")
  /\ UNCHANGED <<stores, overtaken, failures>>

\* mutant: the certificate downloaded for the comparison is used again
FetchCheckedCert(j) ==
  LET c == IF file[j].vault = NoCert THEN vault ELSE file[j].vault IN
  /\ mode = "keyvault" /\ pc[j] = "fetch"
  /\ file' = [file EXCEPT ![j].crt = c, ![j].key = c]
  /\ overtaken' = [overtaken EXCEPT ![j] = FALSE]
  /\ Goto(j, "upload")
  /\ UNCHANGED <<stores, failures>>

\* the vault's secret holds certificate and key; cert-manager's is read twice
FetchFromVault(j) ==
  /\ mode = "keyvault" /\ pc[j] = "fetch"
  /\ file' = [file EXCEPT ![j].crt = vault, ![j].key = vault]
  /\ overtaken' = [overtaken EXCEPT ![j] = FALSE]
  /\ Goto(j, "upload")
  /\ UNCHANGED <<stores, failures>>

CertRead(j, c) ==
  /\ mode = "certmanager" /\ pc[j] = "fetch"
  /\ file' = [file EXCEPT ![j].crt = c]
  /\ overtaken' = [overtaken EXCEPT ![j] = FALSE]
  /\ Goto(j, "fetchKey")
  /\ UNCHANGED stores

FetchCert(j) == CertRead(j, source) /\ UNCHANGED failures

KeyRead(j, c) ==
  /\ pc[j] = "fetchKey"
  /\ file' = [file EXCEPT ![j].key = c]
  /\ Goto(j, "apply")
  /\ UNCHANGED <<stores, overtaken>>

FetchKey(j) == KeyRead(j, source) /\ UNCHANGED failures

\* a kubectl get piped to base64 that fails leaves an empty file, and the script goes on
PipedReadFails(j) ==
  /\ failures < MaxFailures
  /\ failures' = failures + 1
  /\ SecretRead(j, NoCert) \/ CertRead(j, NoCert) \/ KeyRead(j, NoCert)

Overtakes(j) == overtaken' = [k \in Jobs |-> overtaken[k] \/ k # j]

\* ssl-cert update (checker) or create (init)
UploadToGateway(j) ==
  /\ pc[j] = "upload"
  /\ gateway' = file[j].crt
  /\ Overtakes(j)
  /\ Goto(j, "apply")
  /\ UNCHANGED <<mode, day, vault, source, secret, file, failures>>

AfterUpdate(j) == IF j = "init" THEN "finished" ELSE "rereadVault"

ApplySecret(j) ==
  /\ pc[j] = "apply"
  /\ secret' = [crt |-> file[j].crt, key |-> file[j].key]
  /\ Overtakes(j)
  /\ Goto(j, IF mode = "keyvault" THEN "restart" ELSE "export")
  /\ UNCHANGED <<mode, day, vault, source, gateway, file, failures>>

\* in keyvault mode the ingress gateway's pods are restarted
RestartGateway(j) ==
  /\ pc[j] = "restart"
  /\ Goto(j, AfterUpdate(j))
  /\ UNCHANGED <<stores, file, overtaken, failures>>

\* openssl pkcs12 refuses empty files, and a certificate and a key that do not match
ExportPfx(j) ==
  /\ pc[j] = "export"
  /\ Goto(j, IF file[j].crt = file[j].key /\ file[j].crt # NoCert THEN "import" ELSE "failed")
  /\ UNCHANGED <<stores, file, overtaken, failures>>

ImportIntoVault(j) ==
  /\ pc[j] = "import"
  /\ vault' = file[j].crt
  /\ Overtakes(j)
  /\ Goto(j, AfterUpdate(j))
  /\ UNCHANGED <<mode, day, source, secret, gateway, file, failures>>

PodStep(j) ==
  \/ StartPod(j)
  \/ ReadVault(j)
  \/ ReadSecret(j)
  \/ GatewayHasNoCert(j)
  \/ ReadGatewayAndCompare(j)
  \/ FetchFromVault(j)
  \/ FetchCert(j)
  \/ FetchKey(j)
  \/ UploadToGateway(j)
  \/ ApplySecret(j)
  \/ RestartGateway(j)
  \/ ExportPfx(j)
  \/ ImportIntoVault(j)

Next ==
  \/ Issue
  \/ GatewayFollowsVault
  \/ \E j \in Jobs : PodStep(j) \/ CommandFails(j) \/ PipedReadFails(j)

\* the schedule starts the checker every hour, Kubernetes retries the pods, and the
\* gateway polls the vault; certificates and failures come as they like
Spec ==
  /\ Init /\ [][Next]_vars
  /\ WF_vars(GatewayFollowsVault)
  /\ \A j \in Jobs : WF_vars(PodStep(j))

-----------------------------------------------------------------------------
(* properties *)

Certs == NoCert .. MaxCerts
Ends  == {"waiting", "failed", "upToDate", "cannotUpdate", "finished"}

\* Every variable has its type.
TypeOK ==
  /\ mode \in {"keyvault", "certmanager"}
  /\ day \in Seq(1 .. MaxCerts + 2) /\ Len(day) \in 2 .. MaxCerts
  /\ {vault, source, gateway} \subseteq 0 .. Len(day)
  /\ secret \in [crt : 0 .. Len(day), key : 0 .. Len(day)]
  /\ pc \in [Jobs -> Commands \cup Ends]
  /\ LET C == 0 .. Len(day) IN file \in [Jobs -> [vault : C, secret : C, gateway : C, crt : C, key : C]]
  /\ overtaken \in [Jobs -> BOOLEAN]
  /\ failures \in 0 .. MaxFailures

\* When certificates stop changing and commands stop failing, the three places
\* end up with certificates of one expiry day, from whatever mixture a pod that was
\* cut off, an empty file, the other job or a renewal in between has left.
PlacesConverge ==
  <>[](Day(vault) = Day(secret.crt) /\ Day(gateway) = Day(vault))

\* A store of a pod puts an older certificate in the place of a newer one only when the
\* other job's pod has stored something since it fetched: one job alone never goes
\* back, whatever is renewed while it runs and wherever it is cut off and tried again.
\* The ingress gateway's secret may also lose its certificate to a read that failed, and
\* with cert-manager the application gateway follows the vault.
NothingSetBack ==
  /\ vault' >= vault
  /\ secret'.crt >= secret.crt \/ secret'.crt = NoCert
  /\ mode = "keyvault" => gateway' >= gateway
StepOfOvertaken == \E j \in Jobs : overtaken[j] /\ pc'[j] # pc[j]
OnlyOverlapSetsBack == [][NothingSetBack \/ StepOfOvertaken]_vars

\* "Check certificate expire date one more time", then "Cannot update cert in
\* secret": said only when the places differ.
CannotUpdateIsTrue ==
  pc["checker"] = "cannotUpdate" /\ mode = "keyvault" =>
    ~ (Day(vault) = Day(secret.crt) /\ Day(gateway) = Day(vault))
=============================================================================
