----------------------------- MODULE CertProofs -----------------------------
(***************************************************************************)
(* Proofs about the certificate jobs, for any number of certificates and   *)
(* of commands that fail: the types, which pairs of certificate and key    *)
(* come to the gateway's secret, and that one job alone never goes back to *)
(* an older certificate.                                                   *)
(***************************************************************************)
EXTENDS CertRotation, TLAPS

\* A certificate expires by the day of its number.
DaysBounded == \A n \in 1 .. Len(day) : day[n] <= n

\* From the vault both files come by one command; from cert-manager by two.
FilesAreOfOneFetch ==
  mode = "keyvault" =>
    /\ \A j \in Jobs : file[j].crt = file[j].key /\ pc[j] # "fetchKey"
    /\ secret.crt = secret.key

CertInv == TypeOK /\ DaysBounded /\ FilesAreOfOneFetch

\* a step of a job, whether its command succeeds or not
JobStep(j) == PodStep(j) \/ CommandFails(j) \/ PipedReadFails(j)

LEMMA CertInitial == Init => CertInv
<1> SUFFICES ASSUME Init PROVE CertInv
    OBVIOUS
<1>1. day \in Seq(1 .. MaxCerts + 2) /\ Len(day) = 2 /\ day[1] = 1 /\ day[2] = 2
  <2>1. day = <<1, 2>> /\ 1 \in 1 .. MaxCerts + 2 /\ 2 \in 1 .. MaxCerts + 2
        BY BoundsAssumption DEF Init
  <2> QED BY <2>1
<1>2. NoCert \in 0 .. Len(day) /\ 1 \in 0 .. Len(day) /\ 2 \in 0 .. Len(day) /\ Len(day) \in 2 .. MaxCerts
      BY <1>1, BoundsAssumption DEF NoCert
<1>3. NoFiles \in [vault : 0 .. Len(day), secret : 0 .. Len(day), gateway : 0 .. Len(day),
                   crt : 0 .. Len(day), key : 0 .. Len(day)]
      BY <1>2 DEF NoFiles
<1>4. pc \in [Jobs -> Commands \cup Ends] /\ \A j \in Jobs : pc[j] # "fetchKey"
      BY DEF Init, Jobs, Commands, Ends
<1>5. TypeOK
      BY <1>1, <1>2, <1>3, <1>4, BoundsAssumption DEF TypeOK, Init
<1>6. DaysBounded
      BY <1>1 DEF DaysBounded
<1>7. FilesAreOfOneFetch
      BY <1>4 DEF FilesAreOfOneFetch, Init, NoFiles
<1> QED BY <1>5, <1>6, <1>7 DEF CertInv

\* What a step of a pod leaves alone.
LEMMA OtherPodRests ==
  ASSUME TypeOK, NEW j \in Jobs, JobStep(j)
  PROVE  /\ UNCHANGED <<mode, day, source>>
         /\ \A k \in Jobs \ {j} : pc'[k] = pc[k] /\ file'[k] = file[k]
<1> USE DEF TypeOK, JobStep, PodStep, StartPod, ReadVault, ReadSecret, GatewayHasNoCert, ReadGatewayAndCompare,
        FetchFromVault, FetchCert, FetchKey, UploadToGateway, ApplySecret, RestartGateway, ExportPfx,
        ImportIntoVault, CommandFails, PipedReadFails, SecretRead, CertRead, KeyRead, Goto
<1>1. UNCHANGED <<mode, day, source>>
      BY DEF stores
<1>2. \A k \in Jobs \ {j} : pc'[k] = pc[k]
      OBVIOUS
<1>3. \A k \in Jobs \ {j} : file'[k] = file[k]
      OBVIOUS
<1> QED BY <1>1, <1>2, <1>3

\* What becomes of a pod's files: a step leaves them alone or puts one read into them.
LEMMA FilesAfter ==
  ASSUME TypeOK, NEW j \in Jobs, JobStep(j)
  PROVE  \/ UNCHANGED file
         \/ file' = [file EXCEPT ![j] = NoFiles] /\ StartPod(j)
         \/ \E c \in 0 .. Len(day) :
              \/ file' = [file EXCEPT ![j].vault = c]
              \/ file' = [file EXCEPT ![j].secret = c]
              \/ file' = [file EXCEPT ![j].gateway = c]
              \/ /\ file' = [file EXCEPT ![j].crt = c, ![j].key = c]
                 /\ mode = "keyvault" /\ c = vault /\ FetchFromVault(j)
              \/ /\ file' = [file EXCEPT ![j].crt = c]
                 /\ mode = "certmanager" /\ c \in {source, NoCert} /\ CertRead(j, c)
              \/ file' = [file EXCEPT ![j].key = c] /\ KeyRead(j, c)
<1> DEFINE C == 0 .. Len(day)
<1>a. vault \in C /\ source \in C /\ gateway \in C /\ secret.crt \in C /\ NoCert \in C /\ file[j].gateway \in C
      BY DEF TypeOK, NoCert
<1>1. CASE StartPod(j)
      BY <1>1 DEF StartPod
<1>2. CASE ReadVault(j)
      BY <1>a, <1>2 DEF ReadVault
<1>3. CASE \E c \in {secret.crt, NoCert} : SecretRead(j, c)
      BY <1>a, <1>3 DEF SecretRead
<1>4. CASE ReadGatewayAndCompare(j)
  <2> DEFINE g == IF file[j].gateway = NoCert THEN gateway ELSE file[j].gateway
  <2>1. file' = [file EXCEPT ![j].gateway = g]
        BY <1>4 DEF ReadGatewayAndCompare, TypeOK
  <2> QED BY <1>a, <2>1
<1>5. CASE FetchFromVault(j)
      BY <1>a, <1>5 DEF FetchFromVault
<1>6. CASE \E c \in {source, NoCert} : CertRead(j, c)
      BY <1>a, <1>6 DEF CertRead
<1>7. CASE \E c \in {source, NoCert} : KeyRead(j, c)
      BY <1>a, <1>7 DEF KeyRead
<1>8. CASE \/ GatewayHasNoCert(j) \/ UploadToGateway(j) \/ ApplySecret(j) \/ RestartGateway(j)
            \/ ExportPfx(j) \/ ImportIntoVault(j) \/ CommandFails(j)
      BY <1>8 DEF GatewayHasNoCert, UploadToGateway, ApplySecret, RestartGateway, ExportPfx, ImportIntoVault,
         CommandFails
<1> QED BY <1>1, <1>2, <1>3, <1>4, <1>5, <1>6, <1>7, <1>8
        DEF JobStep, PodStep, PipedReadFails, ReadSecret, FetchCert, FetchKey

\* A step of a pod keeps the types: what it stores and reads was issued.
LEMMA PodKeepsType ==
  ASSUME TypeOK, NEW j \in Jobs, JobStep(j)
  PROVE  TypeOK'
<1> DEFINE C == 0 .. Len(day)
           F == [vault : C, secret : C, gateway : C, crt : C, key : C]
<1>a. UNCHANGED <<mode, day, source>>
      BY OtherPodRests
<1>b. file[j] \in F /\ NoFiles \in F /\ vault \in C /\ gateway \in C /\ source \in C
      BY DEF TypeOK, NoFiles, NoCert
<1>1. pc' \in [Jobs -> Commands \cup Ends]
  <2>1. \E next \in Commands \cup Ends : Goto(j, next) \/ UNCHANGED pc
        BY DEF JobStep, PodStep, StartPod, ReadVault, ReadSecret, GatewayHasNoCert, ReadGatewayAndCompare,
           FetchFromVault, FetchCert, FetchKey, UploadToGateway, ApplySecret, RestartGateway, ExportPfx,
           ImportIntoVault, AfterUpdate, CommandFails, PipedReadFails, SecretRead, CertRead, KeyRead,
           Commands, Ends
  <2> QED BY <2>1 DEF Goto, TypeOK
<1>2. file' \in [Jobs -> F]
  <2>1. file \in [Jobs -> F]
        BY DEF TypeOK
  <2>2. CASE UNCHANGED file
        BY <2>1, <2>2
  <2>3. ASSUME NEW f \in F, file' = [file EXCEPT ![j] = f]
        PROVE  file' \in [Jobs -> F]
        BY <2>1, <2>3
  <2>4. ASSUME NEW c \in C
        PROVE  /\ [file[j] EXCEPT !.vault = c] \in F /\ [file[j] EXCEPT !.secret = c] \in F
               /\ [file[j] EXCEPT !.gateway = c] \in F /\ [file[j] EXCEPT !.crt = c] \in F
               /\ [file[j] EXCEPT !.key = c] \in F /\ [file[j] EXCEPT !.crt = c, !.key = c] \in F
        BY <1>b
  <2>5. ASSUME NEW c \in C, \/ file' = [file EXCEPT ![j].vault = c]
                           \/ file' = [file EXCEPT ![j].secret = c]
                           \/ file' = [file EXCEPT ![j].gateway = c]
                           \/ file' = [file EXCEPT ![j].crt = c, ![j].key = c]
                           \/ file' = [file EXCEPT ![j].crt = c]
                           \/ file' = [file EXCEPT ![j].key = c]
        PROVE  file' \in [Jobs -> F]
    <3> HIDE DEF C, F
    <3>1. /\ [file[j] EXCEPT !.vault = c] \in F /\ [file[j] EXCEPT !.secret = c] \in F
          /\ [file[j] EXCEPT !.gateway = c] \in F /\ [file[j] EXCEPT !.crt = c] \in F
          /\ [file[j] EXCEPT !.key = c] \in F /\ [file[j] EXCEPT !.crt = c, !.key = c] \in F
          BY <2>4
    <3> QED BY <2>1, <2>5, <3>1
  <2>6. CASE file' = [file EXCEPT ![j] = NoFiles]
        BY <1>b, <2>3, <2>6
  <2>7. \/ UNCHANGED file
        \/ file' = [file EXCEPT ![j] = NoFiles]
        \/ \E c \in C : \/ file' = [file EXCEPT ![j].vault = c]
                        \/ file' = [file EXCEPT ![j].secret = c]
                        \/ file' = [file EXCEPT ![j].gateway = c]
                        \/ file' = [file EXCEPT ![j].crt = c, ![j].key = c]
                        \/ file' = [file EXCEPT ![j].crt = c]
                        \/ file' = [file EXCEPT ![j].key = c]
        BY FilesAfter, Zenon
  <2> QED BY <2>2, <2>5, <2>6, <2>7
<1>3. secret' \in [crt : C, key : C]
  <2>1. CASE ApplySecret(j)
        BY <1>b, <2>1 DEF ApplySecret
  <2>2. CASE ~ ApplySecret(j)
        BY <2>2 DEF TypeOK, JobStep, PodStep, StartPod, ReadVault, ReadSecret, GatewayHasNoCert,
           ReadGatewayAndCompare, FetchFromVault, FetchCert, FetchKey, UploadToGateway, RestartGateway, ExportPfx,
           ImportIntoVault, CommandFails, PipedReadFails, SecretRead, CertRead, KeyRead, stores
  <2> QED BY <2>1, <2>2
<1>4. vault' \in C /\ gateway' \in C
  <2>1. CASE UploadToGateway(j) \/ ImportIntoVault(j)
        BY <1>b, <2>1 DEF UploadToGateway, ImportIntoVault
  <2>2. CASE ~ (UploadToGateway(j) \/ ImportIntoVault(j))
        BY <1>b, <2>2 DEF JobStep, PodStep, StartPod, ReadVault, ReadSecret, GatewayHasNoCert,
           ReadGatewayAndCompare, FetchFromVault, FetchCert, FetchKey, ApplySecret, RestartGateway, ExportPfx,
           CommandFails, PipedReadFails, SecretRead, CertRead, KeyRead, stores
  <2> QED BY <2>1, <2>2
<1>5. failures' \in 0 .. MaxFailures
  <2>1. CASE CommandFails(j) \/ PipedReadFails(j)
        BY <2>1, BoundsAssumption DEF CommandFails, PipedReadFails, TypeOK
  <2>2. CASE PodStep(j)
        BY <2>2 DEF TypeOK, PodStep, StartPod, ReadVault, ReadSecret, GatewayHasNoCert, ReadGatewayAndCompare,
           FetchFromVault, FetchCert, FetchKey, UploadToGateway, ApplySecret, RestartGateway, ExportPfx,
           ImportIntoVault
  <2> QED BY <2>1, <2>2 DEF JobStep
<1>6. overtaken' \in [Jobs -> BOOLEAN]
  <2>1. CASE UNCHANGED overtaken \/ overtaken' = [overtaken EXCEPT ![j] = FALSE]
        BY <2>1 DEF TypeOK
  <2>2. CASE Overtakes(j)
        BY <2>2 DEF TypeOK, Overtakes
  <2> QED BY <2>1, <2>2 DEF JobStep, PodStep, StartPod, ReadVault, ReadSecret, GatewayHasNoCert,
           ReadGatewayAndCompare, FetchFromVault, FetchCert, FetchKey, UploadToGateway, ApplySecret,
           RestartGateway, ExportPfx, ImportIntoVault, CommandFails, PipedReadFails, SecretRead, CertRead, KeyRead
<1> QED BY <1>a, <1>b, <1>1, <1>2, <1>3, <1>4, <1>5, <1>6 DEF TypeOK

LEMMA PodKeepsPairs ==
  ASSUME TypeOK, FilesAreOfOneFetch, NEW j \in Jobs, JobStep(j)
  PROVE  FilesAreOfOneFetch'
<1>a. /\ UNCHANGED mode
      /\ \A k \in Jobs \ {j} : pc'[k] = pc[k] /\ file'[k] = file[k]
      BY OtherPodRests
<1>b. /\ pc \in [Jobs -> Commands \cup Ends] /\ file \in [Jobs -> [vault : 0 .. Len(day), secret : 0 .. Len(day),
           gateway : 0 .. Len(day), crt : 0 .. Len(day), key : 0 .. Len(day)]]
      BY DEF TypeOK
<1>2. ASSUME mode = "keyvault"
      PROVE  file'[j].crt = file'[j].key /\ pc'[j] # "fetchKey" /\ secret'.crt = secret'.key
  <2>1. file[j].crt = file[j].key /\ pc[j] # "fetchKey" /\ secret.crt = secret.key
        BY <1>2 DEF FilesAreOfOneFetch
  <2>2. pc'[j] # "fetchKey"
        BY <1>2, <1>b, <2>1 DEF JobStep, PodStep, StartPod, ReadVault, ReadSecret, GatewayHasNoCert,
           ReadGatewayAndCompare, FetchFromVault, FetchCert, FetchKey, UploadToGateway, ApplySecret,
           RestartGateway, ExportPfx, ImportIntoVault, AfterUpdate, CommandFails, PipedReadFails, SecretRead,
           CertRead, KeyRead, Goto, Commands
  <2>3. secret'.crt = secret'.key
        BY <2>1 DEF JobStep, PodStep, StartPod, ReadVault, ReadSecret, GatewayHasNoCert,
           ReadGatewayAndCompare, FetchFromVault, FetchCert, FetchKey, UploadToGateway, ApplySecret,
           RestartGateway, ExportPfx, ImportIntoVault, CommandFails, PipedReadFails, SecretRead, CertRead,
           KeyRead, stores
  <2>4. file'[j].crt = file'[j].key
    <3>1. ASSUME NEW c, \/ file' = [file EXCEPT ![j].vault = c]
                        \/ file' = [file EXCEPT ![j].secret = c]
                        \/ file' = [file EXCEPT ![j].gateway = c]
                        \/ file' = [file EXCEPT ![j].crt = c, ![j].key = c]
          PROVE  file'[j].crt = file'[j].key
      <4>1. /\ file[j] \in [vault : 0 .. Len(day), secret : 0 .. Len(day), gateway : 0 .. Len(day),
                             crt : 0 .. Len(day), key : 0 .. Len(day)]
            /\ j \in DOMAIN file
            BY <1>b
      <4>2. \/ file'[j] = [file[j] EXCEPT !.vault = c]
            \/ file'[j] = [file[j] EXCEPT !.secret = c]
            \/ file'[j] = [file[j] EXCEPT !.gateway = c]
            \/ file'[j] = [file[j] EXCEPT !.crt = c, !.key = c]
            BY <3>1, <4>1
      <4> QED BY <2>1, <4>1, <4>2
    <3>2. CASE file' = [file EXCEPT ![j] = NoFiles]
          BY <1>b, <3>2 DEF NoFiles
    <3>3. \A c : ~ CertRead(j, c) /\ ~ KeyRead(j, c)
          BY <1>2, <2>1 DEF CertRead, KeyRead
    <3>4. \/ UNCHANGED file
          \/ file' = [file EXCEPT ![j] = NoFiles]
          \/ \E c : \/ file' = [file EXCEPT ![j].vault = c]
                   \/ file' = [file EXCEPT ![j].secret = c]
                   \/ file' = [file EXCEPT ![j].gateway = c]
                   \/ file' = [file EXCEPT ![j].crt = c, ![j].key = c]
          BY <3>3, FilesAfter, Zenon
    <3> QED BY <2>1, <3>1, <3>2, <3>4
  <2> QED BY <2>2, <2>3, <2>4
<1> QED BY <1>a, <1>2 DEF FilesAreOfOneFetch

\* A new certificate expires no earlier than the last one, and at most a day later.
LEMMA IssueKeeps ==
  ASSUME CertInv, Issue
  PROVE  CertInv'
<1> DEFINE n == Len(day)
<1>1. /\ day \in Seq(1 .. MaxCerts + 2) /\ n \in 2 .. MaxCerts /\ n < MaxCerts /\ MaxCerts \in Nat
      /\ \A m \in 1 .. n : day[m] <= m
      BY BoundsAssumption DEF CertInv, TypeOK, DaysBounded, Issue
<1>2. PICK d \in {0, 1} : day' = Append(day, day[n] + d)
      BY DEF Issue
<1>3. day[n] \in 1 .. n /\ day[n] + d \in 1 .. n + 1
      BY <1>1, SMTT(30)
<1>4. /\ day' \in Seq(1 .. MaxCerts + 2) /\ Len(day') = n + 1
      /\ day'[n + 1] = day[n] + d /\ \A m \in 1 .. n : day'[m] = day[m]
  <2>1. day[n] + d \in 1 .. MaxCerts + 2
        BY <1>1, <1>3
  <2> QED BY <1>1, <1>2, <2>1
<1>5. DaysBounded'
  <2>1. ASSUME NEW m \in 1 .. n + 1
        PROVE  day'[m] <= m
    <3>1. CASE m = n + 1
          BY <1>3, <1>4, <3>1
    <3>2. CASE m \in 1 .. n
          BY <1>1, <1>4, <3>2
    <3> QED BY <1>1, <3>1, <3>2
  <2> QED BY <1>4, <2>1 DEF DaysBounded
<1>6. 0 .. n \subseteq 0 .. Len(day') /\ n + 1 \in 0 .. Len(day') /\ Len(day') \in 2 .. MaxCerts
      BY <1>1, <1>4
<1>7. TypeOK'
  <2> DEFINE C == 0 .. n
             D == 0 .. Len(day')
  <2>1. {vault', source', gateway'} \subseteq D
        BY <1>6 DEF CertInv, TypeOK, Issue
  <2>2. secret' \in [crt : D, key : D]
    <3>1. secret \in [crt : C, key : C] /\ secret' = secret
          BY DEF CertInv, TypeOK, Issue
    <3>2. C \subseteq D
          BY <1>6
    <3> HIDE DEF C, D
    <3> QED BY <3>1, <3>2
  <2>3. file' \in [Jobs -> [vault : D, secret : D, gateway : D, crt : D, key : D]]
    <3>1. file \in [Jobs -> [vault : C, secret : C, gateway : C, crt : C, key : C]] /\ file' = file
          BY DEF CertInv, TypeOK, Issue
    <3>2. C \subseteq D
          BY <1>6
    <3> HIDE DEF C, D
    <3>3. [vault : C, secret : C, gateway : C, crt : C, key : C]
            \subseteq [vault : D, secret : D, gateway : D, crt : D, key : D]
          BY <3>2
    <3> QED BY <3>1, <3>3
  <2> QED BY <1>4, <1>6, <2>1, <2>2, <2>3 DEF CertInv, TypeOK, Issue
<1>8. FilesAreOfOneFetch'
      BY DEF CertInv, FilesAreOfOneFetch, Issue
<1> QED BY <1>5, <1>7, <1>8 DEF CertInv

LEMMA CertStepKeeps == CertInv /\ [Next]_vars => CertInv'
<1> SUFFICES ASSUME CertInv, [Next]_vars PROVE CertInv'
    OBVIOUS
<1>1. CASE Issue
      BY <1>1, IssueKeeps
<1>2. CASE GatewayFollowsVault
  <2>1. TypeOK'
        BY <1>2 DEF CertInv, TypeOK, GatewayFollowsVault
  <2> QED BY <1>2, <2>1 DEF CertInv, DaysBounded, FilesAreOfOneFetch, GatewayFollowsVault
<1>3. CASE \E j \in Jobs : JobStep(j)
  <2>1. PICK j \in Jobs : JobStep(j)
        BY <1>3
  <2>2. TypeOK' /\ FilesAreOfOneFetch' /\ day' = day
        BY <2>1, OtherPodRests, PodKeepsType, PodKeepsPairs DEF CertInv
  <2> QED BY <2>2 DEF CertInv, DaysBounded
<1>4. CASE UNCHANGED vars
  <2>1. TypeOK'
        BY <1>4 DEF CertInv, TypeOK, vars
  <2> QED BY <1>4, <2>1 DEF CertInv, DaysBounded, FilesAreOfOneFetch, vars
<1> QED BY <1>1, <1>2, <1>3, <1>4 DEF Next, JobStep

LEMMA CertInvariant == Spec => []CertInv
<1> QED BY CertInitial, CertStepKeeps, PTL DEF Spec

\* Every variable has its type: what a pod reads and stores was issued, and a day
\* never runs ahead of the number of its certificate.
THEOREM CertTypeCorrect == Spec => []TypeOK
<1>1. CertInv => TypeOK
      BY DEF CertInv
<1> QED BY <1>1, CertInvariant, PTL

\* With the vault as the source, the ingress gateway never serves a certificate with the
\* key of another, though two jobs write its secret and certificates change under them.
\* With cert-manager as the source it may, since its secret is read twice and applied
\* before the pair is compared.
GatewayServesAPair == mode = "keyvault" => secret.crt = secret.key

THEOREM GatewayGetsPairs == Spec => []GatewayServesAPair
<1>1. CertInv => GatewayServesAPair
      BY DEF CertInv, FilesAreOfOneFetch, GatewayServesAPair
<1> QED BY <1>1, CertInvariant, PTL

-----------------------------------------------------------------------------
(* one job alone never goes back to an older certificate *)

\* the newest certificate of the source
Latest == IF mode = "keyvault" THEN vault ELSE source

\* a pod that has fetched and has stores ahead of it
Storing == {"upload", "fetchKey", "apply", "export", "import"}

\* What a pod holds is no older than what it will store it over, unless it was overtaken.
FileInOrder(j) ==
  /\ file[j].crt <= Latest
  /\ mode = "keyvault" => /\ pc[j] \notin {"fetchKey", "export", "import"}
                          /\ pc[j] \in {"upload", "apply"} => file[j].crt # NoCert
  /\ mode = "certmanager" => pc[j] # "upload"
  /\ pc[j] = "import" => file[j].crt # NoCert
  /\ pc[j] \in Storing /\ ~ overtaken[j] /\ file[j].crt # NoCert =>
       /\ secret.crt <= file[j].crt
       /\ mode = "keyvault" => gateway <= file[j].crt
       /\ mode = "certmanager" => vault <= file[j].crt

StoresInOrder ==
  /\ vault # NoCert
  /\ secret.crt <= Latest
  /\ mode = "keyvault" => gateway <= vault
  /\ mode = "certmanager" => vault <= source

OrderInv == StoresInOrder /\ \A j \in Jobs : FileInOrder(j)

\* Certificates are numbers.
LEMMA CertsAreNumbers ==
  ASSUME TypeOK
  PROVE  /\ vault \in Nat /\ source \in Nat /\ gateway \in Nat /\ secret.crt \in Nat
         /\ Latest \in Nat /\ Latest <= Len(day) /\ Len(day) \in Nat
         /\ vault <= Len(day) /\ source <= Len(day)
         /\ \A j \in Jobs : file[j].crt \in Nat
         /\ mode \in {"keyvault", "certmanager"}
<1>1. Len(day) \in Nat
      BY BoundsAssumption DEF TypeOK
<1>2. secret.crt \in 0 .. Len(day) /\ \A j \in Jobs : file[j].crt \in 0 .. Len(day)
      BY DEF TypeOK
<1>3. {vault, source, gateway} \subseteq 0 .. Len(day) /\ mode \in {"keyvault", "certmanager"}
      BY DEF TypeOK
<1> QED BY <1>1, <1>2, <1>3 DEF Latest

LEMMA OrderInitial == Init => OrderInv
<1> SUFFICES ASSUME Init PROVE OrderInv
    OBVIOUS
<1>1. \A j \in Jobs : file[j].crt = NoCert /\ pc[j] \in {"fetch", "waiting"}
      BY DEF Init, Jobs, NoFiles
<1> QED BY <1>1 DEF Init, OrderInv, StoresInOrder, FileInOrder, Latest, Storing, NoCert

\* A step that is no store keeps the order of the stores, and of the files of a pod that rests.
LEMMA RestingInOrder ==
  ASSUME OrderInv, UNCHANGED <<mode, vault, source, secret, gateway>>, NEW k \in Jobs,
         pc'[k] = pc[k], file'[k] = file[k], overtaken[k] => overtaken'[k]
  PROVE  FileInOrder(k)'
<1>1. FileInOrder(k) /\ UNCHANGED Latest
      BY DEF OrderInv, Latest
<1> QED BY <1>1 DEF FileInOrder

\* A pod's step leaves the other's overtaken mark, or sets it; and its own, or clears it.
LEMMA Marks ==
  ASSUME TypeOK, NEW j \in Jobs, JobStep(j)
  PROVE  \A k \in Jobs \ {j} : overtaken[k] => overtaken'[k]
<1>1. CASE UNCHANGED overtaken \/ overtaken' = [overtaken EXCEPT ![j] = FALSE]
      BY <1>1 DEF TypeOK
<1>2. CASE Overtakes(j)
      BY <1>2 DEF Overtakes
<1> QED BY <1>1, <1>2 DEF JobStep, PodStep, StartPod, ReadVault, ReadSecret, GatewayHasNoCert,
         ReadGatewayAndCompare, FetchFromVault, FetchCert, FetchKey, UploadToGateway, ApplySecret,
         RestartGateway, ExportPfx, ImportIntoVault, CommandFails, PipedReadFails, SecretRead, CertRead, KeyRead

\* The steps of a pod that are no stores.
LEMMA ReadsKeepOrder ==
  ASSUME TypeOK, OrderInv, NEW j \in Jobs, JobStep(j),
         ~ UploadToGateway(j), ~ ApplySecret(j), ~ ImportIntoVault(j)
  PROVE  OrderInv' /\ UNCHANGED stores
<1>1. UNCHANGED stores
      BY DEF JobStep, PodStep, StartPod, ReadVault, ReadSecret, GatewayHasNoCert, ReadGatewayAndCompare,
         FetchFromVault, FetchCert, FetchKey, RestartGateway, ExportPfx, CommandFails, PipedReadFails,
         SecretRead, CertRead, KeyRead
<1>2. StoresInOrder' /\ UNCHANGED <<Latest, mode, vault, source, secret, gateway>>
      BY <1>1 DEF OrderInv, StoresInOrder, stores, Latest
<1>3. /\ StoresInOrder /\ FileInOrder(j) /\ file[j].crt \in Nat
      /\ vault \in Nat /\ source \in Nat /\ gateway \in Nat /\ secret.crt \in Nat /\ Latest \in Nat
      /\ mode \in {"keyvault", "certmanager"}
      BY CertsAreNumbers DEF OrderInv
<1>4. pc \in [Jobs -> Commands \cup Ends] /\ overtaken \in [Jobs -> BOOLEAN] /\ DOMAIN file = Jobs
      /\ file[j] \in [vault : 0 .. Len(day), secret : 0 .. Len(day), gateway : 0 .. Len(day),
                       crt : 0 .. Len(day), key : 0 .. Len(day)]
      BY DEF TypeOK
<1>5. FileInOrder(j)'
  <2>1. CASE \E next \in (Commands \cup Ends) \ Storing : Goto(j, next) /\ file'[j].crt <= Latest
    <3>1. pc'[j] \notin Storing
          BY <1>4, <2>1 DEF Goto
    <3> QED BY <1>2, <2>1, <3>1 DEF FileInOrder, Storing
  <2>2. CASE FetchFromVault(j)
    <3>1. file'[j].crt = vault /\ pc'[j] = "upload" /\ mode = "keyvault"
          BY <1>4, <2>2 DEF FetchFromVault, Goto
    <3> QED BY <1>2, <1>3, <3>1 DEF FileInOrder, StoresInOrder, Latest
  <2>3. CASE \E c \in {source, NoCert} : CertRead(j, c)
    <3>1. file'[j].crt \in {source, NoCert} /\ pc'[j] = "fetchKey" /\ mode = "certmanager"
          BY <1>4, <2>3 DEF CertRead, Goto
    <3> QED BY <1>2, <1>3, <3>1 DEF FileInOrder, StoresInOrder, Latest, NoCert
  <2>4. CASE \E c : KeyRead(j, c)
    <3>1. file'[j].crt = file[j].crt /\ pc[j] = "fetchKey" /\ pc'[j] = "apply" /\ overtaken' = overtaken
          BY <1>4, <2>4 DEF KeyRead, Goto
    <3> QED BY <1>2, <1>3, <3>1 DEF FileInOrder, Storing
  <2>5. CASE ExportPfx(j)
    <3>1. /\ file' = file /\ pc[j] = "export" /\ pc'[j] \in {"import", "failed"} /\ overtaken' = overtaken
          /\ pc'[j] = "import" => file[j].crt # NoCert
          BY <1>4, <2>5 DEF ExportPfx, Goto
    <3> QED BY <1>2, <1>3, <3>1 DEF FileInOrder, Storing
  <2>6. CASE CommandFails(j) \/ RestartGateway(j) \/ GatewayHasNoCert(j)
    <3>1. file' = file /\ \E next \in {"failed", "finished", "rereadVault"} : Goto(j, next)
          BY <2>6 DEF CommandFails, RestartGateway, GatewayHasNoCert, AfterUpdate
    <3> QED BY <1>3, <2>1, <3>1 DEF FileInOrder, Storing, Commands, Ends
  <2>7. CASE StartPod(j)
    <3>1. file'[j].crt = 0 /\ \E next \in {"readVault", "fetch"} : Goto(j, next)
          BY <1>4, <2>7 DEF StartPod, NoFiles, NoCert
    <3> QED BY <1>3, <2>1, <3>1 DEF Storing, Commands
  <2>8. CASE ReadVault(j) \/ ReadGatewayAndCompare(j) \/ \E c : SecretRead(j, c)
    <3>1. file'[j].crt = file[j].crt
      <4>1. ASSUME NEW c, \/ file' = [file EXCEPT ![j].vault = c]
                          \/ file' = [file EXCEPT ![j].secret = c]
                          \/ file' = [file EXCEPT ![j].gateway = c]
            PROVE  file'[j].crt = file[j].crt
        <5>1. \/ file'[j] = [file[j] EXCEPT !.vault = c]
              \/ file'[j] = [file[j] EXCEPT !.secret = c]
              \/ file'[j] = [file[j] EXCEPT !.gateway = c]
              BY <1>4, <4>1
        <5> QED BY <1>4, <5>1
      <4>2. \E c : \/ file' = [file EXCEPT ![j].vault = c]
                   \/ file' = [file EXCEPT ![j].secret = c]
                   \/ file' = [file EXCEPT ![j].gateway = c]
            BY <1>4, <2>8 DEF ReadVault, SecretRead, ReadGatewayAndCompare
      <4> QED BY <4>1, <4>2
    <3>2. \E next \in {"readSecret", "rereadSecret", "readGateway", "rereadGateway", "upToDate", "fetch",
                       "cannotUpdate"} : Goto(j, next)
          BY <2>8 DEF ReadVault, ReadGatewayAndCompare, SecretRead
    <3> QED BY <1>3, <2>1, <3>1, <3>2 DEF FileInOrder, Storing, Commands, Ends
  <2> QED BY <2>2, <2>3, <2>4, <2>5, <2>6, <2>7, <2>8
          DEF JobStep, PodStep, PipedReadFails, ReadSecret, FetchCert, FetchKey
<1>6. \A k \in Jobs \ {j} : FileInOrder(k)'
      BY <1>2, OtherPodRests, Marks, RestingInOrder
<1> QED BY <1>1, <1>2, <1>5, <1>6 DEF OrderInv

\* The stores of a pod: the other's files are overtaken by them.
LEMMA StoresKeepOrder ==
  ASSUME TypeOK, OrderInv, NEW j \in Jobs, UploadToGateway(j) \/ ApplySecret(j) \/ ImportIntoVault(j)
  PROVE  /\ OrderInv' /\ pc'[j] # pc[j] /\ mode' = mode
         /\ ~ overtaken[j] => /\ vault' >= vault
                              /\ secret'.crt >= secret.crt \/ secret'.crt = NoCert
                              /\ mode = "keyvault" => gateway' >= gateway
<1> DEFINE c == file[j].crt
<1>1. /\ StoresInOrder /\ FileInOrder(j) /\ c \in Nat
      /\ vault \in Nat /\ source \in Nat /\ gateway \in Nat /\ secret.crt \in Nat /\ Latest \in Nat
      /\ mode \in {"keyvault", "certmanager"}
      BY CertsAreNumbers DEF OrderInv
<1>2. pc \in [Jobs -> Commands \cup Ends] /\ overtaken \in [Jobs -> BOOLEAN] /\ DOMAIN file = Jobs
      BY DEF TypeOK
<1>3. /\ UNCHANGED <<mode, source, file>> /\ \A k \in Jobs \ {j} : overtaken'[k] /\ pc'[k] = pc[k]
      /\ overtaken'[j] = overtaken[j]
      BY <1>2 DEF UploadToGateway, ApplySecret, ImportIntoVault, Overtakes, Goto
<1>4. CASE UploadToGateway(j)
  <2>1. /\ gateway' = c /\ UNCHANGED <<vault, secret>> /\ pc[j] = "upload" /\ pc'[j] = "apply"
        /\ mode = "keyvault" /\ c # NoCert /\ c <= vault
        BY <1>1, <1>2, <1>4 DEF UploadToGateway, Goto, FileInOrder, Latest
  <2>2. StoresInOrder' /\ FileInOrder(j)'
        BY <1>1, <1>3, <2>1 DEF StoresInOrder, FileInOrder, Latest, Storing
  <2>3. \A k \in Jobs \ {j} : FileInOrder(k)'
        BY <1>3, <2>1 DEF OrderInv, FileInOrder, Latest
  <2>4. ~ overtaken[j] => gateway' >= gateway
        BY <1>1, <2>1 DEF FileInOrder, Storing
  <2> QED BY <1>1, <1>3, <2>1, <2>2, <2>3, <2>4 DEF OrderInv
<1>5. CASE ApplySecret(j)
  <2>1. /\ secret'.crt = c /\ UNCHANGED <<vault, gateway>> /\ pc[j] = "apply"
        /\ pc'[j] = (IF mode = "keyvault" THEN "restart" ELSE "export")
        BY <1>2, <1>5 DEF ApplySecret, Goto
  <2>2. StoresInOrder' /\ FileInOrder(j)'
        BY <1>1, <1>3, <2>1 DEF StoresInOrder, FileInOrder, Latest, Storing
  <2>3. \A k \in Jobs \ {j} : FileInOrder(k)'
        BY <1>3, <2>1 DEF OrderInv, FileInOrder, Latest
  <2>4. ~ overtaken[j] => secret'.crt >= secret.crt \/ secret'.crt = NoCert
        BY <1>1, <2>1 DEF FileInOrder, Storing
  <2> QED BY <1>1, <1>3, <2>1, <2>2, <2>3, <2>4 DEF OrderInv
<1>6. CASE ImportIntoVault(j)
  <2>1. /\ vault' = c /\ UNCHANGED <<secret, gateway>> /\ pc[j] = "import"
        /\ pc'[j] \in {"finished", "rereadVault"}
        /\ mode = "certmanager" /\ c # NoCert /\ c <= source
        BY <1>1, <1>2, <1>6 DEF ImportIntoVault, Goto, AfterUpdate, FileInOrder, Latest
  <2>2. StoresInOrder' /\ FileInOrder(j)'
        BY <1>1, <1>3, <2>1 DEF StoresInOrder, FileInOrder, Latest, Storing
  <2>3. \A k \in Jobs \ {j} : FileInOrder(k)'
        BY <1>3, <2>1 DEF OrderInv, FileInOrder, Latest
  <2>4. ~ overtaken[j] => vault' >= vault
        BY <1>1, <2>1 DEF FileInOrder, Storing
  <2> QED BY <1>1, <1>3, <2>1, <2>2, <2>3, <2>4 DEF OrderInv
<1> QED BY <1>4, <1>5, <1>6

\* A new certificate is newer than any that was fetched or stored.
LEMMA SurroundingsKeepOrder ==
  ASSUME TypeOK, OrderInv, Issue \/ GatewayFollowsVault
  PROVE  OrderInv' /\ vault' >= vault /\ secret' = secret /\ (mode = "keyvault" => gateway' >= gateway)
<1>1. /\ StoresInOrder /\ \A j \in Jobs : FileInOrder(j) /\ file[j].crt \in Nat
      /\ vault \in Nat /\ source \in Nat /\ gateway \in Nat /\ secret.crt \in Nat /\ Latest \in Nat
      /\ Latest <= Len(day) /\ Len(day) \in Nat /\ vault <= Len(day) /\ source <= Len(day)
      /\ mode \in {"keyvault", "certmanager"}
      BY CertsAreNumbers DEF OrderInv
<1>2. CASE Issue
  <2>1. /\ UNCHANGED <<mode, secret, gateway, pc, file, overtaken>>
        /\ Latest' = Len(day) + 1 /\ Latest <= Latest'
        /\ mode = "keyvault" => vault' = Len(day) + 1
        /\ mode = "certmanager" => vault' = vault /\ source' = Len(day) + 1
        BY <1>1, <1>2 DEF Issue, Latest
  <2>2. StoresInOrder'
        BY <1>1, <2>1 DEF StoresInOrder, NoCert
  <2>3. \A j \in Jobs : FileInOrder(j)'
        BY <1>1, <2>1 DEF FileInOrder
  <2> QED BY <1>1, <2>1, <2>2, <2>3 DEF OrderInv
<1>3. CASE GatewayFollowsVault
  <2>1. mode = "certmanager" /\ UNCHANGED <<mode, vault, source, secret, pc, file, overtaken>>
        BY <1>3 DEF GatewayFollowsVault
  <2> QED BY <1>1, <2>1 DEF OrderInv, StoresInOrder, FileInOrder, Latest
<1> QED BY <1>2, <1>3

LEMMA OrderStep ==
  TypeOK /\ OrderInv /\ [Next]_vars => OrderInv' /\ [NothingSetBack \/ StepOfOvertaken]_vars
<1> SUFFICES ASSUME TypeOK, OrderInv, [Next]_vars
             PROVE  OrderInv' /\ (NothingSetBack \/ StepOfOvertaken \/ UNCHANGED vars)
    OBVIOUS
<1>1. vault \in Nat /\ gateway \in Nat /\ secret.crt \in Nat
      BY CertsAreNumbers
<1>2. CASE Issue \/ GatewayFollowsVault
      BY <1>1, <1>2, SurroundingsKeepOrder DEF NothingSetBack
<1>3. ASSUME NEW j \in Jobs, UploadToGateway(j) \/ ApplySecret(j) \/ ImportIntoVault(j)
      PROVE  OrderInv' /\ (NothingSetBack \/ StepOfOvertaken)
      BY <1>3, StoresKeepOrder DEF NothingSetBack, StepOfOvertaken
<1>4. ASSUME NEW j \in Jobs, JobStep(j), ~ UploadToGateway(j), ~ ApplySecret(j), ~ ImportIntoVault(j)
      PROVE  OrderInv' /\ NothingSetBack
      BY <1>1, <1>4, ReadsKeepOrder DEF stores, NothingSetBack
<1>5. CASE UNCHANGED vars
  <2>1. UNCHANGED <<mode, vault, source, secret, gateway, pc, file, overtaken>>
        BY <1>5 DEF vars
  <2>2. OrderInv'
        BY <2>1 DEF OrderInv, StoresInOrder, FileInOrder, Latest
  <2> QED BY <1>5, <2>2
<1> QED BY <1>2, <1>3, <1>4, <1>5 DEF Next, JobStep

\* A pod's store puts an older certificate over a newer one only when the other job's pod
\* has stored something since it fetched, for any number of certificates, renewals at any
\* point and failures; only the ingress gateway's secret can lose its certificate alone.
THEOREM OneJobNeverGoesBack == Spec => OnlyOverlapSetsBack
<1>1. CertInv => TypeOK
      BY DEF CertInv
<1> QED BY <1>1, CertInvariant, OrderInitial, OrderStep, PTL DEF Spec, OnlyOverlapSetsBack
=============================================================================
