--------------------------- MODULE PrepareProofs ---------------------------
(***************************************************************************)
(* Proofs about CommonPrepare: the script stays within its lists, the      *)
(* secrets in a vault belong to the identity they are stored under, its    *)
(* passwords are valid and what a run has left half done stays so where no *)
(* query fails, a run nothing disturbs is complete, and every step brings  *)
(* the script further, for any identities, numbers and number of runs.     *)
(***************************************************************************)
EXTENDS CommonPrepare, TLAPS

BeforeIdentities == {"group", "lock", "vault", "account", "container", "storage"}

\* where the script is with the identities
IndexOK ==
  /\ prepareAt \in BeforeIdentities => identity = 1
  /\ prepareAt \in {"identity", "store"} => identity \in 1 .. Len(Identities)
  /\ prepareAt \in BeforeIdentities \cup {"identity"} => kind = 1
  /\ prepareAt = "store" => kind \in 1 .. Last

\* what is stored next is the current identity's, which exists
ValuesOK ==
  /\ \A k \in AllKinds : prepareAt = "store" => values[k] \in {Current, "empty"}
  /\ \A k \in AllKinds : prepareAt = "store" /\ values[k] = Current => Current \in directory
  /\ directory \subseteq IdentityNames

\* no vault has a password of an identity that does not exist
PasswordsHaveIdentities ==
  /\ RANDOM_NUMBER \in PrepareNumbers
  /\ \A n, i : <<n, <<i, "key", i>>>> \in secrets => i \in directory

\* The inductive invariant.
PrepareInv == IndexOK /\ ValuesOK /\ PasswordsHaveIdentities /\ SecretsBelongToTheirIdentity

\* the actions that leave the identities alone
OtherStep ==
  \/ CreateResourceGroup \/ CreateLock \/ CreateKeyVault \/ CreateStorageAccount
  \/ CreateBlobContainer \/ AddStorageSecrets
  \/ MakeGitopsKey \/ AddGitopsKey \/ MakePassphrase \/ MakeNodeKey \/ AddNodeKey
  \/ WriteEnvrc \/ Stop

LEMMA KindsListed ==
  \A i : /\ Len(Kinds(i)) \in {2, 3}
         /\ \A k \in 1 .. Len(Kinds(i)) : Kinds(i)[k] \in AllKinds
<1>1. \A k \in 1 .. 2 : k = 1 \/ k = 2
      OBVIOUS
<1>2. \A k \in 1 .. 3 : k = 1 \/ k = 2 \/ k = 3
      OBVIOUS
<1>3. ASSUME NEW i
      PROVE  /\ Len(Kinds(i)) \in {2, 3}
             /\ \A k \in 1 .. Len(Kinds(i)) : Kinds(i)[k] \in AllKinds
  <2>1. CASE i \in TfPrincipals
    <3>1. Kinds(i) = <<"id", "key">>
          BY <2>1 DEF Kinds
    <3> QED BY <1>1, <3>1 DEF AllKinds
  <2>2. CASE i \notin TfPrincipals
    <3>1. Kinds(i) = <<"id", "key", "oid">>
          BY <2>2 DEF Kinds
    <3> QED BY <1>2, <3>1 DEF AllKinds
  <2> QED BY <2>1, <2>2
<1> QED BY <1>3

LEMMA CurrentIsNamed ==
  ASSUME identity \in 1 .. Len(Identities)
  PROVE  Current \in IdentityNames
BY DEF Current, IdentityNames

\* the secrets that are no identity's
Shared == {<<"storage">>, <<"gitops">>, <<"node">>}

LEMMA SharedSecrets == Shared \subseteq AllSecrets
BY DEF AllSecrets, Shared

LEMMA SharedAreNoPasswords == \A i : <<i, "key", i>> \notin Shared
<1>1. \A i : Len(<<i, "key", i>>) = 3
      OBVIOUS
<1>2. \A f : Len(<<f>>) = 1
      OBVIOUS
<1> QED BY <1>1, <1>2 DEF Shared

\* The secret of the current identity is one of those the vault is to have.
LEMMA StoredSecret ==
  ASSUME identity \in 1 .. Len(Identities), kind \in 1 .. Last
  PROVE  <<Current, Kinds(Current)[kind], Current>> \in AllSecrets
<1>1. <<Current, Kinds(Current)[kind], Current>> \in SecretsOf(Current)
      BY DEF SecretsOf, Last
<1> QED BY <1>1, CurrentIsNamed DEF AllSecrets

LEMMA PrepareInitial == PrepareInit => PrepareInv
<1> SUFFICES ASSUME PrepareInit
             PROVE  PrepareInv
    OBVIOUS
<1>1. IndexOK
      BY DEF PrepareInit, IndexOK, BeforeIdentities
<1>2. ValuesOK
      BY DEF PrepareInit, ValuesOK
<1>3. SecretsBelongToTheirIdentity /\ PasswordsHaveIdentities
      BY DEF PrepareInit, SecretsBelongToTheirIdentity, PasswordsHaveIdentities
<1> QED BY <1>1, <1>2, <1>3 DEF PrepareInv

\* The vaults get the shared secrets.
LEMMA OtherSecrets ==
  ASSUME OtherStep
  PROVE  secrets' \subseteq secrets \cup ({RANDOM_NUMBER} \X Shared)
<1>1. CASE AddStorageSecrets \/ AddGitopsKey \/ AddNodeKey
  <2>1. \E f \in {"storage", "gitops", "node"} : secrets' \subseteq secrets \cup {<<RANDOM_NUMBER, <<f>>>>}
        BY <1>1 DEF AddStorageSecrets, AddGitopsKey, AddNodeKey, AddFile, AddKeyToVault, held
  <2> QED BY <2>1 DEF Shared
<1>2. CASE ~(AddStorageSecrets \/ AddGitopsKey \/ AddNodeKey)
  <2>1. secrets' = secrets
        BY <1>2 DEF OtherStep, CreateResourceGroup, CreateLock, CreateKeyVault, CreateStorageAccount,
           CreateBlobContainer, MakeGitopsKey, MakePassphrase, MakeNodeKey, WriteEnvrc, Stop, held
  <2> QED BY <2>1
<1> QED BY <1>1, <1>2

\* The steps before and after the identities.
LEMMA OtherStepsKeep ==
  ASSUME PrepareInv, OtherStep
  PROVE  PrepareInv'
<1>1. /\ identity' = identity /\ values' = values /\ kind' = kind /\ directory' = directory
      BY DEF OtherStep, CreateResourceGroup, CreateLock, CreateKeyVault, CreateStorageAccount,
         CreateBlobContainer, AddStorageSecrets, MakeGitopsKey, AddGitopsKey, AddFile, MakePassphrase,
         MakeNodeKey, AddNodeKey, WriteEnvrc, Stop, shell
<1>2. /\ prepareAt' # "store"
      /\ prepareAt' \in BeforeIdentities => prepareAt \in BeforeIdentities
      /\ prepareAt' = "identity" => prepareAt = "storage"
  <2>1. CASE CreateResourceGroup \/ CreateLock \/ CreateKeyVault \/ CreateStorageAccount
        BY <2>1 DEF CreateResourceGroup, CreateLock, CreateKeyVault, CreateStorageAccount, Go, BeforeIdentities
  <2>2. CASE CreateBlobContainer \/ AddStorageSecrets
        BY <2>2 DEF CreateBlobContainer, AddStorageSecrets, AddKeyToVault, Go, BeforeIdentities
  <2>3. CASE MakeGitopsKey \/ AddGitopsKey \/ MakePassphrase \/ MakeNodeKey \/ AddNodeKey \/ WriteEnvrc \/ Stop
        BY <2>3 DEF MakeGitopsKey, AddGitopsKey, AddFile, AddKeyToVault, MakePassphrase, MakeNodeKey,
           AddNodeKey, WriteEnvrc, Stop, Go, BeforeIdentities
  <2> QED BY <2>1, <2>2, <2>3 DEF OtherStep
<1>3. /\ secrets' \subseteq secrets \cup ({RANDOM_NUMBER} \X Shared)
      /\ RANDOM_NUMBER' = RANDOM_NUMBER
  <2>1. RANDOM_NUMBER' = RANDOM_NUMBER
        BY DEF OtherStep, CreateResourceGroup, CreateLock, CreateKeyVault, CreateStorageAccount,
           CreateBlobContainer, AddStorageSecrets, MakeGitopsKey, AddGitopsKey, AddFile, AddKeyToVault,
           MakePassphrase, MakeNodeKey, AddNodeKey, WriteEnvrc, Stop, Go
  <2> QED BY <2>1, OtherSecrets
<1>4. IndexOK'
  <2>1. prepareAt' \in BeforeIdentities \cup {"identity"} => identity = 1 /\ kind = 1
        BY <1>2 DEF PrepareInv, IndexOK, BeforeIdentities
  <2>2. 1 \in 1 .. Len(Identities)
        BY PrepareAssumption
  <2> QED BY <1>1, <1>2, <2>1, <2>2 DEF IndexOK, BeforeIdentities
<1>5. ValuesOK'
      BY <1>1, <1>2 DEF PrepareInv, ValuesOK
<1>6. SecretsBelongToTheirIdentity'
      BY <1>3, SharedSecrets DEF PrepareInv, SecretsBelongToTheirIdentity, PasswordsHaveIdentities, AllSecrets
<1>7. PasswordsHaveIdentities'
      BY <1>1, <1>3, SharedAreNoPasswords DEF PrepareInv, PasswordsHaveIdentities
<1> QED BY <1>4, <1>5, <1>6, <1>7 DEF PrepareInv

\* The step from one identity to the next.
LEMMA NextIdentity ==
  ASSUME identity \in 1 .. Len(Identities), identity' = identity + 1, prepareAt' = AfterIdentity, kind' = 1
  PROVE  IndexOK' /\ prepareAt' # "store"
<1>1. CASE identity = Len(Identities)
  <2>1. prepareAt' = "gitops"
        BY <1>1 DEF AfterIdentity
  <2> QED BY <2>1 DEF IndexOK, BeforeIdentities
<1>2. CASE identity # Len(Identities)
  <2>1. prepareAt' = "identity"
        BY <1>2 DEF AfterIdentity
  <2>2. identity' \in 1 .. Len(Identities)
        BY <1>2, PrepareAssumption
  <2> QED BY <2>1, <2>2 DEF IndexOK, BeforeIdentities
<1> QED BY <1>1, <1>2

LEMMA PrepareInductive == PrepareInv /\ [PrepareStep]_prepareVars => PrepareInv'
<1> SUFFICES ASSUME PrepareInv, [PrepareStep]_prepareVars
             PROVE  PrepareInv'
    OBVIOUS
<1>1. CASE SkipIdentity
  <2>1. /\ prepareAt = "identity" /\ identity' = identity + 1 /\ prepareAt' = AfterIdentity
        /\ values' = values /\ kind' = kind /\ directory' = directory /\ secrets' = secrets
        /\ RANDOM_NUMBER' = RANDOM_NUMBER
        BY <1>1 DEF SkipIdentity, Go, held
  <2>2. identity \in 1 .. Len(Identities) /\ kind' = 1
        BY <2>1 DEF PrepareInv, IndexOK
  <2>3. IndexOK' /\ prepareAt' # "store"
        BY <2>1, <2>2, NextIdentity
  <2>4. ValuesOK' /\ SecretsBelongToTheirIdentity' /\ PasswordsHaveIdentities'
        BY <2>1, <2>3 DEF PrepareInv, ValuesOK, SecretsBelongToTheirIdentity, PasswordsHaveIdentities, AllSecrets
  <2> QED BY <2>3, <2>4 DEF PrepareInv
<1>2. CASE CreateIdentity
  <2>1. /\ prepareAt = "identity" /\ prepareAt' = "store" /\ identity' = identity /\ kind' = kind
        /\ secrets' = secrets /\ directory \subseteq directory' /\ directory' \subseteq directory \cup {Current}
        /\ RANDOM_NUMBER' = RANDOM_NUMBER
        BY <1>2 DEF CreateIdentity, Go
  <2>2. PICK got \in SUBSET AllKinds :
          /\ Current \in directory' \/ got = {}
          /\ values' = [k \in AllKinds |-> IF k \in got THEN Current ELSE "empty"]
        BY <1>2 DEF CreateIdentity
  <2>3. identity \in 1 .. Len(Identities) /\ kind = 1
        BY <2>1 DEF PrepareInv, IndexOK
  <2>4. Current' = Current /\ Last' = Last /\ Last \in {2, 3}
        BY <2>1, KindsListed DEF Current, Last
  <2>5. IndexOK'
        BY <2>1, <2>3, <2>4 DEF IndexOK, BeforeIdentities
  <2>6. ValuesOK'
    <3>0. Current # "empty"
          BY <2>3, CurrentIsNamed, PrepareAssumption
    <3>1. \A k \in AllKinds : /\ values'[k] \in {Current, "empty"}
                              /\ values'[k] = Current => Current \in directory'
          BY <2>2, <3>0
    <3>2. directory' \subseteq IdentityNames
          BY <2>1, <2>3, CurrentIsNamed DEF PrepareInv, ValuesOK
    <3> QED BY <2>4, <3>1, <3>2 DEF ValuesOK
  <2>7. SecretsBelongToTheirIdentity' /\ PasswordsHaveIdentities'
        BY <2>1 DEF PrepareInv, SecretsBelongToTheirIdentity, PasswordsHaveIdentities, AllSecrets
  <2> QED BY <2>5, <2>6, <2>7 DEF PrepareInv
<1>3. CASE StoreSecret
  <2>1. /\ prepareAt = "store" /\ Value # "empty"
        /\ values' = values /\ directory' = directory /\ RANDOM_NUMBER' = RANDOM_NUMBER
        BY <1>3 DEF StoreSecret, AddKeyToVault, Go
  <2>2. identity \in 1 .. Len(Identities) /\ kind \in 1 .. Last
        BY <2>1 DEF PrepareInv, IndexOK
  <2>3. Value = Current /\ Current \in directory
        BY <2>1, <2>2, KindsListed DEF PrepareInv, ValuesOK, Value, Last
  <2>4. secrets' \subseteq secrets \cup {<<RANDOM_NUMBER, <<Current, Kinds(Current)[kind], Current>>>>}
        BY <1>3, <2>3 DEF StoreSecret, AddKeyToVault, held
  <2>5. SecretsBelongToTheirIdentity' /\ PasswordsHaveIdentities'
    <3>1. SecretsBelongToTheirIdentity'
          BY <2>2, <2>4, StoredSecret DEF PrepareInv, SecretsBelongToTheirIdentity, PasswordsHaveIdentities, AllSecrets
    <3>2. PasswordsHaveIdentities'
          BY <2>1, <2>3, <2>4 DEF PrepareInv, PasswordsHaveIdentities
    <3> QED BY <3>1, <3>2
  <2>6. CASE kind < Last
    <3>1. kind' = kind + 1 /\ identity' = identity /\ prepareAt' = "store"
          BY <1>3, <2>6 DEF StoreSecret, AddKeyToVault, Go
    <3>2. Current' = Current /\ Last' = Last /\ Last \in {2, 3}
          BY <3>1, KindsListed DEF Current, Last
    <3>3. kind' \in 1 .. Last
          BY <2>2, <2>6, <3>1, <3>2
    <3>4. IndexOK'
          BY <2>2, <3>1, <3>2, <3>3 DEF IndexOK, BeforeIdentities
    <3>5. ValuesOK'
          BY <2>1, <3>2 DEF PrepareInv, ValuesOK
    <3> QED BY <2>5, <3>4, <3>5 DEF PrepareInv
  <2>7. CASE ~(kind < Last)
    <3>1. kind' = 1 /\ identity' = identity + 1 /\ prepareAt' = AfterIdentity
          BY <1>3, <2>7 DEF StoreSecret, AddKeyToVault, Go
    <3>2. IndexOK' /\ prepareAt' # "store"
          BY <2>2, <3>1, NextIdentity
    <3>3. ValuesOK'
          BY <2>1, <3>2 DEF PrepareInv, ValuesOK
    <3> QED BY <2>5, <3>2, <3>3 DEF PrepareInv
  <2> QED BY <2>6, <2>7
<1>4. CASE NoValue
  <2>1. /\ prepareAt' = "stopped" /\ directory' = directory /\ secrets' = secrets
        /\ RANDOM_NUMBER' = RANDOM_NUMBER
        BY <1>4 DEF NoValue, Go, held
  <2> QED BY <2>1 DEF PrepareInv, IndexOK, ValuesOK, BeforeIdentities, PasswordsHaveIdentities,
             SecretsBelongToTheirIdentity, AllSecrets
<1>5. CASE PrepareAgain
  <2>1. /\ prepareAt' = "group" /\ identity' = 1 /\ kind' = 1 /\ directory' = directory /\ secrets' = secrets
        /\ RANDOM_NUMBER' \in PrepareNumbers
        BY <1>5 DEF PrepareAgain, held
  <2> QED BY <2>1 DEF PrepareInv, IndexOK, ValuesOK, BeforeIdentities, PasswordsHaveIdentities,
             SecretsBelongToTheirIdentity, AllSecrets
<1>6. CASE UNCHANGED prepareVars
  <2>1. UNCHANGED <<prepareAt, RANDOM_NUMBER, directory, identity, values, kind, secrets>>
        BY <1>6 DEF prepareVars, shell, held
  <2> QED BY <2>1 DEF PrepareInv, IndexOK, ValuesOK, PasswordsHaveIdentities, SecretsBelongToTheirIdentity,
             AllSecrets, Current, Last
<1> QED BY <1>1, <1>2, <1>3, <1>4, <1>5, <1>6, OtherStepsKeep DEF PrepareStep, OtherStep

\* No vault ever holds a value under the name of another identity, for any identities
\* and however often the script fails, is stopped and is run again.
THEOREM SecretsAreTheirOwn == PrepareSpec => []SecretsBelongToTheirIdentity
<1>1. PrepareInv => SecretsBelongToTheirIdentity
      BY DEF PrepareInv
<1> QED BY <1>1, PrepareInitial, PrepareInductive, PTL DEF PrepareSpec

-----------------------------------------------------------------------------
(* types *)

\* The types hold with the place the script is at among the identities.
PrepareTypeInv == PrepareTypeOK /\ PrepareInv

LEMMA GoKeepsTypes ==
  ASSUME PrepareTypeOK, NEW from, NEW to, NEW failed, Go(from, to, failed)
  PROVE  disturbances' \in Nat /\ UNCHANGED <<RANDOM_NUMBER, prepareRuns>>
BY DEF Go, PrepareTypeOK

\* The steps before and after the identities.
LEMMA OtherStepsKeepTypes ==
  ASSUME PrepareTypeInv, OtherStep
  PROVE  PrepareTypeOK'
<1> USE DEF PrepareTypeInv
<1>1. UNCHANGED <<directory, identity, values, kind>>
      BY DEF OtherStep, CreateResourceGroup, CreateLock, CreateKeyVault, CreateStorageAccount,
         CreateBlobContainer, AddStorageSecrets, MakeGitopsKey, AddGitopsKey, AddFile,
         MakePassphrase, MakeNodeKey, AddNodeKey, WriteEnvrc, Stop, shell
<1>2. disturbances' \in Nat /\ UNCHANGED <<RANDOM_NUMBER, prepareRuns>>
  <2>1. \E from, to, failed : Go(from, to, failed)
        BY DEF OtherStep, CreateResourceGroup, CreateLock, CreateKeyVault, CreateStorageAccount,
           CreateBlobContainer, AddStorageSecrets, MakeGitopsKey, AddGitopsKey, AddFile, AddKeyToVault,
           MakePassphrase, MakeNodeKey, AddNodeKey, WriteEnvrc, Stop
  <2> QED BY <2>1, GoKeepsTypes
<1>3. prepareAt' \in {"lock", "vault", "account", "container", "storage", "identity", "gitopsSecret",
                      "node", "keygen", "nodeSecret", "envrc", "done", "stopped"}
      BY DEF OtherStep, CreateResourceGroup, CreateLock, CreateKeyVault, CreateStorageAccount,
         CreateBlobContainer, AddStorageSecrets, MakeGitopsKey, AddGitopsKey, AddFile, AddKeyToVault,
         MakePassphrase, MakeNodeKey, AddNodeKey, WriteEnvrc, Stop, Go
<1>4. files' \subseteq {"gitops", "passphrase", "node"}
  <2>1. files' \subseteq files \cup {"gitops", "passphrase", "node"}
        BY DEF OtherStep, CreateResourceGroup, CreateLock, CreateKeyVault, CreateStorageAccount,
           CreateBlobContainer, AddStorageSecrets, MakeGitopsKey, AddGitopsKey, AddFile,
           MakePassphrase, MakeNodeKey, AddNodeKey, WriteEnvrc, Stop
  <2> QED BY <2>1 DEF PrepareTypeOK
<1>5. /\ group' \in {"absent", "unlocked", "locked"} /\ vaults' \subseteq PrepareNumbers
      /\ containers' \subseteq accounts' /\ accounts' \subseteq PrepareNumbers
  <2>1. CASE CreateResourceGroup \/ CreateLock
        BY <2>1 DEF CreateResourceGroup, CreateLock, PrepareTypeOK
  <2>2. CASE CreateKeyVault
        BY <2>2 DEF CreateKeyVault, PrepareTypeOK
  <2>3. CASE CreateStorageAccount
        BY <2>3 DEF CreateStorageAccount, PrepareTypeOK
  <2>4. CASE CreateBlobContainer
        BY <2>4 DEF CreateBlobContainer, PrepareTypeOK
  <2>5. CASE ~(CreateResourceGroup \/ CreateLock \/ CreateKeyVault \/ CreateStorageAccount \/ CreateBlobContainer)
    <3>1. UNCHANGED <<group, vaults, accounts, containers>>
          BY <2>5 DEF OtherStep, AddStorageSecrets, MakeGitopsKey, AddGitopsKey, AddFile, MakePassphrase,
             MakeNodeKey, AddNodeKey, WriteEnvrc, Stop, cloud
    <3> QED BY <3>1 DEF PrepareTypeOK
  <2> QED BY <2>1, <2>2, <2>3, <2>4, <2>5
<1>6. stale' \subseteq secrets'
  <2>1. CASE AddStorageSecrets \/ AddGitopsKey \/ AddNodeKey
        BY <2>1 DEF AddStorageSecrets, AddGitopsKey, AddNodeKey, AddFile, AddKeyToVault, held, PrepareTypeOK
  <2>2. CASE ~(AddStorageSecrets \/ AddGitopsKey \/ AddNodeKey)
    <3>1. UNCHANGED <<secrets, stale>>
          BY <2>2 DEF OtherStep, CreateResourceGroup, CreateLock, CreateKeyVault, CreateStorageAccount,
             CreateBlobContainer, MakeGitopsKey, MakePassphrase, MakeNodeKey, WriteEnvrc, Stop, held
    <3> QED BY <3>1 DEF PrepareTypeOK
  <2> QED BY <2>1, <2>2
<1>7. missed' \subseteq IdentityNames \cup {"group"}
  <2>1. missed' \in {missed, missed \cup {"group"}}
        BY DEF OtherStep, CreateResourceGroup, CreateLock, CreateKeyVault, CreateStorageAccount,
           CreateBlobContainer, AddStorageSecrets, MakeGitopsKey, AddGitopsKey, AddFile, MakePassphrase,
           MakeNodeKey, AddNodeKey, WriteEnvrc, Stop
  <2> QED BY <2>1 DEF PrepareTypeOK
<1> QED BY <1>1, <1>2, <1>3, <1>4, <1>5, <1>6, <1>7 DEF PrepareTypeOK

\* The steps at an identity: the index and the kind move on only within their lists.
LEMMA IdentitiesKeepTypes ==
  ASSUME PrepareTypeInv, SkipIdentity \/ CreateIdentity \/ StoreSecret \/ NoValue
  PROVE  PrepareTypeOK'
<1> USE DEF PrepareTypeInv
<1>1. UNCHANGED <<RANDOM_NUMBER, prepareRuns, group, vaults, accounts, containers, files>> /\ disturbances' \in Nat
  <2>1. UNCHANGED <<group, vaults, accounts, containers, files>>
        BY DEF SkipIdentity, CreateIdentity, StoreSecret, NoValue, cloud
  <2>2. \E from, to, failed : Go(from, to, failed)
        BY DEF SkipIdentity, CreateIdentity, StoreSecret, NoValue, AddKeyToVault
  <2> QED BY <2>1, <2>2, GoKeepsTypes
<1>2. prepareAt' \in {"identity", "store", "gitops", "stopped"}
      BY DEF SkipIdentity, CreateIdentity, StoreSecret, NoValue, AddKeyToVault, AfterIdentity, Go
<1>3. /\ identity \in 1 .. Len(Identities) /\ Len(Identities) \in Nat
      /\ kind = 1 \/ (StoreSecret /\ kind \in 1 .. Last) \/ NoValue
      BY PrepareAssumption DEF PrepareInv, IndexOK, SkipIdentity, CreateIdentity, StoreSecret, NoValue, Go
<1>4. identity' \in 1 .. Len(Identities) + 1
  <2>1. identity' = identity \/ identity' = identity + 1
        BY DEF SkipIdentity, CreateIdentity, StoreSecret, NoValue, shell
  <2> QED BY <1>3, <2>1
<1>5. kind' \in 1 .. 3
  <2>1. kind' = kind \/ kind' = 1 \/ (StoreSecret /\ kind < Last /\ kind' = kind + 1)
        BY DEF SkipIdentity, CreateIdentity, StoreSecret, NoValue, shell
  <2>2. Last \in {2, 3}
        BY KindsListed DEF Last
  <2>3. kind \in 1 .. 3
        BY DEF PrepareTypeOK
  <2> QED BY <2>1, <2>2, <2>3
<1>6. directory' \subseteq IdentityNames /\ values' \in [AllKinds -> IdentityNames \cup {"empty"}]
  <2>1. CASE CreateIdentity
    <3>1. directory' \subseteq directory \cup {Current}
          BY <2>1 DEF CreateIdentity
    <3>2. PICK got \in SUBSET AllKinds :
            values' = [k \in AllKinds |-> IF k \in got THEN Current ELSE "empty"]
          BY <2>1 DEF CreateIdentity
    <3>3. Current \in IdentityNames
          BY <1>3, CurrentIsNamed
    <3> QED BY <3>1, <3>2, <3>3 DEF PrepareTypeOK
  <2>2. CASE ~CreateIdentity
    <3>1. directory' = directory /\ values' = values
          BY <2>2 DEF SkipIdentity, StoreSecret, NoValue, shell
    <3> QED BY <3>1 DEF PrepareTypeOK
  <2> QED BY <2>1, <2>2
<1>7. stale' \subseteq secrets'
  <2>1. CASE CreateIdentity
    <3>1. secrets' = secrets /\ stale' \subseteq stale \cup secrets
          BY <2>1 DEF CreateIdentity, Renew
    <3> QED BY <3>1 DEF PrepareTypeOK
  <2>2. CASE StoreSecret
        BY <2>2 DEF StoreSecret, AddKeyToVault, held, PrepareTypeOK
  <2>3. CASE SkipIdentity \/ NoValue
        BY <2>3 DEF SkipIdentity, NoValue, held, PrepareTypeOK
  <2> QED BY <2>1, <2>2, <2>3
<1>8. missed' \subseteq IdentityNames \cup {"group"}
  <2>1. missed' \in {missed, missed \cup {Current}}
        BY DEF SkipIdentity, CreateIdentity, StoreSecret, NoValue
  <2> QED BY <1>3, <2>1, CurrentIsNamed DEF PrepareTypeOK
<1> QED BY <1>1, <1>2, <1>4, <1>5, <1>6, <1>7, <1>8 DEF PrepareTypeOK

LEMMA PrepareTypeInitial == PrepareInit => PrepareTypeInv
<1> SUFFICES ASSUME PrepareInit
             PROVE  PrepareTypeOK
    BY PrepareInitial DEF PrepareTypeInv
<1>1. identity \in 1 .. Len(Identities) + 1 /\ kind \in 1 .. 3 /\ prepareRuns \in 1 .. MaxPrepareRuns
      BY PrepareAssumption DEF PrepareInit
<1>2. values \in [AllKinds -> IdentityNames \cup {"empty"}]
      BY DEF PrepareInit, Nobody
<1> QED BY <1>1, <1>2 DEF PrepareInit, PrepareTypeOK

LEMMA PrepareTypeInductive == PrepareTypeInv /\ [PrepareStep]_prepareVars => PrepareTypeInv'
<1> SUFFICES ASSUME PrepareTypeInv, [PrepareStep]_prepareVars
             PROVE  PrepareTypeOK'
    BY PrepareInductive DEF PrepareTypeInv
<1>1. CASE PrepareAgain
  <2>1. /\ prepareAt' = "group" /\ identity' = 1 /\ kind' = 1 /\ values' = Nobody
        /\ RANDOM_NUMBER' \in PrepareNumbers /\ prepareRuns < MaxPrepareRuns /\ prepareRuns' = prepareRuns + 1
        /\ UNCHANGED <<group, vaults, accounts, containers, directory, files, secrets, stale, missed>>
        /\ disturbances' \in Nat
        BY <1>1 DEF PrepareAgain, cloud, held, PrepareTypeInv, PrepareTypeOK
  <2>2. prepareRuns' \in 1 .. MaxPrepareRuns
    <3>1. prepareRuns \in 1 .. MaxPrepareRuns
          BY DEF PrepareTypeInv, PrepareTypeOK
    <3> QED BY <2>1, <3>1, PrepareAssumption
  <2>3. identity' \in 1 .. Len(Identities) + 1 /\ kind' \in 1 .. 3
        BY <2>1, PrepareAssumption
  <2>4. values' \in [AllKinds -> IdentityNames \cup {"empty"}]
        BY <2>1 DEF Nobody
  <2> QED BY <2>1, <2>2, <2>3, <2>4 DEF PrepareTypeInv, PrepareTypeOK
<1>2. CASE UNCHANGED prepareVars
      BY <1>2 DEF prepareVars, cloud, shell, held, PrepareTypeInv, PrepareTypeOK
<1> QED BY <1>1, <1>2, OtherStepsKeepTypes, IdentitiesKeepTypes DEF PrepareStep, OtherStep

\* The script never reads past the identities and their secrets, and has only the accounts
\* and vaults of numbers that were drawn, for any of them and any number of runs.
THEOREM PrepareTypeCorrect == PrepareSpec => []PrepareTypeOK
<1>1. PrepareTypeInv => PrepareTypeOK
      BY DEF PrepareTypeInv
<1> QED BY <1>1, PrepareTypeInitial, PrepareTypeInductive, PTL DEF PrepareSpec

-----------------------------------------------------------------------------
(* what is left half done *)

\* a vault has the password of i
HasPassword(i) == \E n \in PrepareNumbers : <<n, <<i, "key", i>>>> \in secrets \ stale

LostIdentities == {i \in directory : values["key"] # i /\ ~HasPassword(i)}
LostNode == IF "passphrase" \in files /\ "node" \notin files /\ prepareAt # "keygen" THEN {"node"} ELSE {}
LostLock == IF group = "unlocked" /\ prepareAt # "lock" THEN {"group"} ELSE {}

\* The passphrase stays without its key: ssh-keygen runs only where the passphrase is made.
LEMMA NodeStaysLost ==
  ASSUME PrepareStep, LostNode # {}
  PROVE  "passphrase" \in files' /\ "node" \notin files' /\ prepareAt' # "keygen"
<1>1. "passphrase" \in files /\ "node" \notin files /\ prepareAt # "keygen"
      BY DEF LostNode
<1>2. CASE MakeNodeKey
      BY <1>1, <1>2 DEF MakeNodeKey, Go
<1>3. CASE MakePassphrase
      BY <1>1, <1>3 DEF MakePassphrase, Go
<1>4. CASE MakeGitopsKey
  <2>1. files' \subseteq files \cup {"gitops"} /\ files \subseteq files' /\ prepareAt' = "gitopsSecret"
        BY <1>4 DEF MakeGitopsKey, Go
  <2> QED BY <1>1, <2>1
<1>5. CASE ~(MakeNodeKey \/ MakePassphrase \/ MakeGitopsKey)
  <2>1. files' = files
        BY <1>5 DEF PrepareStep, CreateResourceGroup, CreateLock, CreateKeyVault, CreateStorageAccount,
           CreateBlobContainer, AddStorageSecrets, SkipIdentity, CreateIdentity, StoreSecret, NoValue,
           AddGitopsKey, AddNodeKey, AddFile, WriteEnvrc, Stop, PrepareAgain
  <2>2. CASE CreateResourceGroup \/ CreateLock \/ CreateKeyVault \/ CreateStorageAccount \/ CreateBlobContainer
        BY <1>1, <2>1, <2>2 DEF CreateResourceGroup, CreateLock, CreateKeyVault, CreateStorageAccount, CreateBlobContainer, Go
  <2>3. CASE AddStorageSecrets \/ SkipIdentity \/ CreateIdentity \/ StoreSecret \/ NoValue
        BY <1>1, <2>1, <2>3 DEF AddStorageSecrets, SkipIdentity, CreateIdentity, StoreSecret, NoValue,
           AddKeyToVault, AfterIdentity, Go
  <2>4. CASE AddGitopsKey \/ AddNodeKey \/ WriteEnvrc \/ Stop \/ PrepareAgain
        BY <1>1, <2>1, <2>4 DEF AddGitopsKey, AddNodeKey, AddFile, AddKeyToVault, WriteEnvrc, Stop, PrepareAgain, Go
  <2> QED BY <1>5, <2>2, <2>3, <2>4 DEF PrepareStep
<1> QED BY <1>2, <1>3, <1>4, <1>5

\* The group stays without its lock: only a group that is not found is locked.
LEMMA LockStaysLost ==
  ASSUME PrepareStep, LostLock # {}
  PROVE  (group' = "unlocked" /\ prepareAt' # "lock") \/ "group" \in missed'
<1>1. group = "unlocked" /\ prepareAt # "lock"
      BY DEF LostLock
<1>2. CASE CreateResourceGroup \/ CreateLock
      BY <1>1, <1>2 DEF CreateResourceGroup, CreateLock, Go
<1>3. CASE ~(CreateResourceGroup \/ CreateLock)
  <2>1. group' = group
        BY <1>3 DEF PrepareStep, CreateKeyVault, CreateStorageAccount, cloud,
           CreateBlobContainer, AddStorageSecrets, SkipIdentity, CreateIdentity, StoreSecret, NoValue,
           MakeGitopsKey, MakePassphrase, MakeNodeKey, AddGitopsKey, AddNodeKey, AddFile, WriteEnvrc, Stop, PrepareAgain
  <2>2. CASE CreateKeyVault \/ CreateStorageAccount \/ CreateBlobContainer
        BY <1>1, <2>1, <2>2 DEF CreateKeyVault, CreateStorageAccount, CreateBlobContainer, Go
  <2>3. CASE AddStorageSecrets \/ SkipIdentity \/ CreateIdentity \/ StoreSecret \/ NoValue
        BY <1>1, <2>1, <2>3 DEF AddStorageSecrets, SkipIdentity, CreateIdentity, StoreSecret, NoValue,
           AddKeyToVault, AfterIdentity, Go
  <2>4. CASE MakeGitopsKey \/ MakePassphrase \/ MakeNodeKey
        BY <1>1, <2>1, <2>4 DEF MakeGitopsKey, MakePassphrase, MakeNodeKey, Go
  <2>5. CASE AddGitopsKey \/ AddNodeKey \/ WriteEnvrc \/ Stop \/ PrepareAgain
        BY <1>1, <2>1, <2>5 DEF AddGitopsKey, AddNodeKey, AddFile, AddKeyToVault, WriteEnvrc, Stop, PrepareAgain, Go
  <2> QED BY <1>3, <2>2, <2>3, <2>4, <2>5 DEF PrepareStep
<1> QED BY <1>2, <1>3

\* Only the shared secrets are renewed outside of the identities.
LEMMA StaleWhereShared ==
  ASSUME OtherStep
  PROVE  stale \subseteq stale' \cup ({RANDOM_NUMBER} \X Shared) /\ stale' \subseteq stale
<1>1. CASE AddStorageSecrets \/ AddGitopsKey \/ AddNodeKey
  <2>1. \E f \in {"storage", "gitops", "node"} : stale' = stale \/ stale' = stale \ {<<RANDOM_NUMBER, <<f>>>>}
        BY <1>1 DEF AddStorageSecrets, AddGitopsKey, AddNodeKey, AddFile, AddKeyToVault, held
  <2> QED BY <2>1 DEF Shared
<1>2. CASE ~(AddStorageSecrets \/ AddGitopsKey \/ AddNodeKey)
  <2>1. stale' = stale
        BY <1>2 DEF OtherStep, CreateResourceGroup, CreateLock, CreateKeyVault, CreateStorageAccount,
           CreateBlobContainer, MakeGitopsKey, MakePassphrase, MakeNodeKey, WriteEnvrc, Stop, held
  <2> QED BY <2>1
<1> QED BY <1>1, <1>2

\* An identity stays without its password: the password is in the shell only between its
\* creation and the next one, and an identity that is found is skipped.
LEMMA IdentityStaysLost ==
  ASSUME PrepareInv, PrepareStep, NEW i \in LostIdentities
  PROVE  i \in LostIdentities' \cup missed'
<1>1. i \in directory /\ ~HasPassword(i) /\ values["key"] # i /\ i \in IdentityNames /\ i # "empty"
      BY PrepareAssumption DEF LostIdentities, PrepareInv, ValuesOK
<1>2. CASE CreateIdentity
  <2>1. CASE i = Current
        BY <1>1, <1>2, <2>1 DEF CreateIdentity
  <2>2. CASE i # Current
    <3>1. directory \subseteq directory' /\ secrets' = secrets /\ stale \subseteq stale'
          BY <1>2 DEF CreateIdentity, Renew
    <3>2. values'["key"] \in {Current, "empty"}
          BY <1>2 DEF CreateIdentity, AllKinds
    <3> QED BY <1>1, <2>2, <3>1, <3>2 DEF LostIdentities, HasPassword
  <2> QED BY <2>1, <2>2
<1>3. CASE StoreSecret
  <2>1. /\ secrets' \ stale' \subseteq (secrets \ stale) \cup {<<RANDOM_NUMBER, <<Current, Kinds(Current)[kind], Value>>>>}
        /\ directory' = directory /\ values' = values
        BY <1>3 DEF StoreSecret, AddKeyToVault, held
  <2>2. ASSUME <<Current, Kinds(Current)[kind], Value>> = <<i, "key", i>>
        PROVE  FALSE
    <3>1. Kinds(Current)[kind] = "key" /\ Value = i
          BY <2>2
    <3> QED BY <1>1, <3>1 DEF Value
  <2>3. ~HasPassword(i)'
        BY <1>1, <2>1, <2>2 DEF HasPassword
  <2> QED BY <1>1, <2>1, <2>3 DEF LostIdentities
<1>4. CASE PrepareAgain
  <2>1. /\ directory' = directory /\ secrets' = secrets /\ stale' = stale
        /\ values'["key"] = "empty"
        BY <1>4 DEF PrepareAgain, Nobody, AllKinds, held
  <2> QED BY <1>1, <2>1 DEF LostIdentities, HasPassword
<1>5. CASE OtherStep
  <2>1. directory' = directory /\ values' = values
        BY <1>5 DEF OtherStep, CreateResourceGroup, CreateLock, CreateKeyVault, CreateStorageAccount,
           CreateBlobContainer, AddStorageSecrets, MakeGitopsKey, AddGitopsKey, AddFile, MakePassphrase,
           MakeNodeKey, AddNodeKey, WriteEnvrc, Stop, shell
  <2>2. stale \subseteq stale' \cup ({RANDOM_NUMBER} \X Shared)
        BY <1>5, StaleWhereShared
  <2>3. secrets' \subseteq secrets \cup ({RANDOM_NUMBER} \X Shared)
        BY <1>5, OtherSecrets
  <2>4. ~HasPassword(i)'
        BY <1>1, <2>2, <2>3, SharedAreNoPasswords DEF HasPassword
  <2> QED BY <1>1, <2>1, <2>4 DEF LostIdentities
<1>6. CASE SkipIdentity \/ NoValue
  <2>1. directory' = directory /\ values' = values /\ secrets' = secrets /\ stale' = stale
        BY <1>6 DEF SkipIdentity, NoValue, shell, held
  <2> QED BY <1>1, <2>1 DEF LostIdentities, HasPassword
<1> QED BY <1>2, <1>3, <1>4, <1>5, <1>6 DEF PrepareStep, OtherStep

\* No run repairs what an earlier one has left half done, but for what a query misses, for
\* any identities and however often the script is run.
THEOREM LostForGood == PrepareSpec => RepairsAreMistakes
<1>1. ASSUME PrepareInv, PrepareStep
      PROVE  Lost \subseteq Lost' \cup missed'
  <2>1. Lost = LostIdentities \cup LostNode \cup LostLock
        BY DEF Lost, LostIdentities, HasPassword, LostNode, LostLock
  <2>2. Lost' = LostIdentities' \cup LostNode' \cup LostLock'
        BY DEF Lost, LostIdentities, HasPassword, LostNode, LostLock
  <2>3. LostIdentities \subseteq LostIdentities' \cup missed'
        BY <1>1, IdentityStaysLost
  <2>4. LostNode \subseteq LostNode'
        BY <1>1, NodeStaysLost DEF LostNode
  <2>5. LostLock \subseteq LostLock' \cup missed'
        BY <1>1, LockStaysLost DEF LostLock
  <2> QED BY <2>1, <2>2, <2>3, <2>4, <2>5
<1>2. PrepareInv /\ [PrepareStep]_prepareVars => [Lost \subseteq Lost' \cup missed']_prepareVars
      BY <1>1
<1> QED BY <1>2, PrepareInitial, PrepareInductive, PTL DEF PrepareSpec, RepairsAreMistakes

-----------------------------------------------------------------------------
(* the passwords in the vaults *)

PasswordInv == PrepareInv /\ \A n, i : <<n, <<i, "key", i>>>> \in stale => i \in missed

\* A password is renewed only where a query has missed the identity: a new one has none in
\* any vault.
LEMMA PasswordInductive == PasswordInv /\ [PrepareStep]_prepareVars => PasswordInv'
<1> SUFFICES ASSUME PasswordInv, [PrepareStep]_prepareVars, NEW n, NEW i, <<n, <<i, "key", i>>>> \in stale'
             PROVE  i \in missed'
    BY PrepareInductive DEF PasswordInv
<1>1. missed \subseteq missed'
  <2>1. CASE OtherStep
        BY <2>1 DEF OtherStep, CreateResourceGroup, CreateLock, CreateKeyVault, CreateStorageAccount,
           CreateBlobContainer, AddStorageSecrets, MakeGitopsKey, AddGitopsKey, AddFile, MakePassphrase,
           MakeNodeKey, AddNodeKey, WriteEnvrc, Stop
  <2>2. CASE SkipIdentity \/ CreateIdentity \/ StoreSecret \/ NoValue \/ PrepareAgain
        BY <2>2 DEF SkipIdentity, CreateIdentity, StoreSecret, NoValue, PrepareAgain
  <2>3. CASE UNCHANGED prepareVars
        BY <2>3 DEF prepareVars
  <2> QED BY <2>1, <2>2, <2>3 DEF PrepareStep, OtherStep
<1>2. CASE CreateIdentity
  <2>1. CASE <<n, <<i, "key", i>>>> \in stale
        BY <1>1, <2>1 DEF PasswordInv
  <2>2. CASE <<n, <<i, "key", i>>>> \notin stale
    <3>1. <<n, <<i, "key", i>>>> \in secrets /\ <<i, "key", i>> = <<Current, "key", Current>>
          BY <1>2, <2>2 DEF CreateIdentity, Renew
    <3>2. i \in directory /\ i = Current
          BY <3>1 DEF PasswordInv, PrepareInv, PasswordsHaveIdentities
    <3> QED BY <1>2, <3>2 DEF CreateIdentity
  <2> QED BY <2>1, <2>2
<1>3. CASE ~CreateIdentity
  <2>1. stale' \subseteq stale
    <3>1. CASE OtherStep
          BY <3>1, StaleWhereShared
    <3>2. CASE SkipIdentity \/ StoreSecret \/ NoValue \/ PrepareAgain
          BY <3>2 DEF SkipIdentity, StoreSecret, NoValue, PrepareAgain, AddKeyToVault, held
    <3>3. CASE UNCHANGED prepareVars
          BY <3>3 DEF prepareVars, held
    <3> QED BY <1>3, <3>1, <3>2, <3>3 DEF PrepareStep, OtherStep
  <2> QED BY <1>1, <2>1 DEF PasswordInv
<1> QED BY <1>2, <1>3

\* The passwords in the vaults are valid, but for identities a query has missed, for any
\* identities and however often the script fails, is stopped and is run again.
THEOREM PasswordsStayValid == PrepareSpec => []PasswordsAreValid
<1>1. PrepareInit => PasswordInv
      BY PrepareInitial DEF PrepareInit, PasswordInv
<1>2. PasswordInv => PasswordsAreValid
      BY DEF PasswordInv, PasswordsAreValid
<1> QED BY <1>1, <1>2, PasswordInductive, PTL DEF PrepareSpec

-----------------------------------------------------------------------------
(* an undisturbed run is complete *)

PastIdentities == {"gitops", "gitopsSecret", "node", "keygen", "nodeSecret", "envrc", "done"}
PastStorage == {"identity", "store"} \cup PastIdentities
PastVault == {"account", "container", "storage"} \cup PastStorage
PastGitops == {"node", "keygen", "nodeSecret", "envrc", "done"}
PastNode == {"envrc", "done"}

\* what the vault of the run's number has, and is not renewed since
Stored == {s \in AllSecrets : <<RANDOM_NUMBER, s>> \in secrets \ stale}

\* the script is at the vault of its number, and what it has passed is stored
PassedIsStored ==
  /\ prepareAt # "stopped"
  /\ vaults \subseteq {RANDOM_NUMBER}
  /\ prepareAt \in PastVault => vaults = {RANDOM_NUMBER}
  /\ prepareAt \in PastStorage => <<"storage">> \in Stored
  /\ prepareAt \in PastGitops => <<"gitops">> \in Stored
  /\ prepareAt \in PastNode => <<"node">> \in Stored

\* every identity that is passed exists, and every one that exists has its secrets, but
\* for the current one, whose values the shell has
ExistingHaveSecrets ==
  /\ \A j \in 1 .. Len(Identities) :
       prepareAt \in PastIdentities \/ (prepareAt \in {"identity", "store"} /\ j < identity) =>
         Identities[j] \in directory
  /\ \A i \in directory : (prepareAt = "store" /\ i = Current) \/ SecretsOf(i) \subseteq Stored
  /\ prepareAt = "store" =>
       /\ Current \in directory
       /\ \A k \in AllKinds : values[k] = Current
       /\ \A k \in 1 .. Last : k < kind => <<Current, Kinds(Current)[k], Current>> \in Stored

\* What an undisturbed run has reached.
ProgressInv == PrepareTypeInv /\ (disturbances = 0 => PassedIsStored /\ ExistingHaveSecrets)

LEMMA ProgressInitial == PrepareInit => ProgressInv
<1> SUFFICES ASSUME PrepareInit
             PROVE  PassedIsStored /\ ExistingHaveSecrets
    BY PrepareTypeInitial DEF ProgressInv
<1>1. PassedIsStored
      BY DEF PrepareInit, PassedIsStored, PastVault, PastStorage, PastIdentities, PastGitops, PastNode
<1>2. ExistingHaveSecrets
      BY DEF PrepareInit, ExistingHaveSecrets, PastIdentities
<1> QED BY <1>1, <1>2

LEMMA GoUndisturbed ==
  ASSUME disturbances \in Nat, disturbances' = 0, NEW from, NEW to, NEW failed \in BOOLEAN, Go(from, to, failed)
  PROVE  disturbances = 0 /\ ~failed /\ prepareAt = from /\ prepareAt' = to /\ RANDOM_NUMBER' = RANDOM_NUMBER
BY DEF Go

\* AddKeyToVault, where nothing fails.
LEMMA AddedToVault ==
  ASSUME disturbances \in Nat, disturbances' = 0, NEW s, NEW from, NEW to, AddKeyToVault(s, from, to)
  PROVE  /\ disturbances = 0 /\ prepareAt = from /\ prepareAt' = to /\ RANDOM_NUMBER' = RANDOM_NUMBER
         /\ Stored \subseteq Stored'
         /\ s \in AllSecrets => s \in Stored'
<1>1. Go(from, to, FALSE) \/ Go(from, to, TRUE)
      BY DEF AddKeyToVault
<1>2. ~Go(from, to, TRUE)
      BY GoUndisturbed
<1>3. /\ disturbances = 0 /\ prepareAt = from /\ prepareAt' = to /\ RANDOM_NUMBER' = RANDOM_NUMBER
      BY <1>1, <1>2, GoUndisturbed
<1>4. secrets' = secrets \cup {<<RANDOM_NUMBER, s>>} /\ stale' = stale \ {<<RANDOM_NUMBER, s>>}
      BY <1>2 DEF AddKeyToVault
<1>5. Stored \subseteq Stored' /\ (s \in AllSecrets => s \in Stored')
      BY <1>3, <1>4 DEF Stored, AllSecrets, SecretsOf
<1> QED BY <1>3, <1>5

\* A new identity makes no password of a vault stale: none has one of it.
LEMMA NewIdentityKeepsStored ==
  ASSUME PrepareInv, CreateIdentity, Current \notin directory, RANDOM_NUMBER' = RANDOM_NUMBER
  PROVE  Stored' = Stored
<1>1. \A p \in secrets : p[2] # <<Current, "key", Current>>
  <2>1. ASSUME NEW p \in secrets, p[2] = <<Current, "key", Current>>
        PROVE  FALSE
    <3>1. p = <<p[1], p[2]>>
          BY DEF PrepareInv, SecretsBelongToTheirIdentity
    <3>2. <<p[1], <<Current, "key", Current>>>> \in secrets
          BY <2>1, <3>1
    <3> QED BY <3>2 DEF PrepareInv, PasswordsHaveIdentities
  <2> QED BY <2>1
<1>2. secrets' = secrets /\ stale' = stale
      BY <1>1 DEF CreateIdentity, Renew
<1> QED BY <1>2 DEF Stored, AllSecrets, SecretsOf

\* A step that is not disturbed loses nothing.
LEMMA UndisturbedStep ==
  ASSUME PrepareTypeInv, PrepareStep, disturbances' = 0
  PROVE  disturbances = 0 /\ prepareAt' # "stopped" /\ Stored \subseteq Stored' /\ RANDOM_NUMBER' = RANDOM_NUMBER
<1>0. disturbances \in Nat
      BY DEF PrepareTypeInv, PrepareTypeOK
<1>s. ASSUME UNCHANGED held, RANDOM_NUMBER' = RANDOM_NUMBER
      PROVE  Stored' = Stored
      BY <1>s DEF held, Stored, AllSecrets, SecretsOf
<1>1. CASE CreateResourceGroup \/ CreateLock \/ CreateKeyVault \/ CreateStorageAccount \/ CreateBlobContainer
  <2>2. disturbances = 0 /\ prepareAt' # "stopped" /\ RANDOM_NUMBER' = RANDOM_NUMBER
    <3>1. CASE CreateResourceGroup
          BY <1>0, <3>1 DEF CreateResourceGroup, Go
    <3>2. CASE CreateLock
          BY <1>0, <3>2 DEF CreateLock, Go
    <3>3. CASE CreateKeyVault
          BY <1>0, <3>3 DEF CreateKeyVault, Go
    <3>4. CASE CreateStorageAccount
          BY <1>0, <3>4 DEF CreateStorageAccount, Go
    <3>5. CASE CreateBlobContainer
          BY <1>0, <3>5 DEF CreateBlobContainer, Go
    <3> QED BY <1>1, <3>1, <3>2, <3>3, <3>4, <3>5
  <2>3. UNCHANGED held
        BY <1>1 DEF CreateResourceGroup, CreateLock, CreateKeyVault, CreateStorageAccount, CreateBlobContainer
  <2> QED BY <1>s, <2>2, <2>3
<1>2. CASE SkipIdentity
  <2>1. disturbances = 0 /\ prepareAt' # "stopped" /\ RANDOM_NUMBER' = RANDOM_NUMBER
        BY <1>0, <1>2 DEF SkipIdentity, AfterIdentity, Go
  <2>2. UNCHANGED held
        BY <1>2 DEF SkipIdentity
  <2> QED BY <1>s, <2>1, <2>2
<1>3. CASE CreateIdentity
  <2>1. PICK got : Go("identity", "store", Current \in directory \/ got # AllKinds)
        BY <1>3 DEF CreateIdentity
  <2>2. disturbances = 0 /\ Current \notin directory /\ prepareAt' = "store" /\ RANDOM_NUMBER' = RANDOM_NUMBER
        BY <1>0, <2>1, GoUndisturbed
  <2> QED BY <1>3, <2>2, NewIdentityKeepsStored DEF PrepareTypeInv
<1>4. CASE NoValue
      BY <1>0, <1>4, GoUndisturbed DEF NoValue
<1>5. CASE StoreSecret
  <2>1. PICK s, to : AddKeyToVault(s, "store", to) /\ to # "stopped"
        BY <1>5 DEF StoreSecret, AfterIdentity
  <2> QED BY <1>0, <2>1, AddedToVault
<1>6. CASE MakeGitopsKey \/ MakePassphrase \/ MakeNodeKey \/ WriteEnvrc
  <2>1. disturbances = 0 /\ prepareAt' # "stopped" /\ RANDOM_NUMBER' = RANDOM_NUMBER
        BY <1>0, <1>6 DEF MakeGitopsKey, MakePassphrase, MakeNodeKey, WriteEnvrc, Go
  <2>2. UNCHANGED held
        BY <1>6 DEF MakeGitopsKey, MakePassphrase, MakeNodeKey, WriteEnvrc
  <2> QED BY <1>s, <2>1, <2>2
<1>7. CASE AddStorageSecrets \/ AddGitopsKey \/ AddNodeKey
  <2>1. PICK s, from, to : to # "stopped" /\ (AddKeyToVault(s, from, to) \/ Go(from, to, TRUE))
        BY <1>7 DEF AddStorageSecrets, AddGitopsKey, AddNodeKey, AddFile
  <2>2. AddKeyToVault(s, from, to)
        BY <1>0, <2>1, GoUndisturbed
  <2> QED BY <1>0, <2>1, <2>2, AddedToVault
<1>8. CASE Stop
      BY <1>0, <1>8, GoUndisturbed DEF Stop
<1>9. CASE PrepareAgain
  <2>1. disturbances = 0 /\ RANDOM_NUMBER' = RANDOM_NUMBER /\ prepareAt' = "group" /\ UNCHANGED held
        BY <1>0, <1>9 DEF PrepareAgain
  <2> QED BY <1>s, <2>1
<1> QED BY <1>1, <1>2, <1>3, <1>4, <1>5, <1>6, <1>7, <1>8, <1>9 DEF PrepareStep

\* The vault and the shared secrets.
LEMMA PassedStaysStored ==
  ASSUME PrepareTypeInv, PrepareStep, disturbances' = 0, PassedIsStored
  PROVE  PassedIsStored'
<1>0. disturbances \in Nat
      BY DEF PrepareTypeInv, PrepareTypeOK
<1>1. prepareAt' # "stopped" /\ Stored \subseteq Stored' /\ RANDOM_NUMBER' = RANDOM_NUMBER
      BY UndisturbedStep
<1>a. Shared \subseteq AllSecrets
      BY SharedSecrets
<1> USE DEF PastVault, PastStorage, PastIdentities, PastGitops, PastNode
<1>2. CASE CreateResourceGroup \/ CreateLock \/ CreateStorageAccount \/ CreateBlobContainer
  <2>1. vaults' = vaults
        BY <1>2 DEF CreateResourceGroup, CreateLock, CreateStorageAccount, CreateBlobContainer
  <2>2. /\ prepareAt' \in PastVault => prepareAt \in PastVault
        /\ prepareAt' \notin PastStorage
        BY <1>1, <1>2 DEF CreateResourceGroup, CreateLock, CreateStorageAccount, CreateBlobContainer, Go
  <2>3. prepareAt' \notin PastGitops /\ prepareAt' \notin PastNode
        BY <2>2
  <2> QED BY <1>1, <2>1, <2>2, <2>3 DEF PassedIsStored
<1>3. CASE CreateKeyVault
  <2>1. prepareAt' = "account"
        BY <1>3 DEF CreateKeyVault, Go
  <2>2. ~Go("vault", "account", TRUE)
        BY <1>0, GoUndisturbed
  <2>3. vaults' = {RANDOM_NUMBER}
        BY <1>3, <2>2 DEF CreateKeyVault, PassedIsStored
  <2> QED BY <1>1, <2>1, <2>3 DEF PassedIsStored
<1>4. CASE AddStorageSecrets
  <2>1. AddKeyToVault(<<"storage">>, "storage", "identity") /\ vaults' = vaults /\ <<"storage">> \in AllSecrets
        BY <1>4, <1>a DEF AddStorageSecrets, cloud, Shared
  <2>2. prepareAt = "storage" /\ prepareAt' = "identity" /\ <<"storage">> \in Stored'
        BY <1>0, <2>1, AddedToVault
  <2> QED BY <1>1, <2>1, <2>2 DEF PassedIsStored
<1>5. CASE SkipIdentity \/ CreateIdentity \/ StoreSecret \/ NoValue
  <2>1. /\ prepareAt \in {"identity", "store"} /\ prepareAt' \in {"identity", "store", "gitops", "stopped"}
        /\ vaults' = vaults
        BY <1>5 DEF SkipIdentity, CreateIdentity, StoreSecret, NoValue, AddKeyToVault, AfterIdentity, Go, cloud
  <2> QED BY <1>1, <2>1 DEF PassedIsStored
<1>6. CASE MakeGitopsKey \/ MakePassphrase \/ MakeNodeKey
  <2>1. vaults' = vaults
        BY <1>6 DEF MakeGitopsKey, MakePassphrase, MakeNodeKey, cloud
  <2>2. \/ prepareAt = "gitops" /\ prepareAt' = "gitopsSecret"
        \/ prepareAt \in {"node", "keygen"} /\ prepareAt' \in {"keygen", "nodeSecret"}
        BY <1>6 DEF MakeGitopsKey, MakePassphrase, MakeNodeKey, Go
  <2> QED BY <1>1, <2>1, <2>2 DEF PassedIsStored
<1>7. CASE AddGitopsKey
  <2>1. vaults' = vaults /\ <<"gitops">> \in AllSecrets
        BY <1>7, <1>a DEF AddGitopsKey, AddFile, cloud, Shared
  <2>2. AddKeyToVault(<<"gitops">>, "gitopsSecret", "node")
        BY <1>0, <1>7, GoUndisturbed DEF AddGitopsKey, AddFile
  <2>3. prepareAt = "gitopsSecret" /\ prepareAt' = "node" /\ <<"gitops">> \in Stored'
        BY <1>0, <2>1, <2>2, AddedToVault
  <2> QED BY <1>1, <2>1, <2>3 DEF PassedIsStored
<1>8. CASE AddNodeKey
  <2>1. vaults' = vaults /\ <<"node">> \in AllSecrets
        BY <1>8, <1>a DEF AddNodeKey, AddFile, cloud, Shared
  <2>2. AddKeyToVault(<<"node">>, "nodeSecret", "envrc")
        BY <1>0, <1>8, GoUndisturbed DEF AddNodeKey, AddFile
  <2>3. prepareAt = "nodeSecret" /\ prepareAt' = "envrc" /\ <<"node">> \in Stored'
        BY <1>0, <2>1, <2>2, AddedToVault
  <2> QED BY <1>1, <2>1, <2>3 DEF PassedIsStored
<1>9. CASE WriteEnvrc
  <2>1. prepareAt = "envrc" /\ prepareAt' = "done" /\ vaults' = vaults
        BY <1>9 DEF WriteEnvrc, Go, cloud
  <2> QED BY <1>1, <2>1 DEF PassedIsStored
<1>10. CASE Stop \/ PrepareAgain
  <2>1. prepareAt' \in {"group", "stopped"} /\ vaults' = vaults
        BY <1>10 DEF Stop, PrepareAgain, Go, cloud
  <2> QED BY <1>1, <2>1 DEF PassedIsStored
<1> QED BY <1>2, <1>3, <1>4, <1>5, <1>6, <1>7, <1>8, <1>9, <1>10 DEF PrepareStep

\* The identities, before and after the script is at them.
LEMMA OtherStepsKeepIdentities ==
  ASSUME PrepareInv, OtherStep, prepareAt' # "stopped", Stored \subseteq Stored', ExistingHaveSecrets
  PROVE  ExistingHaveSecrets'
<1>1. identity' = identity /\ directory' = directory
      BY DEF OtherStep, CreateResourceGroup, CreateLock, CreateKeyVault, CreateStorageAccount,
         CreateBlobContainer, AddStorageSecrets, MakeGitopsKey, AddGitopsKey, AddFile, MakePassphrase,
         MakeNodeKey, AddNodeKey, WriteEnvrc, Stop, shell
<1>2. /\ prepareAt # "store" /\ prepareAt' # "store"
      /\ prepareAt' \in PastIdentities => prepareAt \in PastIdentities
      /\ prepareAt' = "identity" => prepareAt = "storage"
  <2>1. CASE CreateResourceGroup \/ CreateLock \/ CreateKeyVault \/ CreateStorageAccount
        BY <2>1 DEF CreateResourceGroup, CreateLock, CreateKeyVault, CreateStorageAccount, Go, PastIdentities
  <2>2. CASE CreateBlobContainer \/ AddStorageSecrets
        BY <2>2 DEF CreateBlobContainer, AddStorageSecrets, AddKeyToVault, Go, PastIdentities
  <2>3. CASE MakeGitopsKey \/ AddGitopsKey \/ MakePassphrase \/ MakeNodeKey \/ AddNodeKey \/ WriteEnvrc
        BY <2>3 DEF MakeGitopsKey, AddGitopsKey, AddFile, AddKeyToVault, MakePassphrase, MakeNodeKey,
           AddNodeKey, WriteEnvrc, Go, PastIdentities
  <2>4. CASE Stop
        BY <2>4 DEF Stop, Go
  <2> QED BY <2>1, <2>2, <2>3, <2>4 DEF OtherStep
<1>3. prepareAt' = "identity" => \A j \in 1 .. Len(Identities) : ~(j < identity')
      BY <1>1, <1>2 DEF PrepareInv, IndexOK, BeforeIdentities
<1>4. \A j \in 1 .. Len(Identities) :
        prepareAt' \in PastIdentities \/ (prepareAt' \in {"identity", "store"} /\ j < identity') =>
          Identities[j] \in directory'
      BY <1>1, <1>2, <1>3 DEF ExistingHaveSecrets
<1>5. \A i \in directory' : SecretsOf(i) \subseteq Stored'
      BY <1>1, <1>2 DEF ExistingHaveSecrets
<1> QED BY <1>2, <1>4, <1>5 DEF ExistingHaveSecrets

\* One identity after the other.
LEMMA IdentitiesKeepSecrets ==
  ASSUME PrepareTypeInv, ExistingHaveSecrets, disturbances' = 0, prepareAt' # "stopped", Stored \subseteq Stored',
         SkipIdentity \/ CreateIdentity \/ StoreSecret \/ NoValue
  PROVE  ExistingHaveSecrets'
<1>d. disturbances \in Nat /\ PrepareInv
      BY DEF PrepareTypeInv, PrepareTypeOK
<1>0. identity \in 1 .. Len(Identities)
      BY <1>d DEF PrepareInv, IndexOK, SkipIdentity, CreateIdentity, StoreSecret, NoValue, Go
<1>1. ASSUME identity' = identity + 1, prepareAt' = AfterIdentity, directory' = directory, Current \in directory,
             prepareAt \in {"identity", "store"}, \A i \in directory : SecretsOf(i) \subseteq Stored'
      PROVE  ExistingHaveSecrets'
  <2>1. prepareAt' # "store"
        BY <1>1 DEF AfterIdentity
  <2>2. ASSUME NEW j \in 1 .. Len(Identities),
               prepareAt' \in PastIdentities \/ (prepareAt' \in {"identity", "store"} /\ j < identity')
        PROVE  Identities[j] \in directory'
    <3>1. j < identity \/ j = identity
      <4>1. CASE identity = Len(Identities)
            BY <1>0, <4>1, PrepareAssumption
      <4>2. CASE identity # Len(Identities)
        <5>1. prepareAt' = "identity"
              BY <1>1, <4>2 DEF AfterIdentity
        <5>2. j < identity + 1
              BY <1>1, <2>2, <5>1 DEF PastIdentities
        <5> QED BY <1>0, <5>2, PrepareAssumption
      <4> QED BY <4>1, <4>2
    <3>2. CASE j = identity
          BY <1>1, <3>2 DEF Current
    <3>3. CASE j < identity
          BY <1>1, <3>3 DEF ExistingHaveSecrets
    <3> QED BY <3>1, <3>2, <3>3
  <2> QED BY <1>1, <2>1, <2>2 DEF ExistingHaveSecrets
<1>2. CASE SkipIdentity
  <2>1. /\ prepareAt = "identity" /\ prepareAt' = AfterIdentity /\ identity' = identity + 1
        /\ Current \in directory /\ directory' = directory
        BY <1>2 DEF SkipIdentity, Go
  <2>2. \A i \in directory : SecretsOf(i) \subseteq Stored'
        BY <2>1 DEF ExistingHaveSecrets
  <2> QED BY <1>1, <2>1, <2>2
<1>3. CASE CreateIdentity
  <2>1. /\ prepareAt = "identity" /\ prepareAt' = "store" /\ identity' = identity /\ kind' = kind
        /\ directory \subseteq directory' /\ directory' \subseteq directory \cup {Current}
        BY <1>3 DEF CreateIdentity, Go
  <2>2. PICK got \in SUBSET AllKinds :
          /\ Current \in directory' \/ got = {}
          /\ values' = [k \in AllKinds |-> IF k \in got THEN Current ELSE "empty"]
          /\ Go("identity", "store", Current \in directory \/ got # AllKinds)
        BY <1>3 DEF CreateIdentity
  <2>3. got = AllKinds
        BY <1>d, <2>2, GoUndisturbed
  <2>4. \A k \in AllKinds : Current \in directory' /\ values'[k] = Current
        BY <2>2, <2>3 DEF AllKinds
  <2>5. Current' = Current /\ Current \in directory' /\ kind' = 1 /\ Last' = Last /\ Last \in {2, 3}
        BY <1>d, <2>1, <2>4, KindsListed DEF Current, AllKinds, PrepareInv, IndexOK, Last
  <2>6. \A j \in 1 .. Len(Identities) : j < identity' => Identities[j] \in directory'
        BY <2>1 DEF ExistingHaveSecrets
  <2>7. \A i \in directory' : i = Current \/ SecretsOf(i) \subseteq Stored'
        BY <2>1 DEF ExistingHaveSecrets
  <2>8. \A k \in 1 .. Last : ~(k < kind')
        BY <2>5
  <2> QED BY <2>1, <2>4, <2>5, <2>6, <2>7, <2>8 DEF ExistingHaveSecrets, PastIdentities
<1>4. CASE StoreSecret
  <2>1. /\ prepareAt = "store" /\ values' = values /\ directory' = directory
        BY <1>4 DEF StoreSecret
  <2>2. kind \in 1 .. Last /\ Last \in {2, 3}
        BY <1>d, <2>1, KindsListed DEF PrepareInv, IndexOK, Last
  <2>3. Value = Current
        BY <2>1, <2>2, KindsListed DEF ExistingHaveSecrets, Value, Last
  <2>4. <<Current, Kinds(Current)[kind], Current>> \in Stored'
    <3>1. PICK to : AddKeyToVault(<<Current, Kinds(Current)[kind], Current>>, "store", to)
          BY <1>4, <2>3 DEF StoreSecret
    <3>2. <<Current, Kinds(Current)[kind], Current>> \in AllSecrets
          BY <1>0, <2>2, StoredSecret
    <3> QED BY <1>d, <3>1, <3>2, AddedToVault
  <2>5. \A k \in 1 .. Last : k < kind + 1 => <<Current, Kinds(Current)[k], Current>> \in Stored'
    <3>1. \A k \in 1 .. Last : k < kind + 1 => k < kind \/ k = kind
          BY <2>2
    <3> QED BY <2>1, <2>4, <3>1 DEF ExistingHaveSecrets
  <2>6. CASE kind < Last
    <3>1. kind' = kind + 1 /\ identity' = identity /\ prepareAt' = "store"
          BY <1>4, <2>6 DEF StoreSecret, AddKeyToVault, Go
    <3>2. Current' = Current /\ Last' = Last
          BY <3>1 DEF Current, Last
    <3>3. \A j \in 1 .. Len(Identities) : j < identity' => Identities[j] \in directory'
          BY <2>1, <3>1 DEF ExistingHaveSecrets
    <3>4. \A i \in directory' : i = Current \/ SecretsOf(i) \subseteq Stored'
          BY <2>1 DEF ExistingHaveSecrets
    <3>5. Current \in directory' /\ \A k \in AllKinds : values'[k] = Current
          BY <2>1 DEF ExistingHaveSecrets
    <3> QED BY <2>5, <3>1, <3>2, <3>3, <3>4, <3>5 DEF ExistingHaveSecrets, PastIdentities
  <2>7. CASE ~(kind < Last)
    <3>1. identity' = identity + 1 /\ prepareAt' = AfterIdentity
          BY <1>4, <2>7 DEF StoreSecret, AddKeyToVault, Go
    <3>2. \A k \in 1 .. Last : k < kind + 1
          BY <2>2, <2>7
    <3>3. SecretsOf(Current) \subseteq Stored'
          BY <2>5, <3>2 DEF SecretsOf, Last
    <3>4. \A i \in directory : SecretsOf(i) \subseteq Stored'
          BY <3>3 DEF ExistingHaveSecrets
    <3>5. Current \in directory
          BY <2>1 DEF ExistingHaveSecrets
    <3> QED BY <1>1, <2>1, <3>1, <3>4, <3>5
  <2> QED BY <2>6, <2>7
<1>5. CASE NoValue
      BY <1>d, <1>5, GoUndisturbed DEF NoValue
<1> QED BY <1>2, <1>3, <1>4, <1>5

LEMMA ProgressInductive == ProgressInv /\ [PrepareStep]_prepareVars => ProgressInv'
<1> SUFFICES ASSUME ProgressInv, [PrepareStep]_prepareVars
             PROVE  ProgressInv'
    OBVIOUS
<1>0. PrepareTypeInv'
      BY PrepareTypeInductive DEF ProgressInv
<1>1. ASSUME PrepareStep, disturbances' = 0
      PROVE  PassedIsStored' /\ ExistingHaveSecrets'
  <2>1. disturbances = 0 /\ prepareAt' # "stopped" /\ Stored \subseteq Stored'
        BY <1>1, UndisturbedStep DEF ProgressInv
  <2>2. PrepareTypeInv /\ PrepareInv /\ PassedIsStored /\ ExistingHaveSecrets
        BY <2>1 DEF ProgressInv, PrepareTypeInv
  <2>3. PassedIsStored'
        BY <1>1, <2>2, PassedStaysStored
  <2>4. CASE OtherStep
        BY <2>1, <2>2, <2>3, <2>4, OtherStepsKeepIdentities
  <2>5. CASE SkipIdentity \/ CreateIdentity \/ StoreSecret \/ NoValue
        BY <1>1, <2>1, <2>2, <2>3, <2>5, IdentitiesKeepSecrets
  <2>6. CASE PrepareAgain
    <3>1. prepareAt \in {"done", "stopped"} /\ prepareAt' = "group" /\ directory' = directory
          BY <2>6 DEF PrepareAgain
    <3>2. \A i \in directory : SecretsOf(i) \subseteq Stored'
          BY <2>1, <2>2, <3>1 DEF ExistingHaveSecrets
    <3>3. ExistingHaveSecrets'
          BY <3>1, <3>2 DEF ExistingHaveSecrets, PastIdentities
    <3> QED BY <2>3, <3>3
  <2>7. OtherStep \/ SkipIdentity \/ CreateIdentity \/ StoreSecret \/ NoValue \/ PrepareAgain
        BY <1>1 DEF PrepareStep, OtherStep
  <2> QED BY <2>3, <2>4, <2>5, <2>6, <2>7
<1>2. ASSUME UNCHANGED prepareVars, disturbances' = 0
      PROVE  PassedIsStored' /\ ExistingHaveSecrets'
  <2>1. /\ UNCHANGED <<prepareAt, RANDOM_NUMBER, vaults, directory, identity, values, kind, secrets, stale, disturbances>>
        /\ Stored' = Stored
        BY <1>2 DEF prepareVars, shell, cloud, held, Stored, AllSecrets, SecretsOf
  <2>2. PassedIsStored /\ ExistingHaveSecrets
        BY <1>2, <2>1 DEF ProgressInv
  <2>3. PassedIsStored'
        BY <2>1, <2>2 DEF PassedIsStored
  <2>4. ExistingHaveSecrets'
        BY <2>1, <2>2 DEF ExistingHaveSecrets, Current, Last
  <2> QED BY <2>3, <2>4
<1> QED BY <1>0, <1>1, <1>2 DEF ProgressInv

\* Without a disturbance a completed run leaves the vault of its number with every secret,
\* for any identities and however often the script was run before.
THEOREM UndisturbedIsComplete == PrepareSpec => []UndisturbedRunIsComplete
<1>1. ASSUME ProgressInv, prepareAt = "done", disturbances = 0
      PROVE  {RANDOM_NUMBER} \X AllSecrets \subseteq secrets \ stale
  <2>1. PassedIsStored /\ ExistingHaveSecrets
        BY <1>1 DEF ProgressInv
  <2>2. Shared \subseteq Stored
        BY <1>1, <2>1 DEF PassedIsStored, PastStorage, PastIdentities, PastGitops, PastNode, Shared
  <2>3. \A i \in IdentityNames : SecretsOf(i) \subseteq Stored
        BY <1>1, <2>1 DEF ExistingHaveSecrets, IdentityNames, PastIdentities
  <2>4. AllSecrets \subseteq Stored
        BY <2>2, <2>3 DEF AllSecrets, Shared
  <2> QED BY <2>4 DEF Stored
<1>2. ProgressInv => UndisturbedRunIsComplete
      BY <1>1 DEF UndisturbedRunIsComplete
<1> QED BY <1>2, ProgressInitial, ProgressInductive, PTL DEF PrepareSpec

-----------------------------------------------------------------------------
(* how far the script has come *)

PlaceNames ==
  {"group", "lock", "vault", "account", "container", "storage", "identity", "store",
   "gitops", "gitopsSecret", "node", "keygen", "nodeSecret", "envrc", "done", "stopped"}

\* The places of the script, in its order; a run that has stopped is past all of them.
RankAt ==
  [p \in PlaceNames |->
     CASE p = "group" -> 0 [] p = "lock" -> 1 [] p = "vault" -> 2
       [] p = "account" -> 3 [] p = "container" -> 4 [] p = "storage" -> 5
       [] p \in {"identity", "store"} -> 6
       [] p = "gitops" -> 7 [] p = "gitopsSecret" -> 8
       [] p = "node" -> 9 [] p = "keygen" -> 10 [] p = "nodeSecret" -> 11
       [] p = "envrc" -> 12 [] p = "done" -> 13 [] p = "stopped" -> 14]

PlaceRank == RankAt[prepareAt]

LEMMA Ranks ==
  /\ RankAt["group"] = 0 /\ RankAt["lock"] = 1 /\ RankAt["vault"] = 2
  /\ RankAt["account"] = 3 /\ RankAt["container"] = 4 /\ RankAt["storage"] = 5
  /\ RankAt["identity"] = 6 /\ RankAt["store"] = 6
  /\ RankAt["gitops"] = 7 /\ RankAt["gitopsSecret"] = 8
  /\ RankAt["node"] = 9 /\ RankAt["keygen"] = 10 /\ RankAt["nodeSecret"] = 11
  /\ RankAt["envrc"] = 12 /\ RankAt["done"] = 13 /\ RankAt["stopped"] = 14
BY DEF RankAt, PlaceNames

LEMMA RanksTyped == RankAt \in [PlaceNames -> 0 .. 14]
BY Ranks DEF RankAt, PlaceNames

\* From one place to another, outside of the identities.
Way(from, to) ==
  \/ from = "group" /\ to \in {"vault", "lock"}
  \/ from = "lock" /\ to = "vault"
  \/ from = "vault" /\ to = "account"
  \/ from = "account" /\ to = "container"
  \/ from = "container" /\ to \in {"storage", "stopped"}
  \/ from = "storage" /\ to = "identity"
  \/ from = "store" /\ to = "stopped"
  \/ from = "gitops" /\ to = "gitopsSecret"
  \/ from = "gitopsSecret" /\ to = "node"
  \/ from = "node" /\ to \in {"nodeSecret", "keygen"}
  \/ from = "keygen" /\ to = "nodeSecret"
  \/ from = "nodeSecret" /\ to = "envrc"
  \/ from = "envrc" /\ to = "done"

LEMMA WaysLeadOn ==
  ASSUME NEW from, NEW to, Way(from, to)
  PROVE  from \in PlaceNames /\ to \in PlaceNames /\ RankAt[to] > RankAt[from]
BY Ranks, RanksTyped DEF Way, PlaceNames

SecretRank == IF prepareAt = "store" THEN kind ELSE 0

\* The run, in it the place, there the identity, and of that the secret: the first of them
\* that changes grows.
FurtherPrepared ==
  \/ prepareRuns' > prepareRuns
  \/ prepareRuns' = prepareRuns /\ PlaceRank' > PlaceRank
  \/ prepareRuns' = prepareRuns /\ PlaceRank' = PlaceRank /\ identity' > identity
  \/ prepareRuns' = prepareRuns /\ PlaceRank' = PlaceRank /\ identity' = identity /\ SecretRank' > SecretRank

\* A step from one place to a later one.
LEMMA GoesOn ==
  ASSUME NEW from, NEW to, NEW failed, Go(from, to, failed),
         from \in PlaceNames, to \in PlaceNames, RankAt[to] > RankAt[from]
  PROVE  FurtherPrepared
<1>1. prepareRuns' = prepareRuns /\ PlaceRank = RankAt[from] /\ PlaceRank' = RankAt[to]
      BY DEF Go, PlaceRank
<1> QED BY <1>1 DEF FurtherPrepared

\* Every step brings the preparation further, whatever fails, exists already or is
\* stopped: a run comes back to no place, identity or secret it has passed.  With the
\* limits of PrepareTypeCorrect no behaviour goes on for ever.
THEOREM PrepareMovesOn == PrepareSpec => [][FurtherPrepared]_prepareVars
<1>1. ASSUME PrepareTypeInv, PrepareStep
      PROVE  FurtherPrepared
  <2>t. /\ prepareRuns \in Nat /\ identity \in Nat /\ kind \in 1 .. 3
        /\ prepareAt = "identity" => kind = 1
    <3>0. /\ prepareRuns \in 1 .. MaxPrepareRuns /\ identity \in 1 .. Len(Identities) + 1
          /\ kind \in 1 .. 3
          BY <1>1 DEF PrepareTypeInv, PrepareTypeOK
    <3>1. prepareRuns \in Nat /\ identity \in Nat /\ kind \in 1 .. 3
          BY <3>0, PrepareAssumption
    <3>2. prepareAt = "identity" => kind = 1
          BY <1>1 DEF PrepareTypeInv, PrepareInv, IndexOK
    <3> QED BY <3>1, <3>2
  <2>1. CASE PrepareAgain
        BY <2>t, <2>1 DEF PrepareAgain, FurtherPrepared
  <2>2. CASE Stop
    <3>1. Go(prepareAt, "stopped", TRUE) /\ prepareAt \in PlaceNames \ {"done", "stopped"}
          BY <1>1, <2>2 DEF Stop, PrepareTypeInv, PrepareTypeOK, PlaceNames
    <3>2. RankAt["stopped"] > RankAt[prepareAt]
          BY <3>1, Ranks DEF PlaceNames
    <3> QED BY <3>1, <3>2, GoesOn DEF PlaceNames
  <2>3. CASE SkipIdentity
    <3>1. prepareRuns' = prepareRuns /\ identity' = identity + 1 /\ prepareAt = "identity" /\ prepareAt' \in {"identity", "gitops"}
          BY <2>3 DEF SkipIdentity, Go, AfterIdentity
    <3>2. PlaceRank = 6 /\ PlaceRank' \in {6, 7}
          BY <3>1, Ranks DEF PlaceRank
    <3> QED BY <2>t, <3>1, <3>2 DEF FurtherPrepared
  <2>4. CASE CreateIdentity
    <3>1. /\ prepareRuns' = prepareRuns /\ identity' = identity /\ kind' = kind
          /\ prepareAt = "identity" /\ prepareAt' = "store"
          BY <2>4 DEF CreateIdentity, Go
    <3>2. PlaceRank' = PlaceRank /\ SecretRank = 0 /\ SecretRank' = kind
          BY <3>1, Ranks DEF PlaceRank, SecretRank
    <3> QED BY <2>t, <3>1, <3>2 DEF FurtherPrepared
  <2>5. CASE StoreSecret
    <3>1. CASE kind < Last
      <4>1. /\ prepareRuns' = prepareRuns /\ identity' = identity /\ kind' = kind + 1
            /\ prepareAt = "store" /\ prepareAt' = "store"
            BY <2>5, <3>1 DEF StoreSecret, AddKeyToVault, Go
      <4>2. PlaceRank' = PlaceRank /\ SecretRank = kind /\ SecretRank' = kind + 1
            BY <4>1 DEF PlaceRank, SecretRank
      <4> QED BY <2>t, <4>1, <4>2 DEF FurtherPrepared
    <3>2. CASE ~(kind < Last)
      <4>1. prepareRuns' = prepareRuns /\ identity' = identity + 1 /\ prepareAt = "store" /\ prepareAt' \in {"identity", "gitops"}
            BY <2>5, <3>2 DEF StoreSecret, AddKeyToVault, AfterIdentity, Go
      <4>2. PlaceRank = 6 /\ PlaceRank' \in {6, 7}
            BY <4>1, Ranks DEF PlaceRank
      <4> QED BY <2>t, <4>1, <4>2 DEF FurtherPrepared
    <3> QED BY <3>1, <3>2
  <2>6. ASSUME NEW from, NEW to, NEW failed, Go(from, to, failed), Way(from, to)
        PROVE  FurtherPrepared
    BY <2>6, WaysLeadOn, GoesOn
  <2>7. CASE CreateResourceGroup \/ CreateLock \/ CreateKeyVault \/ CreateStorageAccount
             \/ CreateBlobContainer \/ AddStorageSecrets
    <3>1. PICK from, to, failed : Go(from, to, failed) /\ Way(from, to)
          BY <2>7 DEF CreateResourceGroup, CreateLock, CreateKeyVault, CreateStorageAccount,
                      CreateBlobContainer, AddStorageSecrets, AddKeyToVault, Way
    <3> QED BY <3>1, <2>6
  <2>8. CASE NoValue \/ MakeGitopsKey \/ AddGitopsKey \/ MakePassphrase \/ MakeNodeKey
             \/ AddNodeKey \/ WriteEnvrc
    <3>1. PICK from, to, failed : Go(from, to, failed) /\ Way(from, to)
          BY <2>8 DEF NoValue, MakeGitopsKey, AddGitopsKey, MakePassphrase, MakeNodeKey, AddNodeKey,
                      WriteEnvrc, AddFile, AddKeyToVault, Way
    <3> QED BY <3>1, <2>6
  <2> QED BY <1>1, <2>1, <2>2, <2>3, <2>4, <2>5, <2>6, <2>7, <2>8 DEF PrepareStep
<1>2. PrepareTypeInv /\ [PrepareStep]_prepareVars => [FurtherPrepared]_prepareVars
      BY <1>1
<1> QED BY <1>2, PrepareTypeInitial, PrepareTypeInductive, PTL DEF PrepareSpec
=============================================================================
