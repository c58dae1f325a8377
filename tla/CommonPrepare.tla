--------------------------- MODULE CommonPrepare ---------------------------
(***************************************************************************)
(* infra/scripts/common_prepare.sh: it creates what is missing of a        *)
(* resource group, a vault, a storage account, some identities and two     *)
(* ssh keys, and stores their secrets in the vault.  There is no set -e: an *)
(* az command that creates or stores may fail and leave a variable empty,  *)
(* and only AddKeyToVault and CreateBlobContainer end the script, on an    *)
(* empty value.  A query that fails gives nothing, too, so that what       *)
(* exists is created again: the identities get another password.  A script *)
(* that was stopped is run again, with RANDOM_NUMBER exported or with a    *)
(* new one.                                                                *)
(***************************************************************************)
EXTENDS Naturals, Sequences

CONSTANTS
  Identities,      \* the principals and applications, in the order of the script
  TfPrincipals,    \* those CreateTfPrincipal creates
  PrepareNumbers,  \* bound: the numbers that may be drawn
  MaxPrepareRuns   \* bound: how often the script is run

IdentityNames == {Identities[k] : k \in 1 .. Len(Identities)}

ASSUME PrepareAssumption ==
  /\ Len(Identities) \in Nat \ {0}
  /\ IdentityNames \cap {"empty", "storage", "gitops", "node", "group"} = {}
  /\ PrepareNumbers # {}
  /\ MaxPrepareRuns \in Nat \ {0}

AllKinds == {"id", "key", "oid"}

\* the secrets that are stored for an identity, in this order
Kinds(i) == IF i \in TfPrincipals THEN <<"id", "key">> ELSE <<"id", "key", "oid">>

\* <<identity, kind, whose>> for an identity, <<name>> for the storage account and the two keys
SecretsOf(i) == {<<i, Kinds(i)[k], i>> : k \in 1 .. Len(Kinds(i))}
AllSecrets == (UNION {SecretsOf(i) : i \in IdentityNames}) \cup {<<"storage">>, <<"gitops">>, <<"node">>}

VARIABLES
  prepareAt,      \* where the script is
  RANDOM_NUMBER,  \* of this run: vault and storage account are named after it
  group,          \* "absent", "unlocked", "locked"
  vaults,         \* the numbers in the names of the group's vaults
  accounts, containers,  \* numbers of the storage accounts, and of those with the container
  directory,      \* identities that exist
  identity,       \* index of the one the script is at
  values,         \* PRINCIPAL_ID, _SECRET, _OID or APP_...: whose they are, or "empty"
  kind,           \* index of the secret to be stored next
  secrets,        \* what the vaults hold: <<number of the vault, secret>>
  stale,          \* those of them that were renewed since
  missed,         \* "group" and identities that exist and a query did not find
  files,          \* what ~/.ssh/osdu_UNIQUE holds
  disturbances,   \* how often a command failed, a run was stopped, or another number was drawn
  prepareRuns

cloud == <<group, vaults, accounts, containers>>
held == <<secrets, stale>>
shell == <<identity, values, kind>>
prepareVars == <<prepareAt, RANDOM_NUMBER, cloud, directory, shell, held, missed, files, disturbances, prepareRuns>>

Nobody == [k \in AllKinds |-> "empty"]

PrepareInit ==
  /\ prepareAt = "group" /\ RANDOM_NUMBER \in PrepareNumbers
  /\ group = "absent" /\ vaults = {} /\ accounts = {} /\ containers = {}
  /\ directory = {} /\ identity = 1 /\ values = Nobody /\ kind = 1
  /\ secrets = {} /\ stale = {} /\ missed = {} /\ files = {}
  /\ disturbances = 0 /\ prepareRuns = 1

\* the script goes on from one place to the next; a command failed or not
Go(from, to, failed) ==
  /\ prepareAt = from /\ prepareAt' = to
  /\ disturbances' = disturbances + IF failed THEN 1 ELSE 0
  /\ UNCHANGED <<RANDOM_NUMBER, prepareRuns>>

\* AddKeyToVault: the result of az is not looked at; without its vault it fails
AddKeyToVault(s, from, to) ==
  \/ /\ RANDOM_NUMBER \in vaults
     /\ secrets' = secrets \cup {<<RANDOM_NUMBER, s>>} /\ stale' = stale \ {<<RANDOM_NUMBER, s>>}
     /\ Go(from, to, FALSE)
  \/ UNCHANGED held /\ Go(from, to, TRUE)

-----------------------------------------------------------------------------
(* group, vault and storage account *)

CreateResourceGroup ==
  /\ \/ group # "absent" /\ UNCHANGED <<group, missed>> /\ Go("group", "vault", FALSE)
     \/ group = "absent" /\ group' = "unlocked" /\ UNCHANGED missed /\ Go("group", "lock", FALSE)
     \/ group = "absent" /\ UNCHANGED <<group, missed>> /\ Go("group", "lock", TRUE)
     \/ group # "absent" /\ UNCHANGED group /\ missed' = missed \cup {"group"} /\ Go("group", "lock", TRUE)
  /\ UNCHANGED <<vaults, accounts, containers, directory, shell, held, files>>

\* second half of CreateResourceGroup
CreateLock ==
  /\ \/ group = "unlocked" /\ group' = "locked" /\ Go("lock", "vault", FALSE)
     \/ UNCHANGED group /\ Go("lock", "vault", TRUE)
  /\ UNCHANGED <<vaults, accounts, containers, directory, shell, held, missed, files>>

\* whatever vault the group has is taken for the one of this number
CreateKeyVault ==
  /\ \/ vaults # {} /\ UNCHANGED vaults /\ Go("vault", "account", FALSE)
     \/ group # "absent" /\ vaults' = vaults \cup {RANDOM_NUMBER} /\ Go("vault", "account", vaults # {})
     \/ UNCHANGED vaults /\ Go("vault", "account", TRUE)
  /\ UNCHANGED <<group, accounts, containers, directory, shell, held, missed, files>>

CreateStorageAccount ==
  /\ \/ RANDOM_NUMBER \in accounts /\ UNCHANGED accounts /\ Go("account", "container", FALSE)
     \/ group # "absent" /\ accounts' = accounts \cup {RANDOM_NUMBER} /\ Go("account", "container", FALSE)
     \/ UNCHANGED accounts /\ Go("account", "container", TRUE)
  /\ UNCHANGED <<group, vaults, containers, directory, shell, held, missed, files>>

\* GetStorageAccountKey, CreateBlobContainer: without a key the script exits, without a
\* container it goes on
CreateBlobContainer ==
  /\ \/ RANDOM_NUMBER \in accounts /\ containers' = containers \cup {RANDOM_NUMBER} /\ Go("container", "storage", FALSE)
     \/ RANDOM_NUMBER \in accounts /\ UNCHANGED containers /\ Go("container", "storage", TRUE)
     \/ UNCHANGED containers /\ Go("container", "stopped", TRUE)
  /\ UNCHANGED <<group, vaults, accounts, directory, shell, held, missed, files>>

\* its two secrets as one
AddStorageSecrets ==
  /\ AddKeyToVault(<<"storage">>, "storage", "identity")
  /\ UNCHANGED <<cloud, directory, shell, missed, files>>

-----------------------------------------------------------------------------
(* CreateTfPrincipal, CreatePrincipal, CreateADApplication *)

Current == Identities[identity]
Last == Len(Kinds(Current))
AfterIdentity == IF identity = Len(Identities) THEN "gitops" ELSE "identity"

SkipIdentity ==
  /\ prepareAt = "identity" /\ Current \in directory
  /\ identity' = identity + 1
  /\ Go("identity", AfterIdentity, FALSE)
  /\ UNCHANGED <<cloud, directory, values, kind, held, missed, files>>

\* create-for-rbac gives an identity that exists another password; whether it did is not
\* known where it returned none
Renew(got) ==
  LET renewed == stale \cup {p \in secrets : p[2] = <<Current, "key", Current>>}
  IN  IF "key" \in got THEN stale' = renewed ELSE stale' \in {stale, renewed}

\* mutant: a variable keeps its value when there is no new one
CreateIdentityOver ==
  /\ prepareAt = "identity"
  /\ missed' = IF Current \in directory THEN missed \cup {Current} ELSE missed
  /\ directory' \in {directory, directory \cup {Current}}
  /\ \E got \in SUBSET AllKinds :
       /\ Current \in directory' \/ got = {}
       /\ values' = [k \in AllKinds |-> IF k \in got THEN Current ELSE values[k]]
       /\ Renew(got)
       /\ Go("identity", "store", Current \in directory \/ got # AllKinds)
  /\ UNCHANGED <<cloud, identity, kind, secrets, files>>

\* mutant: nothing asks whether the identity exists
CreateIdentityAnyway ==
  /\ prepareAt = "identity" /\ UNCHANGED missed
  /\ directory' \in {directory, directory \cup {Current}}
  /\ \E got \in SUBSET AllKinds :
       /\ Current \in directory' \/ got = {}
       /\ values' = [k \in AllKinds |-> IF k \in got THEN Current ELSE "empty"]
       /\ Renew(got)
       /\ Go("identity", "store", got # AllKinds)
  /\ UNCHANGED <<cloud, identity, kind, secrets, files>>

\* create-for-rbac, and the queries for the ids of what it created; each may give nothing.
\* The identity does not exist, or the query has failed.
CreateIdentity ==
  /\ prepareAt = "identity"
  /\ missed' = IF Current \in directory THEN missed \cup {Current} ELSE missed
  /\ directory' \in {directory, directory \cup {Current}}
  /\ \E got \in SUBSET AllKinds :
       /\ Current \in directory' \/ got = {}
       /\ values' = [k \in AllKinds |-> IF k \in got THEN Current ELSE "empty"]
       /\ Renew(got)
       /\ Go("identity", "store", Current \in directory \/ got # AllKinds)
  /\ UNCHANGED <<cloud, identity, kind, secrets, files>>

Value == values[Kinds(Current)[kind]]

\* mutant: the last secret is not stored
StoreAllButLast ==
  /\ prepareAt = "store" /\ Value # "empty"
  /\ IF kind < Last - 1
     THEN kind' = kind + 1 /\ UNCHANGED identity
     ELSE kind' = 1 /\ identity' = identity + 1
  /\ AddKeyToVault(<<Current, Kinds(Current)[kind], Value>>, "store",
                   IF kind < Last - 1 THEN "store" ELSE AfterIdentity)
  /\ UNCHANGED <<cloud, directory, values, missed, files>>

\* the secrets one by one
StoreSecret ==
  /\ prepareAt = "store" /\ Value # "empty"
  /\ IF kind < Last
     THEN kind' = kind + 1 /\ UNCHANGED identity
     ELSE kind' = 1 /\ identity' = identity + 1
  /\ AddKeyToVault(<<Current, Kinds(Current)[kind], Value>>, "store",
                   IF kind < Last THEN "store" ELSE AfterIdentity)
  /\ UNCHANGED <<cloud, directory, values, missed, files>>

\* AddKeyToVault exits when it gets no value
NoValue ==
  /\ prepareAt = "store" /\ Value = "empty"
  /\ Go("store", "stopped", TRUE)
  /\ UNCHANGED <<cloud, directory, shell, held, missed, files>>

-----------------------------------------------------------------------------
(* the ssh keys and .envrc *)

\* CreateSSHKeys; ssh-keygen may fail
MakeGitopsKey ==
  /\ files' \in {files, files \cup {"gitops"}}
  /\ Go("gitops", "gitopsSecret", "gitops" \notin files')
  /\ UNCHANGED <<cloud, directory, shell, held, missed>>

\* az reads the file
AddFile(f, from, to) ==
  /\ \/ f \in files /\ AddKeyToVault(<<f>>, from, to)
     \/ f \notin files /\ UNCHANGED held /\ Go(from, to, TRUE)
  /\ UNCHANGED <<cloud, directory, shell, missed, files>>

AddGitopsKey == AddFile("gitops", "gitopsSecret", "node")

\* CreateSSHKeysPassphrase: the file of the passphrase stands for the key
MakePassphrase ==
  /\ IF "passphrase" \in files
     THEN UNCHANGED files /\ Go("node", "nodeSecret", FALSE)
     ELSE files' = files \cup {"passphrase"} /\ Go("node", "keygen", FALSE)
  /\ UNCHANGED <<cloud, directory, shell, held, missed>>

MakeNodeKey ==
  /\ files' \in {files, files \cup {"node"}}
  /\ Go("keygen", "nodeSecret", "node" \notin files')
  /\ UNCHANGED <<cloud, directory, shell, held, missed>>

AddNodeKey == AddFile("node", "nodeSecret", "envrc")

\* every export but the names is read back from the vault of this number
WriteEnvrc ==
  /\ Go("envrc", "done", FALSE)
  /\ UNCHANGED <<cloud, directory, shell, held, missed, files>>

-----------------------------------------------------------------------------
(* the operator *)

Stop ==
  /\ prepareAt \notin {"done", "stopped"}
  /\ Go(prepareAt, "stopped", TRUE)
  /\ UNCHANGED <<cloud, directory, shell, held, missed, files>>

\* the number that .envrc exports, or one that is drawn
PrepareAgain ==
  /\ prepareAt \in {"done", "stopped"} /\ prepareRuns < MaxPrepareRuns
  /\ prepareAt' = "group" /\ prepareRuns' = prepareRuns + 1
  /\ identity' = 1 /\ kind' = 1 /\ values' = Nobody
  /\ RANDOM_NUMBER' \in PrepareNumbers
  /\ disturbances' = disturbances + IF RANDOM_NUMBER' # RANDOM_NUMBER THEN 1 ELSE 0
  /\ UNCHANGED <<cloud, directory, held, missed, files>>

PrepareStep ==
  \/ CreateResourceGroup \/ CreateLock \/ CreateKeyVault \/ CreateStorageAccount
  \/ CreateBlobContainer \/ AddStorageSecrets
  \/ SkipIdentity \/ CreateIdentity \/ StoreSecret \/ NoValue
  \/ MakeGitopsKey \/ AddGitopsKey \/ MakePassphrase \/ MakeNodeKey \/ AddNodeKey
  \/ WriteEnvrc \/ Stop \/ PrepareAgain

PrepareEnded == prepareAt \in {"done", "stopped"} /\ prepareRuns = MaxPrepareRuns

PrepareSpec == PrepareInit /\ [][PrepareStep]_prepareVars

-----------------------------------------------------------------------------
(* properties *)

\* Every variable has its type.
PrepareTypeOK ==
  /\ prepareAt \in {"group", "lock", "vault", "account", "container", "storage", "identity", "store",
       "gitops", "gitopsSecret", "node", "keygen", "nodeSecret", "envrc", "done", "stopped"}
  /\ RANDOM_NUMBER \in PrepareNumbers /\ vaults \subseteq PrepareNumbers
  /\ group \in {"absent", "unlocked", "locked"}
  /\ containers \subseteq accounts /\ accounts \subseteq PrepareNumbers
  /\ directory \subseteq IdentityNames
  /\ identity \in 1 .. Len(Identities) + 1 /\ kind \in 1 .. 3
  /\ values \in [AllKinds -> IdentityNames \cup {"empty"}]
  /\ stale \subseteq secrets /\ missed \subseteq IdentityNames \cup {"group"}
  /\ files \subseteq {"gitops", "passphrase", "node"}
  /\ disturbances \in Nat /\ prepareRuns \in 1 .. MaxPrepareRuns

\* What a vault holds under an identity's name is that identity's: the shell variables
\* the functions share never carry a value from one to the next.
SecretsBelongToTheirIdentity == secrets \subseteq PrepareNumbers \X AllSecrets

\* A password that a vault holds is the one its identity has, however often the script was
\* stopped, failed and was run again, unless once the query for the identity failed: then
\* it got another one, which need not have come to the vault.
PasswordsAreValid ==
  \A n \in PrepareNumbers, i \in IdentityNames :
    <<n, <<i, "key", i>>>> \in stale => i \in missed

\* what a run has left half done: an identity whose password neither a vault nor the
\* shell has, a passphrase without its key, a group without its lock
Lost ==
  {i \in directory : /\ values["key"] # i
                     /\ \A n \in PrepareNumbers : <<n, <<i, "key", i>>>> \notin secrets \ stale}
    \cup (IF "passphrase" \in files /\ "node" \notin files /\ prepareAt # "keygen" THEN {"node"} ELSE {})
    \cup (IF group = "unlocked" /\ prepareAt # "lock" THEN {"group"} ELSE {})

\* What a run has left half done a later run repairs only by mistake, where the query for
\* it fails: what is checked for is created first, and what belongs to it is made only
\* where it was missing.  The passphrase is looked for in a file, and never repaired.
RepairsAreMistakes == [][Lost \subseteq Lost' \cup missed']_prepareVars

\* As long as every command succeeds, no run is stopped and no other number is drawn, the
\* vault of a completed run has every secret, and the passwords are valid, however often
\* the script was run before.
UndisturbedRunIsComplete ==
  prepareAt = "done" /\ disturbances = 0 => {RANDOM_NUMBER} \X AllSecrets \subseteq secrets \ stale
=============================================================================
