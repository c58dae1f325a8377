---------------------------- MODULE KedaUpgrade ----------------------------
(***************************************************************************)
(* infra/scripts/keda_upgrade_and_host_encryption.sh: flux is put out of   *)
(* the way, what KEDA 1 has left in the cluster is deleted in loops of     *)
(* five attempts, and terraform installs KEDA 2.  Up to the last part the  *)
(* script has no set -e.  The operator may run it again.                   *)
(***************************************************************************)
EXTENDS Naturals, Sequences

CONSTANT MaxKedaRuns    \* bound: how often the script is run

ASSUME KedaAssumption == MaxKedaRuns \in Nat \ {0}

Attempts == 5

\* the loops, in the order of the script; helm uninstall is between the second and third
Loops == <<"scaledobjects", "triggerauthentications", "crd/scaledobjects", "crd/triggerauthentications">>
LoopNames == {Loops[k] : k \in 1 .. 4}
Crds == {"crd/scaledobjects", "crd/triggerauthentications"}
CrdOf(l) == IF l \in {"scaledobjects", "crd/scaledobjects"} THEN "crd/scaledobjects" ELSE "crd/triggerauthentications"

VARIABLES
  kedaAt,          \* "disable", "loop", "uninstall", "clone", "init", "stateRm", "apply", "exit", "ended"
  loop,            \* the loop the script is in
  NEXT_WAIT_TIME,  \* its failed attempts
  givenUp,         \* loops of this run that failed five times
  old,             \* what is left of KEDA 1, by the loop that deletes it
  flux,            \* replicas of the flux deployment
  inState,         \* terraform's state has helm_release.keda
  release,         \* major version of helm's release keda, 0: there is none
  cloned,       \* the clone of the repository is in the working directory
  kedaRuns

kedaVars == <<kedaAt, loop, NEXT_WAIT_TIME, givenUp, old, flux, inState, release, cloned, kedaRuns>>

KedaInit ==
  /\ kedaAt = "disable" /\ loop = 1 /\ NEXT_WAIT_TIME = 0 /\ givenUp = {}
  /\ old = LoopNames
  /\ flux = 1
  /\ inState = TRUE /\ release = 1 /\ cloned = FALSE
  /\ kedaRuns = 1

ClusterFrame == UNCHANGED <<loop, NEXT_WAIT_TIME, givenUp, old>>
TerraformFrame == UNCHANGED <<inState, release, cloned, kedaRuns>>

\* kubectl patch may fail
PatchFlux(replicas) == flux' \in {flux, replicas}

\* flux puts back what the charts define, where the cluster still knows its type
FluxSync ==
  /\ kedaAt # "ended" /\ flux = 1
  /\ \E l \in LoopNames \ (old \cup Crds) : CrdOf(l) \in old /\ old' = old \cup {l}
  /\ UNCHANGED <<kedaAt, loop, NEXT_WAIT_TIME, givenUp, flux>> /\ TerraformFrame

DisableFlux ==
  /\ kedaAt = "disable" /\ kedaAt' = "loop"
  /\ PatchFlux(0)
  /\ ClusterFrame /\ TerraformFrame

NextLoop ==
  /\ NEXT_WAIT_TIME' = 0
  /\ loop' = IF loop < 4 THEN loop + 1 ELSE loop
  /\ kedaAt' = IF loop = 2 THEN "uninstall" ELSE IF loop = 4 THEN "clone" ELSE "loop"

\* a CRD takes its objects with it
Without(l) == old \ ({l} \cup IF l \in Crds THEN {x \in LoopNames : CrdOf(x) = l} ELSE {})

\* without its CRD, kubectl does not know the type of the objects
Delete ==
  /\ kedaAt = "loop" /\ NEXT_WAIT_TIME < Attempts
  /\ CrdOf(Loops[loop]) \in old \/ Loops[loop] \in Crds
  /\ old' = Without(Loops[loop])
  /\ NextLoop
  /\ UNCHANGED givenUp /\ UNCHANGED flux /\ TerraformFrame

\* mutant: a sixth attempt
DeleteFailsSixTimes ==
  /\ kedaAt = "loop" /\ NEXT_WAIT_TIME <= Attempts
  /\ NEXT_WAIT_TIME' = NEXT_WAIT_TIME + 1
  /\ old' \in {old, Without(Loops[loop])}
  /\ UNCHANGED <<kedaAt, loop, givenUp, flux>> /\ TerraformFrame

\* an error, or the three seconds are over; the deletion may go on
DeleteFails ==
  /\ kedaAt = "loop" /\ NEXT_WAIT_TIME < Attempts
  /\ NEXT_WAIT_TIME' = NEXT_WAIT_TIME + 1
  /\ old' \in {old, Without(Loops[loop])}
  /\ UNCHANGED <<kedaAt, loop, givenUp>> /\ UNCHANGED flux /\ TerraformFrame

\* mutant: the loop is left at the first failure
GiveUpEarly ==
  /\ kedaAt = "loop" /\ NEXT_WAIT_TIME > 0
  /\ givenUp' = IF NEXT_WAIT_TIME = Attempts THEN givenUp \cup {Loops[loop]} ELSE givenUp
  /\ NextLoop
  /\ UNCHANGED old /\ UNCHANGED flux /\ TerraformFrame

\* mutant: the attempts are counted anew
GiveUpAndStartOver ==
  /\ kedaAt = "loop" /\ NEXT_WAIT_TIME = Attempts
  /\ NEXT_WAIT_TIME' = 0
  /\ UNCHANGED <<kedaAt, loop, givenUp, old, flux>> /\ TerraformFrame

\* [ "$NEXT_WAIT_TIME" -lt 5 ] fails, and without set -e nothing comes of it
GiveUp ==
  /\ kedaAt = "loop" /\ NEXT_WAIT_TIME = Attempts
  /\ givenUp' = givenUp \cup {Loops[loop]}
  /\ NextLoop
  /\ UNCHANGED old /\ UNCHANGED flux /\ TerraformFrame

\* helm uninstall; its exit code is not looked at
Uninstall ==
  /\ kedaAt = "uninstall" /\ kedaAt' = "loop"
  /\ release' \in {release, 0}
  /\ ClusterFrame /\ UNCHANGED <<flux, inState, cloned, kedaRuns>>

-----------------------------------------------------------------------------
(* set -euo pipefail: the first command that fails ends the script *)

FailWith(at) == kedaAt = at /\ kedaAt' = "exit" /\ UNCHANGED <<inState, release, cloned>>

\* git clone refuses a directory that exists
Clone ==
  /\ \/ kedaAt = "clone" /\ ~cloned /\ cloned' = TRUE /\ kedaAt' = "init" /\ UNCHANGED <<inState, release>>
     \/ FailWith("clone")
  /\ UNCHANGED kedaRuns /\ ClusterFrame /\ UNCHANGED flux

TerraformInit ==
  /\ \/ kedaAt = "init" /\ kedaAt' = "stateRm" /\ UNCHANGED <<inState, release, cloned>>
     \/ FailWith("init")
  /\ UNCHANGED kedaRuns /\ ClusterFrame /\ UNCHANGED flux

\* terraform state rm fails on what the state does not have
StateRm ==
  /\ \/ kedaAt = "stateRm" /\ inState /\ inState' = FALSE /\ kedaAt' = "apply" /\ UNCHANGED <<release, cloned>>
     \/ FailWith("stateRm")
  /\ UNCHANGED kedaRuns /\ ClusterFrame /\ UNCHANGED flux

\* helm installs no release of a name that is in use; an apply that is stopped may have
\* installed one that the state does not have
Apply ==
  /\ \/ kedaAt = "apply" /\ release = 0 /\ release' = 2 /\ inState' \in BOOLEAN /\ kedaAt' = "exit" /\ UNCHANGED cloned
     \/ FailWith("apply")
  /\ UNCHANGED kedaRuns /\ ClusterFrame /\ UNCHANGED flux

\* the EXIT trap, however far the script came
EnableFlux ==
  /\ kedaAt = "exit" /\ kedaAt' = "ended"
  /\ PatchFlux(1)
  /\ ClusterFrame /\ TerraformFrame

\* the operator may have cleared the working directory
RunAgain ==
  /\ kedaAt = "ended" /\ kedaRuns < MaxKedaRuns
  /\ kedaAt' = "disable" /\ loop' = 1 /\ NEXT_WAIT_TIME' = 0 /\ givenUp' = {}
  /\ kedaRuns' = kedaRuns + 1
  /\ cloned' \in {cloned, FALSE}
  /\ UNCHANGED <<old, flux, inState, release>>

KedaStep ==
  \/ DisableFlux \/ FluxSync \/ Delete \/ DeleteFails \/ GiveUp \/ Uninstall
  \/ Clone \/ TerraformInit \/ StateRm \/ Apply \/ EnableFlux \/ RunAgain

KedaEnded == kedaAt = "ended" /\ kedaRuns = MaxKedaRuns

KedaSpec == KedaInit /\ [][KedaStep]_kedaVars

-----------------------------------------------------------------------------
(* properties *)

\* Every variable has its type; a loop makes at most five attempts.
KedaTypeOK ==
  /\ kedaAt \in {"disable", "loop", "uninstall", "clone", "init", "stateRm", "apply", "exit", "ended"}
  /\ loop \in 1 .. 4 /\ NEXT_WAIT_TIME \in 0 .. Attempts
  /\ givenUp \subseteq LoopNames /\ old \subseteq LoopNames
  /\ flux \in {0, 1}
  /\ inState \in BOOLEAN /\ release \in 0 .. 2 /\ cloned \in BOOLEAN
  /\ kedaRuns \in 1 .. MaxKedaRuns

\* Terraform runs over what KEDA 1 has left only where all five attempts at it failed in
\* this run, or where flux was not stopped and the type of what it puts back could not be
\* deleted: the fifth attempt, too, is asked for its result, and no loop ends another's.
LeftoversWereGivenUp ==
  kedaAt \in {"clone", "init", "stateRm", "apply"} =>
    \A l \in old : l \in givenUp \/ (flux = 1 /\ CrdOf(l) \in givenUp)
=============================================================================
