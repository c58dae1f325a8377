--------------------------- MODULE ProgramsProofs ---------------------------
(***************************************************************************)
(* Proofs about the legal tag job, the KEDA upgrade, the statsd backend    *)
(* and the subset match of the test harness, for every set of partitions,  *)
(* of keys of metrics and of values, however deep, and every number of     *)
(* retries and runs; and about the programs side by side.                  *)
(***************************************************************************)
EXTENDS MCPrograms, PrepareProofs, WellFoundedInduction

-----------------------------------------------------------------------------
(* the legal tag job *)

\* A request is over exactly when its event is sent, each is made only after the one
\* before it, and without a rejection every partition has been asked for.
Chain ==
  /\ \A r \in inFlight : event[r] = "none"
  /\ event["token"] = "none" => "token" \in inFlight /\ event["list"] = "none"
  /\ event["token"] # "none" /\ event["list"] = "none" => "list" \in inFlight
  /\ event["list"] = "none" => \A p \in LegalPartitions : event[p] = "none" /\ p \notin inFlight
  /\ "list" \in inFlight => event["token"] # "none"
  /\ event["list"] = "pass" /\ ~rejected =>
       \A p \in LegalPartitions : \/ p \in inFlight
                                  \/ event[p] = "fail"
                                  \/ event[p] = "pass" /\ p \in updated

\* The inductive invariant of the legal tag job.
LegalInv == LegalTypeOK /\ Chain

LEMMA LegalInitial == LegalInit => LegalInv
<1> SUFFICES ASSUME LegalInit
             PROVE  LegalInv
    OBVIOUS
<1> USE LegalAssumption DEF LegalInit
<1>1. calls \in [Requests -> 0 .. Retries + 1]
      OBVIOUS
<1>2. LegalTypeOK
      BY <1>1 DEF LegalTypeOK, Requests
<1>3. Chain
      BY DEF Chain, Requests
<1> QED BY <1>2, <1>3 DEF LegalInv

\* What Over and its counts leave behind is of the right type.
LEMMA OverTyped ==
  ASSUME LegalTypeOK, NEW r \in Requests, NEW started \in SUBSET Requests,
         NEW outcome \in {"pass", "fail"}, Over(r, outcome, started)
  PROVE  /\ inFlight' \subseteq Requests
         /\ calls' \in [Requests -> 0 .. Retries + 1]
         /\ event' \in [Requests -> {"none", "pass", "fail"}]
<1>1. \A x \in Requests : (IF x \in started THEN 1 ELSE calls[x]) \in 0 .. Retries + 1
      BY LegalAssumption DEF LegalTypeOK
<1> QED BY <1>1 DEF Over, LegalTypeOK

\* Every step keeps the inductive invariant.
LEMMA LegalInductive == LegalInv /\ [LegalStep]_legalVars => LegalInv'
<1> SUFFICES ASSUME LegalInv, [LegalStep]_legalVars
             PROVE  LegalInv'
    OBVIOUS
<1> USE LegalAssumption DEF LegalInv
<1>0. "token" \in Requests /\ "list" \in Requests /\ LegalPartitions \subseteq Requests
      BY DEF Requests
<1>1. ASSUME NEW r \in Requests, Retry(r)
      PROVE  LegalInv'
  <2>1. calls' \in [Requests -> 0 .. Retries + 1]
        BY <1>1 DEF Retry, LegalTypeOK
  <2>2. updated' \subseteq LegalPartitions /\ updated \subseteq updated'
        BY <1>1 DEF Retry, LegalTypeOK
  <2>3. LegalTypeOK'
        BY <1>1, <2>1, <2>2 DEF Retry, LegalTypeOK
  <2>4. Chain'
        BY <1>1, <2>2 DEF Retry, Chain
  <2> QED BY <2>3, <2>4
<1>2. CASE TokenAnswered \/ TokenFailed
  <2>1. \E o \in {"pass", "fail"} : Over("token", o, {"list"})
        BY <1>2 DEF TokenAnswered, TokenFailed
  <2>2. authorization' \in {"good", "undefined"} /\ UNCHANGED <<updated, rejected>>
        BY <1>2 DEF TokenAnswered, TokenFailed
  <2>3. LegalTypeOK'
        BY <1>0, <2>1, <2>2, OverTyped DEF LegalTypeOK
  <2>4. Chain'
        BY <1>0, <2>1, <2>2 DEF Over, Chain, LegalTypeOK
  <2> QED BY <2>3, <2>4
<1>3. CASE ListAnswered
  <2>1. Over("list", "pass", LegalPartitions) /\ UNCHANGED <<authorization, updated, rejected>>
        BY <1>3 DEF ListAnswered
  <2>2. LegalTypeOK'
        BY <1>0, <2>1, OverTyped DEF LegalTypeOK
  <2>3. Chain'
        BY <1>0, <2>1 DEF Over, Chain, LegalTypeOK
  <2> QED BY <2>2, <2>3
<1>4. CASE ListNoArray \/ ListFailed
  <2>1. \E o \in {"pass", "fail"} : Over("list", o, {})
        BY <1>4 DEF ListNoArray, ListFailed
  <2>2. rejected' = TRUE /\ UNCHANGED <<authorization, updated>>
        BY <1>4 DEF ListNoArray, ListFailed
  <2>3. LegalTypeOK'
        BY <1>0, <2>1, <2>2, OverTyped DEF LegalTypeOK
  <2>4. Chain'
        BY <1>0, <2>1, <2>2 DEF Over, Chain, LegalTypeOK
  <2> QED BY <2>3, <2>4
<1>5. ASSUME NEW p \in LegalPartitions, UpdateAnswered(p) \/ UpdateFailed(p)
      PROVE  LegalInv'
  <2>1. PICK o \in {"pass", "fail"} : Over(p, o, {}) /\ (o = "pass" => updated' = updated \cup {p})
        BY <1>5 DEF UpdateAnswered, UpdateFailed
  <2>2. /\ updated' \subseteq LegalPartitions /\ updated \subseteq updated'
        /\ UNCHANGED <<authorization, rejected>>
        BY <1>5 DEF UpdateAnswered, UpdateFailed, LegalTypeOK
  <2>3. LegalTypeOK'
        BY <1>0, <2>1, <2>2, OverTyped DEF LegalTypeOK
  <2>4. Chain'
        BY <1>0, <2>1, <2>2 DEF Over, Chain, LegalTypeOK
  <2> QED BY <2>3, <2>4
<1>6. CASE UNCHANGED legalVars
      BY <1>6 DEF legalVars, LegalTypeOK, Chain
<1> QED BY <1>1, <1>2, <1>3, <1>4, <1>5, <1>6 DEF LegalStep

\* A request is called once and retried at most Retries times, whatever the services do.
THEOREM LegalTypeCorrect == LegalSpec => []LegalTypeOK
<1>1. LegalInv => LegalTypeOK
      BY DEF LegalInv
<1> QED BY <1>1, LegalInitial, LegalInductive, PTL DEF LegalSpec

\* The job ends without a sign of a failure only when the tags of all partitions are
\* updated, for every set of partitions.
THEOREM SilenceIsUpdated == LegalSpec => []SilenceMeansUpdated
<1>1. LegalInv => SilenceMeansUpdated
      BY DEF LegalInv, LegalTypeOK, Chain, SilenceMeansUpdated, LegalEnded, Requests
<1> QED BY <1>1, LegalInitial, LegalInductive, PTL DEF LegalSpec

\* A request that is neither answered nor in flight was not called.
Uncalled == \A r \in Requests : event[r] = "none" /\ r \notin inFlight => calls[r] = 0

\* A request that has come further, by a call more or by its event; no event is taken back
\* and no count goes down.
FurtherAsked ==
  /\ \E r \in Requests : calls'[r] > calls[r] \/ (event[r] = "none" /\ event'[r] # "none")
  /\ \A r \in Requests : calls'[r] >= calls[r] /\ (event[r] # "none" => event'[r] = event[r])

\* What comes next was not called before, so that its count does not go down.
LEMMA OverMovesOn ==
  ASSUME LegalInv, Uncalled, NEW r \in Requests, NEW outcome \in {"pass", "fail"},
         NEW started \in SUBSET Requests, Over(r, outcome, started),
         \A x \in started : event[x] = "none" /\ x \notin inFlight
  PROVE  FurtherAsked /\ Uncalled'
<1>1. event \in [Requests -> {"none", "pass", "fail"}] /\ calls \in [Requests -> Nat] /\ event[r] = "none"
      BY LegalAssumption DEF LegalInv, LegalTypeOK, Chain, Over
<1>2. event'[r] = outcome /\ \A x \in Requests \ {r} : event'[x] = event[x]
      BY <1>1 DEF Over
<1>3. \A x \in Requests : calls'[x] = IF x \in started THEN 1 ELSE calls[x]
      BY DEF Over
<1>4. \A x \in Requests : calls'[x] >= calls[x]
      BY <1>1, <1>3 DEF Uncalled
<1>5. FurtherAsked
      BY <1>1, <1>2, <1>4 DEF FurtherAsked
<1>6. ASSUME NEW x \in Requests, event'[x] = "none", x \notin inFlight'
      PROVE  calls'[x] = 0
  <2>1. x # r /\ event[x] = "none"
        BY <1>2, <1>6
  <2>2. x \notin inFlight /\ x \notin started
        BY <1>6, <2>1 DEF Over
  <2> QED BY <1>3, <2>1, <2>2 DEF Uncalled
<1> QED BY <1>5, <1>6 DEF Uncalled

LEMMA LegalStepMovesOn == LegalInv /\ Uncalled /\ LegalStep => FurtherAsked /\ Uncalled'
<1> SUFFICES ASSUME LegalInv, Uncalled, LegalStep
             PROVE  FurtherAsked /\ Uncalled'
    OBVIOUS
<1>0. "token" \in Requests /\ "list" \in Requests /\ LegalPartitions \subseteq Requests
      BY DEF Requests
<1>1. ASSUME NEW r \in Requests, Retry(r)
      PROVE  FurtherAsked /\ Uncalled'
  <2>1. calls \in [Requests -> Nat] /\ event' = event /\ inFlight' = inFlight /\ r \in inFlight
        BY <1>1, LegalAssumption DEF LegalInv, LegalTypeOK, Retry
  <2>2. calls'[r] = calls[r] + 1 /\ \A x \in Requests \ {r} : calls'[x] = calls[x]
        BY <1>1, <2>1 DEF Retry
  <2> QED BY <2>1, <2>2 DEF FurtherAsked, Uncalled
<1>2. CASE TokenAnswered \/ TokenFailed
  <2>1. PICK o \in {"pass", "fail"} : Over("token", o, {"list"})
        BY <1>2 DEF TokenAnswered, TokenFailed
  <2>2. event["list"] = "none" /\ "list" \notin inFlight
        BY <2>1 DEF LegalInv, Chain, Over
  <2> QED BY <1>0, <2>1, <2>2, OverMovesOn
<1>3. CASE ListAnswered
  <2>1. Over("list", "pass", LegalPartitions)
        BY <1>3 DEF ListAnswered
  <2>2. \A p \in LegalPartitions : event[p] = "none" /\ p \notin inFlight
        BY <2>1 DEF LegalInv, Chain, Over
  <2> QED BY <1>0, <2>1, <2>2, OverMovesOn
<1>4. CASE ListNoArray \/ ListFailed
  <2>1. PICK o \in {"pass", "fail"} : Over("list", o, {})
        BY <1>4 DEF ListNoArray, ListFailed
  <2> QED BY <1>0, <2>1, OverMovesOn
<1>5. ASSUME NEW p \in LegalPartitions, UpdateAnswered(p) \/ UpdateFailed(p)
      PROVE  FurtherAsked /\ Uncalled'
  <2>1. PICK o \in {"pass", "fail"} : Over(p, o, {})
        BY <1>5 DEF UpdateAnswered, UpdateFailed
  <2> QED BY <1>0, <2>1, OverMovesOn
<1> QED BY <1>1, <1>2, <1>3, <1>4, <1>5 DEF LegalStep

\* Every step of the job is a call more of a request or its event, and none goes back: no
\* request that was made is begun anew, and with the limit of LegalTypeCorrect on the calls
\* of each the job cannot go on for ever.
THEOREM LegalMovesOn == LegalSpec => [][FurtherAsked]_legalVars
<1>1. LegalInit => Uncalled
      BY DEF LegalInit, Uncalled
<1>2. Uncalled /\ UNCHANGED legalVars => Uncalled'
      BY DEF Uncalled, legalVars
<1>3. LegalInv /\ Uncalled /\ [LegalStep]_legalVars => Uncalled'
      BY <1>2, LegalStepMovesOn
<1>4. LegalInv /\ Uncalled /\ [LegalStep]_legalVars => [FurtherAsked]_legalVars
      BY LegalStepMovesOn
<1> QED BY <1>1, <1>3, <1>4, LegalInitial, LegalInductive, PTL DEF LegalSpec

-----------------------------------------------------------------------------
(* the KEDA upgrade *)

Place(l) == CASE l = "scaledobjects" -> 1
              [] l = "triggerauthentications" -> 2
              [] l = "crd/scaledobjects" -> 3
              [] l = "crd/triggerauthentications" -> 4

AfterLoops == {"clone", "init", "stateRm", "apply"}

\* the loops this run has left behind
Passed(l) == kedaAt \in AfterLoops \/ Place(l) < loop

\* Objects need the CRD of their type; and what is still there of a loop that is passed
\* was given up, or is an object flux has put back.
LoopsInOrder ==
  /\ kedaAt = "disable" => loop = 1
  /\ kedaAt = "uninstall" => loop = 3
  /\ \A l \in old : CrdOf(l) \in old
  /\ kedaAt \in AfterLoops \cup {"disable", "loop", "uninstall"} =>
       \A l \in old : Passed(l) => l \in givenUp \/ (flux = 1 /\ l \notin Crds)

\* The inductive invariant of the upgrade.
KedaInv == KedaTypeOK /\ LoopsInOrder

LEMMA LoopNamesListed ==
  LoopNames = {"scaledobjects", "triggerauthentications", "crd/scaledobjects", "crd/triggerauthentications"}
<1>1. \A l : l \in LoopNames <=> \E k \in 1 .. 4 : l = Loops[k]
      BY DEF LoopNames
<1>2. \A k \in 1 .. 4 : k = 1 \/ k = 2 \/ k = 3 \/ k = 4
      OBVIOUS
<1> QED BY <1>1, <1>2 DEF Loops

LEMMA LoopPlaces ==
  /\ \A k \in 1 .. 4 : Loops[k] \in LoopNames /\ Place(Loops[k]) = k
  /\ \A l \in LoopNames : Place(l) \in 1 .. 4 /\ Loops[Place(l)] = l
<1>1. \A k \in 1 .. 4 : k = 1 \/ k = 2 \/ k = 3 \/ k = 4
      OBVIOUS
<1>2. \A k \in 1 .. 4 : Loops[k] \in LoopNames /\ Place(Loops[k]) = k
      BY <1>1, LoopNamesListed DEF Loops, Place
<1>3. \A l \in LoopNames : Place(l) \in 1 .. 4 /\ Loops[Place(l)] = l
      BY LoopNamesListed DEF Loops, Place
<1> QED BY <1>2, <1>3

LEMMA CrdsAreTheirOwn ==
  /\ \A l \in LoopNames : CrdOf(l) \in Crds
  /\ \A l \in Crds : l \in LoopNames /\ CrdOf(l) = l
BY LoopNamesListed DEF CrdOf, Crds

LEMMA KedaInitial == KedaInit => KedaInv
<1> SUFFICES ASSUME KedaInit
             PROVE  KedaInv
    OBVIOUS
<1>0. kedaRuns \in 1 .. MaxKedaRuns /\ loop \in 1 .. 4 /\ NEXT_WAIT_TIME \in 0 .. Attempts
      BY KedaAssumption DEF KedaInit, Attempts
<1>1. KedaTypeOK
  <2>1. kedaAt = "disable" /\ givenUp \subseteq LoopNames /\ old \subseteq LoopNames /\ flux \in {0, 1}
        BY DEF KedaInit
  <2>2. inState \in BOOLEAN /\ cloned \in BOOLEAN
        BY DEF KedaInit
  <2>3. release \in 0 .. 2
        BY DEF KedaInit
  <2> QED BY <1>0, <2>1, <2>2, <2>3 DEF KedaTypeOK
<1>2. \A l \in LoopNames : ~Passed(l)
      BY LoopPlaces DEF KedaInit, Passed, AfterLoops
<1>3. LoopsInOrder
      BY <1>2, CrdsAreTheirOwn DEF KedaInit, LoopsInOrder
<1> QED BY <1>1, <1>3 DEF KedaInv

\* A loop that ends leaves the next one, or what follows the loops.
LEMMA NextLoopPasses ==
  ASSUME KedaTypeOK, kedaAt = "loop", NextLoop
  PROVE  /\ loop' \in 1 .. 4 /\ NEXT_WAIT_TIME' = 0
         /\ kedaAt' \in {"loop", "uninstall", "clone"}
         /\ kedaAt' = "uninstall" => loop' = 3
         /\ \A l \in LoopNames : Passed(l)' <=> Passed(l) \/ l = Loops[loop]
<1>0. loop \in 1 .. 4
      BY DEF KedaTypeOK
<1>1. loop' \in 1 .. 4 /\ NEXT_WAIT_TIME' = 0
      BY <1>0 DEF NextLoop
<1>2. kedaAt' \in {"loop", "uninstall", "clone"} /\ (kedaAt' = "uninstall" => loop' = 3)
      BY <1>0 DEF NextLoop
<1>3. ASSUME NEW l \in LoopNames
      PROVE  Passed(l)' <=> Passed(l) \/ l = Loops[loop]
  <2>1. Place(l) \in 1 .. 4 /\ (l = Loops[loop] <=> Place(l) = loop)
        BY <1>0, LoopPlaces
  <2>2. CASE loop = 4
    <3>1. kedaAt' = "clone"
          BY <2>2 DEF NextLoop
    <3>2. Passed(l)'
          BY <3>1 DEF Passed, AfterLoops
    <3>3. Place(l) < loop \/ Place(l) = loop
          BY <2>1, <2>2
    <3> QED BY <2>1, <3>2, <3>3 DEF Passed
  <2>3. CASE loop < 4
    <3>1. loop' = loop + 1 /\ kedaAt' \notin AfterLoops
          BY <1>0, <2>3 DEF NextLoop, AfterLoops
    <3>2. Place(l) < loop + 1 <=> Place(l) < loop \/ Place(l) = loop
          BY <1>0, <2>1
    <3>3. Passed(l)' <=> Place(l) < loop + 1
          BY <3>1 DEF Passed, Place, AfterLoops
    <3>4. Passed(l) <=> Place(l) < loop
          BY DEF Passed, AfterLoops
    <3> QED BY <2>1, <3>2, <3>3, <3>4
  <2> QED BY <1>0, <2>2, <2>3
<1> QED BY <1>1, <1>2, <1>3

\* What is deleted leaves no object without its CRD.
LEMMA WithoutIsClosed ==
  ASSUME old \subseteq LoopNames, \A l \in old : CrdOf(l) \in old, NEW l \in LoopNames
  PROVE  /\ Without(l) \subseteq old \ {l}
         /\ \A x \in Without(l) : CrdOf(x) \in Without(l)
<1>1. Without(l) \subseteq old \ {l}
      BY DEF Without
<1>2. ASSUME NEW x \in Without(l)
      PROVE  CrdOf(x) \in Without(l)
  <2>1. x \in old /\ CrdOf(x) \in old /\ CrdOf(CrdOf(x)) = CrdOf(x)
        BY <1>1, CrdsAreTheirOwn
  <2>2. CASE l \in Crds
        BY <1>2, <2>1, <2>2, CrdsAreTheirOwn DEF Without
  <2>3. CASE l \notin Crds
        BY <2>1, <2>3, CrdsAreTheirOwn DEF Without
  <2> QED BY <2>2, <2>3
<1> QED BY <1>1, <1>2

KedaShell == <<kedaAt, loop, NEXT_WAIT_TIME, givenUp>>

\* The steps from the first patch of flux to the last loop.
LEMMA LoopsInductive ==
  ASSUME KedaInv, DisableFlux \/ FluxSync \/ Delete \/ DeleteFails \/ GiveUp \/ Uninstall
  PROVE  KedaInv'
<1> USE DEF KedaInv
<1>0. kedaRuns' = kedaRuns /\ inState' = inState /\ cloned' = cloned
      BY DEF DisableFlux, FluxSync, Delete, DeleteFails, GiveUp, Uninstall, TerraformFrame
<1>00. inState' \in BOOLEAN /\ cloned' \in BOOLEAN
      BY <1>0 DEF KedaTypeOK
<1>01. kedaRuns' \in 1 .. MaxKedaRuns
      BY <1>0 DEF KedaTypeOK
<1>1. CASE DisableFlux
  <2>1. /\ kedaAt = "disable" /\ kedaAt' = "loop" /\ flux' \in {0, 1}
        /\ loop' = loop /\ NEXT_WAIT_TIME' = NEXT_WAIT_TIME /\ givenUp' = givenUp /\ old' = old
        /\ release' = release
        BY <1>1 DEF DisableFlux, PatchFlux, ClusterFrame, TerraformFrame, KedaTypeOK
  <2>2. KedaTypeOK'
        BY <1>00, <1>01, <2>1 DEF KedaTypeOK
  <2>3. \A l \in LoopNames : ~(Passed(l)')
    <3>1. loop = 1
          BY <2>1 DEF LoopsInOrder
    <3>2. \A l \in LoopNames : Passed(l)' <=> Place(l) < loop
          BY <2>1 DEF Passed, Place, AfterLoops
    <3>3. \A l \in LoopNames : ~(Place(l) < 1)
          BY LoopPlaces
    <3> QED BY <3>1, <3>2, <3>3
  <2>4. LoopsInOrder'
        BY <2>1, <2>3 DEF LoopsInOrder, KedaTypeOK
  <2> QED BY <2>2, <2>4
<1>2. CASE FluxSync
  <2>1. /\ UNCHANGED KedaShell /\ flux' = flux /\ release' = release /\ flux = 1
        BY <1>2 DEF FluxSync, TerraformFrame, KedaShell
  <2>2. PICK l \in LoopNames \ (old \cup Crds) : CrdOf(l) \in old /\ old' = old \cup {l}
        BY <1>2 DEF FluxSync
  <2>3. KedaTypeOK'
        BY <1>00, <1>01, <2>1, <2>2 DEF KedaTypeOK, KedaShell
  <2>4. \A x \in LoopNames : Passed(x)' <=> Passed(x)
        BY <2>1 DEF Passed, Place, KedaShell
  <2>5. LoopsInOrder'
        BY <2>1, <2>2, <2>4 DEF LoopsInOrder, KedaTypeOK, KedaShell
  <2> QED BY <2>3, <2>5
<1>3. CASE Delete
  <2>1. kedaAt = "loop" /\ NextLoop /\ givenUp' = givenUp /\ flux' = flux /\ release' = release
        BY <1>3 DEF Delete, TerraformFrame
  <2>2. /\ loop' \in 1 .. 4 /\ NEXT_WAIT_TIME' = 0
        /\ kedaAt' \in {"loop", "uninstall", "clone"}
        /\ kedaAt' = "uninstall" => loop' = 3
        /\ \A l \in LoopNames : Passed(l)' <=> Passed(l) \/ l = Loops[loop]
        BY <2>1, NextLoopPasses
  <2>3. loop \in 1 .. 4 /\ Loops[loop] \in LoopNames /\ old \subseteq LoopNames
        BY LoopPlaces DEF KedaTypeOK
  <2>4. old' \subseteq old \ {Loops[loop]} /\ \A x \in old' : CrdOf(x) \in old'
        BY <1>3, <2>3, WithoutIsClosed DEF Delete, LoopsInOrder
  <2>5. KedaTypeOK'
    <3>1. kedaAt' \in {"loop", "uninstall", "clone"} /\ loop' \in 1 .. 4 /\ NEXT_WAIT_TIME' \in 0 .. Attempts
          BY <2>2 DEF Attempts
    <3>2. givenUp' \subseteq LoopNames
          BY <2>1, <2>2, <2>3, <2>4 DEF KedaTypeOK
    <3>3. old' \subseteq LoopNames
          BY <2>1, <2>2, <2>3, <2>4 DEF KedaTypeOK
    <3>4. flux' \in {0, 1} /\ release' \in 0 .. 2
          BY <2>1 DEF KedaTypeOK
    <3> QED BY <1>00, <1>01, <3>1, <3>2, <3>3, <3>4 DEF KedaTypeOK
  <2>6. LoopsInOrder'
        BY <2>1, <2>2, <2>3, <2>4 DEF LoopsInOrder
  <2> QED BY <2>5, <2>6
<1>4. CASE DeleteFails
  <2>1. /\ kedaAt = "loop" /\ NEXT_WAIT_TIME' = NEXT_WAIT_TIME + 1 /\ NEXT_WAIT_TIME < Attempts
        /\ kedaAt' = kedaAt /\ loop' = loop /\ givenUp' = givenUp /\ flux' = flux /\ release' = release
        BY <1>4 DEF DeleteFails, TerraformFrame
  <2>2. Loops[loop] \in LoopNames /\ old \subseteq LoopNames
        BY LoopPlaces DEF KedaTypeOK
  <2>3. old' \subseteq old /\ \A x \in old' : CrdOf(x) \in old'
        BY <1>4, <2>2, WithoutIsClosed DEF DeleteFails, LoopsInOrder
  <2>4. NEXT_WAIT_TIME' \in 0 .. Attempts
        BY <2>1 DEF KedaTypeOK, Attempts
  <2>5. KedaTypeOK'
        BY <1>00, <1>01, <2>1, <2>2, <2>3, <2>4 DEF KedaTypeOK, Attempts
  <2>6. \A x \in LoopNames : Passed(x)' <=> Passed(x)
        BY <2>1 DEF Passed, Place
  <2>7. LoopsInOrder'
        BY <2>1, <2>2, <2>3, <2>6 DEF LoopsInOrder
  <2> QED BY <2>5, <2>7
<1>5. CASE GiveUp
  <2>1. /\ kedaAt = "loop" /\ NextLoop /\ givenUp' = givenUp \cup {Loops[loop]}
        /\ old' = old /\ flux' = flux /\ release' = release
        BY <1>5 DEF GiveUp, TerraformFrame
  <2>2. /\ loop' \in 1 .. 4 /\ NEXT_WAIT_TIME' = 0
        /\ kedaAt' \in {"loop", "uninstall", "clone"}
        /\ kedaAt' = "uninstall" => loop' = 3
        /\ \A l \in LoopNames : Passed(l)' <=> Passed(l) \/ l = Loops[loop]
        BY <2>1, NextLoopPasses
  <2>3. Loops[loop] \in LoopNames /\ old \subseteq LoopNames
        BY LoopPlaces DEF KedaTypeOK
  <2>4. KedaTypeOK'
    <3>1. kedaAt' \in {"loop", "uninstall", "clone"} /\ loop' \in 1 .. 4 /\ NEXT_WAIT_TIME' \in 0 .. Attempts
          BY <2>2 DEF Attempts
    <3>2. givenUp' \subseteq LoopNames
          BY <2>1, <2>2, <2>3 DEF KedaTypeOK
    <3>3. old' \subseteq LoopNames
          BY <2>1, <2>2, <2>3 DEF KedaTypeOK
    <3>4. flux' \in {0, 1} /\ release' \in 0 .. 2
          BY <2>1 DEF KedaTypeOK
    <3> QED BY <1>00, <1>01, <3>1, <3>2, <3>3, <3>4 DEF KedaTypeOK
  <2>5. LoopsInOrder'
        BY <2>1, <2>2, <2>3 DEF LoopsInOrder
  <2> QED BY <2>4, <2>5
<1>6. CASE Uninstall
  <2>1. /\ kedaAt = "uninstall" /\ kedaAt' = "loop" /\ flux' = flux
        /\ loop' = loop /\ NEXT_WAIT_TIME' = NEXT_WAIT_TIME /\ givenUp' = givenUp /\ old' = old
        BY <1>6 DEF Uninstall, ClusterFrame
  <2>2. release' \in 0 .. 2
        BY <1>6 DEF Uninstall, KedaTypeOK
  <2>21. /\ kedaAt' = "loop" /\ loop' \in 1 .. 4 /\ NEXT_WAIT_TIME' \in 0 .. Attempts
         /\ givenUp' \subseteq LoopNames /\ old' \subseteq LoopNames /\ flux' \in {0, 1}
         BY <2>1 DEF KedaTypeOK
  <2>3. KedaTypeOK'
        BY <1>00, <1>01, <2>2, <2>21 DEF KedaTypeOK, Attempts
  <2>4. \A x \in LoopNames : Passed(x)' <=> Passed(x)
        BY <2>1 DEF Passed, Place, AfterLoops
  <2>5. LoopsInOrder'
        BY <2>1, <2>4 DEF LoopsInOrder, KedaTypeOK
  <2> QED BY <2>3, <2>5
<1> QED BY <1>1, <1>2, <1>3, <1>4, <1>5, <1>6

\* The last part, the trap and the next run: nothing of them makes an object.
LEMMA RestInductive ==
  ASSUME KedaInv, Clone \/ TerraformInit \/ StateRm \/ Apply \/ EnableFlux \/ RunAgain \/ UNCHANGED kedaVars
  PROVE  KedaInv'
<1> USE DEF KedaInv
<1>1. /\ inState' \in BOOLEAN /\ cloned' \in BOOLEAN
      BY DEF KedaTypeOK, Clone, TerraformInit, StateRm, Apply, EnableFlux, RunAgain, FailWith, TerraformFrame, kedaVars
<1>2. release' \in 0 .. 2 /\ kedaRuns' \in 1 .. MaxKedaRuns
  <2>1. release' = release \/ release' = 2
        BY DEF Clone, TerraformInit, StateRm, Apply, EnableFlux, RunAgain, FailWith, TerraformFrame, kedaVars
  <2>2. kedaRuns' = kedaRuns \/ (kedaRuns < MaxKedaRuns /\ kedaRuns' = kedaRuns + 1)
        BY DEF Clone, TerraformInit, StateRm, Apply, EnableFlux, RunAgain, TerraformFrame, kedaVars
  <2>3. release \in 0 .. 2 /\ kedaRuns \in 1 .. MaxKedaRuns
        BY DEF KedaTypeOK
  <2>4. kedaRuns' \in 1 .. MaxKedaRuns
        BY <2>2, <2>3, KedaAssumption
  <2> QED BY <2>1, <2>3, <2>4
<1>3. old' = old
      BY DEF Clone, TerraformInit, StateRm, Apply, EnableFlux, RunAgain, ClusterFrame, kedaVars
<1>4. CASE Clone \/ TerraformInit \/ StateRm \/ Apply
  <2>1. flux' = flux /\ givenUp' = givenUp /\ loop' = loop /\ NEXT_WAIT_TIME' = NEXT_WAIT_TIME
        BY <1>4 DEF Clone, TerraformInit, StateRm, Apply, ClusterFrame
  <2>2. kedaAt \in AfterLoops /\ kedaAt' \in AfterLoops \cup {"exit"}
        BY <1>4 DEF Clone, TerraformInit, StateRm, Apply, FailWith, AfterLoops
  <2>3. KedaTypeOK'
        BY <1>1, <1>2, <1>3, <2>1, <2>2 DEF KedaTypeOK, AfterLoops
  <2>4. kedaAt' \notin {"disable", "loop", "uninstall"}
        BY <2>2 DEF AfterLoops
  <2>5. LoopsInOrder'
        BY <1>3, <2>1, <2>2, <2>4 DEF LoopsInOrder, Passed
  <2> QED BY <2>3, <2>5
<1>5. CASE EnableFlux
  <2>1. /\ flux' \in {0, 1} /\ givenUp' = givenUp /\ loop' = loop /\ NEXT_WAIT_TIME' = NEXT_WAIT_TIME
        /\ kedaAt' = "ended"
        BY <1>5 DEF EnableFlux, PatchFlux, ClusterFrame, KedaTypeOK
  <2>2. KedaTypeOK'
        BY <1>1, <1>2, <1>3, <2>1 DEF KedaTypeOK
  <2>3. LoopsInOrder'
        BY <1>3, <2>1 DEF LoopsInOrder, AfterLoops
  <2> QED BY <2>2, <2>3
<1>6. CASE RunAgain
  <2>1. flux' = flux /\ givenUp' = {} /\ loop' = 1 /\ NEXT_WAIT_TIME' = 0 /\ kedaAt' = "disable"
        BY <1>6 DEF RunAgain
  <2>2. NEXT_WAIT_TIME' \in 0 .. Attempts /\ loop' \in 1 .. 4
        BY <2>1 DEF Attempts
  <2>3. KedaTypeOK'
        BY <1>1, <1>2, <1>3, <2>1, <2>2 DEF KedaTypeOK
  <2>4. \A l \in LoopNames : Passed(l)' <=> Place(l) < 1
        BY <2>1 DEF Passed, Place, AfterLoops
  <2>5. \A l \in LoopNames : ~(Place(l) < 1)
        BY LoopPlaces
  <2>6. \A l \in LoopNames : ~(Passed(l)')
        BY <2>4, <2>5
  <2>7. LoopsInOrder'
        BY <1>3, <2>1, <2>6 DEF LoopsInOrder, KedaTypeOK
  <2> QED BY <2>3, <2>7
<1>7. CASE UNCHANGED kedaVars
      BY <1>7 DEF kedaVars, KedaTypeOK, LoopsInOrder, Passed, Place
<1> QED BY <1>4, <1>5, <1>6, <1>7

LEMMA KedaInductive == KedaInv /\ [KedaStep]_kedaVars => KedaInv'
BY LoopsInductive, RestInductive DEF KedaStep

\* A loop makes at most five attempts, in any run.
THEOREM KedaTypeCorrect == KedaSpec => []KedaTypeOK
<1>1. KedaInv => KedaTypeOK
      BY DEF KedaInv
<1> QED BY <1>1, KedaInitial, KedaInductive, PTL DEF KedaSpec

\* Terraform meets only leftovers of KEDA 1 that all five attempts failed at, or that an
\* unstopped flux put back while their CRD could not be deleted, for any number of runs.
THEOREM LeftoversGivenUp == KedaSpec => []LeftoversWereGivenUp
<1>1. ASSUME KedaInv, kedaAt \in AfterLoops, NEW l \in old
      PROVE  l \in givenUp \/ (flux = 1 /\ CrdOf(l) \in givenUp)
  <2>1. l \in LoopNames /\ CrdOf(l) \in old /\ CrdOf(l) \in Crds
        BY <1>1, CrdsAreTheirOwn DEF KedaInv, KedaTypeOK, LoopsInOrder
  <2>2. \A x \in old : x \in givenUp \/ (flux = 1 /\ x \notin Crds)
        BY <1>1 DEF KedaInv, LoopsInOrder, Passed
  <2> QED BY <2>1, <2>2
<1>2. KedaInv => LeftoversWereGivenUp
      BY <1>1 DEF LeftoversWereGivenUp, AfterLoops
<1> QED BY <1>2, KedaInitial, KedaInductive, PTL DEF KedaSpec

\* The places of a run, in its order.
StepRank ==
  CASE kedaAt = "disable" -> 0
    [] kedaAt = "loop" -> IF loop <= 2 THEN loop ELSE loop + 1
    [] kedaAt = "uninstall" -> 3
    [] kedaAt = "clone" -> 6 [] kedaAt = "init" -> 7 [] kedaAt = "stateRm" -> 8
    [] kedaAt = "apply" -> 9 [] kedaAt = "exit" -> 10 [] kedaAt = "ended" -> 11

\* The run, in it the place, and there the attempt: the first of them that changes grows;
\* where none does, flux puts back what was deleted.
FurtherUpgraded ==
  \/ kedaRuns' > kedaRuns
  \/ kedaRuns' = kedaRuns /\ StepRank' > StepRank
  \/ kedaRuns' = kedaRuns /\ StepRank' = StepRank /\ NEXT_WAIT_TIME' > NEXT_WAIT_TIME
  \/ /\ kedaRuns' = kedaRuns /\ StepRank' = StepRank /\ NEXT_WAIT_TIME' = NEXT_WAIT_TIME
     /\ old \subseteq old' /\ old # old'

\* Every step brings the upgrade further: the script and an unstopped flux, which undo each
\* other's work, do not do so for ever, since the script counts its attempts and flux puts
\* back only what is not there, in any number of runs.
THEOREM KedaMovesOn == KedaSpec => [][FurtherUpgraded]_kedaVars
<1>1. ASSUME KedaInv, KedaStep
      PROVE  FurtherUpgraded
  <2>t. kedaRuns \in Nat /\ loop \in 1 .. 4 /\ NEXT_WAIT_TIME \in Nat /\ (kedaAt = "disable" => loop = 1) /\ (kedaAt = "uninstall" => loop = 3)
        BY <1>1, KedaAssumption DEF KedaInv, KedaTypeOK, LoopsInOrder, Attempts
  <2>1. CASE RunAgain
        BY <2>t, <2>1 DEF RunAgain, FurtherUpgraded
  <2>2. CASE FluxSync
    <3>1. kedaRuns' = kedaRuns /\ NEXT_WAIT_TIME' = NEXT_WAIT_TIME /\ old \subseteq old' /\ old # old'
          BY <2>2 DEF FluxSync, TerraformFrame
    <3>2. StepRank' = StepRank
          BY <2>2 DEF FluxSync, StepRank
    <3> QED BY <3>1, <3>2 DEF FurtherUpgraded
  <2>3. CASE DeleteFails
    <3>1. kedaRuns' = kedaRuns /\ NEXT_WAIT_TIME' = NEXT_WAIT_TIME + 1
          BY <2>3 DEF DeleteFails, TerraformFrame
    <3>2. StepRank' = StepRank
          BY <2>3 DEF DeleteFails, StepRank
    <3> QED BY <2>t, <3>1, <3>2 DEF FurtherUpgraded
  <2>4. CASE Delete \/ GiveUp
    <3>1. kedaRuns' = kedaRuns /\ kedaAt = "loop" /\ NextLoop
          BY <2>4 DEF Delete, GiveUp, TerraformFrame
    <3>2. /\ loop = 1 => StepRank = 1 /\ StepRank' = 2
          /\ loop = 2 => StepRank = 2 /\ StepRank' = 3
          /\ loop = 3 => StepRank = 4 /\ StepRank' = 5
          /\ loop = 4 => StepRank = 5 /\ StepRank' = 6
          BY <3>1 DEF NextLoop, StepRank
    <3>3. loop = 1 \/ loop = 2 \/ loop = 3 \/ loop = 4
          BY <2>t
    <3> QED BY <3>1, <3>2, <3>3 DEF FurtherUpgraded
  <2>5. CASE DisableFlux \/ Uninstall
    <3>1. kedaRuns' = kedaRuns /\ loop' = loop
          BY <2>5 DEF DisableFlux, Uninstall, ClusterFrame, TerraformFrame
    <3>2. \/ StepRank = 0 /\ StepRank' = 1
          \/ StepRank = 3 /\ StepRank' = 4
          BY <2>t, <2>5, <3>1 DEF DisableFlux, Uninstall, StepRank
    <3> QED BY <3>1, <3>2 DEF FurtherUpgraded
  <2>6. CASE Clone \/ TerraformInit \/ StateRm \/ Apply \/ EnableFlux
    <3>1. kedaRuns' = kedaRuns
          BY <2>6 DEF Clone, TerraformInit, StateRm, Apply, EnableFlux, TerraformFrame
    <3>2. StepRank \in 6 .. 10 /\ StepRank' \in 7 .. 11 /\ StepRank' > StepRank
          BY <2>6 DEF Clone, TerraformInit, StateRm, Apply, EnableFlux, FailWith, StepRank
    <3> QED BY <3>1, <3>2 DEF FurtherUpgraded
  <2> QED BY <1>1, <2>1, <2>2, <2>3, <2>4, <2>5, <2>6 DEF KedaStep
<1>2. KedaInv /\ [KedaStep]_kedaVars => [FurtherUpgraded]_kedaVars
      BY <1>1
<1> QED BY <1>2, KedaInitial, KedaInductive, PTL DEF KedaSpec

-----------------------------------------------------------------------------
(* the statsd backend *)

\* the loops have come past this key of this family
Handled(f, k) == f < family \/ (f = family /\ k < next)

\* The call for the metric under key k of family f.
Sending(f, k) == <<Families[f], StatsdKeys[k], MetricName(StatsdKeys[k])>>

Places == (1 .. 3) \X (1 .. Len(StatsdKeys))

\* The calls so far are those of the selected keys that are handled, one for each.
SentSoFar ==
  /\ family \in 1 .. 3 /\ next \in 1 .. Len(StatsdKeys) + 1
  /\ tracked \in Seq({Sending(p[1], p[2]) : p \in Places})
  /\ \A n \in 1 .. Len(tracked) : \E p \in Places :
       Handled(p[1], p[2]) /\ ShouldProcess(StatsdKeys[p[2]]) /\ tracked[n] = Sending(p[1], p[2])
  /\ \A p \in Places : Handled(p[1], p[2]) /\ ShouldProcess(StatsdKeys[p[2]]) =>
       \E n \in 1 .. Len(tracked) : tracked[n] = Sending(p[1], p[2])
  /\ \A m, n \in 1 .. Len(tracked) :
       tracked[m][1] = tracked[n][1] /\ tracked[m][2] = tracked[n][2] => m = n

LEMMA FamiliesDiffer ==
  /\ Len(Families) = 3
  /\ \A f, g \in 1 .. 3 : Families[f] = Families[g] => f = g
<1>1. \A f \in 1 .. 3 : f = 1 \/ f = 2 \/ f = 3
      OBVIOUS
<1> QED BY <1>1 DEF Families

\* What a call tells of the key it is for.
LEMMA SendingParts ==
  \A f, k : /\ Sending(f, k)[1] = Families[f] /\ Sending(f, k)[2] = StatsdKeys[k]
            /\ Sending(f, k)[3] = MetricName(StatsdKeys[k])
<1> QED BY DEF Sending

\* A step that makes no call and comes past no selected key.
LEMMA NoCallKeepsSent ==
  ASSUME SentSoFar, tracked' = tracked, family' \in 1 .. 3, next' \in 1 .. Len(StatsdKeys) + 1,
         \A k : ShouldProcess(StatsdKeys[k])' <=> ShouldProcess(StatsdKeys[k]),
         \A f, k : Sending(f, k)' = Sending(f, k),
         \A p \in Places : ShouldProcess(StatsdKeys[p[2]]) => (Handled(p[1], p[2])' <=> Handled(p[1], p[2]))
  PROVE  SentSoFar'
<1> DEFINE S == {Sending(p[1], p[2]) : p \in Places}
<1>1. Places' = Places
      BY DEF Places
<1>2. S' = S
      BY <1>1
<1>3. tracked \in Seq(S)
      BY DEF SentSoFar
<1>4. tracked' \in Seq(S)'
      BY <1>2, <1>3
<1>5. \A n \in 1 .. Len(tracked) : \E p \in Places :
        Handled(p[1], p[2])' /\ ShouldProcess(StatsdKeys[p[2]])' /\ tracked[n] = Sending(p[1], p[2])'
  <2>1. \A n \in 1 .. Len(tracked) : \E p \in Places :
          Handled(p[1], p[2]) /\ ShouldProcess(StatsdKeys[p[2]]) /\ tracked[n] = Sending(p[1], p[2])
        BY DEF SentSoFar
  <2> QED BY <2>1
<1>6. \A p \in Places : Handled(p[1], p[2])' /\ ShouldProcess(StatsdKeys[p[2]])' =>
        \E n \in 1 .. Len(tracked) : tracked[n] = Sending(p[1], p[2])'
  <2>1. \A p \in Places : Handled(p[1], p[2]) /\ ShouldProcess(StatsdKeys[p[2]]) =>
          \E n \in 1 .. Len(tracked) : tracked[n] = Sending(p[1], p[2])
        BY DEF SentSoFar
  <2> QED BY <2>1
<1>7. \A m, n \in 1 .. Len(tracked) :
        tracked[m][1] = tracked[n][1] /\ tracked[m][2] = tracked[n][2] => m = n
      BY DEF SentSoFar
<1> QED BY <1>1, <1>4, <1>5, <1>6, <1>7 DEF SentSoFar

LEMMA KeyKeepsSent ==
  ASSUME SentSoFar, OnKey
  PROVE  SentSoFar'
<1> DEFINE key == StatsdKeys[next]
           S == {Sending(p[1], p[2]) : p \in Places}
<1>1. /\ next \in 1 .. Len(StatsdKeys) /\ next' = next + 1 /\ family' = family /\ family \in 1 .. 3
      /\ <<family, next>> \in Places
      BY DEF SentSoFar, OnKey, Places
<1>2. \A k : ShouldProcess(StatsdKeys[k])' = ShouldProcess(StatsdKeys[k]) /\ MetricName(StatsdKeys[k])' = MetricName(StatsdKeys[k])
      BY DEF OnKey, ShouldProcess, MetricName, HasProperties
<1>3. \A f, k : Sending(f, k)' = Sending(f, k)
      BY <1>2 DEF Sending
<1>4. \A p \in Places : Handled(p[1], p[2])' <=> Handled(p[1], p[2]) \/ p = <<family, next>>
      BY <1>1 DEF Handled, Places
<1>5. CASE Skip(key)
  <2>1. tracked' = tracked /\ ~ ShouldProcess(key)
        BY <1>5 DEF Skip
  <2>2. \A p \in Places : ShouldProcess(StatsdKeys[p[2]]) => (Handled(p[1], p[2])' <=> Handled(p[1], p[2]))
        BY <1>4, <2>1
  <2>3. next' \in 1 .. Len(StatsdKeys) + 1
        BY <1>1, StatsdAssumption
  <2> QED BY <1>1, <1>2, <1>3, <2>1, <2>2, <2>3, NoCallKeepsSent
<1>6. CASE Track(key)
  <2>1. tracked' = Append(tracked, Sending(family, next)) /\ ShouldProcess(key)
        BY <1>6 DEF Track, Sending
  <2>2. tracked \in Seq(S) /\ Sending(family, next) \in S
    <3>1. tracked \in Seq(S)
          BY DEF SentSoFar
    <3>2. \A p \in Places : Sending(p[1], p[2]) \in S
          OBVIOUS
    <3> HIDE DEF S
    <3>3. Sending(<<family, next>>[1], <<family, next>>[2]) \in S
          BY <1>1, <3>2
    <3> QED BY <3>1, <3>3
  <2>3. /\ tracked' \in Seq(S) /\ Len(tracked) \in Nat /\ Len(tracked') = Len(tracked) + 1
        /\ tracked'[Len(tracked) + 1] = Sending(family, next)
        /\ \A n \in 1 .. Len(tracked) : tracked'[n] = tracked[n]
        BY <2>1, <2>2
  <2>4. ~ Handled(family, next)
        BY <1>1 DEF Handled
  <2>5. ASSUME NEW n \in 1 .. Len(tracked)
        PROVE  ~ (tracked[n][1] = Families[family] /\ tracked[n][2] = key)
    <3>1. PICK p \in Places : Handled(p[1], p[2]) /\ tracked[n] = Sending(p[1], p[2])
          BY DEF SentSoFar
    <3>2. p[1] \in 1 .. 3 /\ p[2] \in 1 .. Len(StatsdKeys)
          BY DEF Places
    <3>3. tracked[n][1] = Families[family] => p[1] = family
          BY <1>1, <3>1, <3>2, FamiliesDiffer, SendingParts
    <3>4. tracked[n][2] = key => p[2] = next
          BY <1>1, <3>1, <3>2, StatsdAssumption, SendingParts
    <3> QED BY <2>4, <3>1, <3>3, <3>4
  <2>6. ASSUME NEW n \in 1 .. Len(tracked')
        PROVE  \E p \in Places : (Handled(p[1], p[2]) \/ p = <<family, next>>)
                                 /\ ShouldProcess(StatsdKeys[p[2]]) /\ tracked'[n] = Sending(p[1], p[2])
    <3>1. CASE n \in 1 .. Len(tracked)
          BY <2>3, <3>1 DEF SentSoFar
    <3>2. CASE n = Len(tracked) + 1
          BY <1>1, <2>1, <2>3, <3>2
    <3> QED BY <2>3, <3>1, <3>2
  <2>7. ASSUME NEW p \in Places, Handled(p[1], p[2]) \/ p = <<family, next>>, ShouldProcess(StatsdKeys[p[2]])
        PROVE  \E n \in 1 .. Len(tracked') : tracked'[n] = Sending(p[1], p[2])
    <3>1. CASE Handled(p[1], p[2])
      <4>1. PICK n \in 1 .. Len(tracked) : tracked[n] = Sending(p[1], p[2])
            BY <2>7, <3>1 DEF SentSoFar
      <4> QED BY <2>3, <4>1
    <3>2. CASE p = <<family, next>>
      <4>1. Len(tracked) + 1 \in 1 .. Len(tracked')
            BY <2>3
      <4> QED BY <2>3, <3>2, <4>1
    <3> QED BY <2>7, <3>1, <3>2
  <2>8. ASSUME NEW m \in 1 .. Len(tracked'), NEW n \in 1 .. Len(tracked'),
               tracked'[m][1] = tracked'[n][1], tracked'[m][2] = tracked'[n][2]
        PROVE  m = n
    <3>1. tracked'[Len(tracked) + 1][1] = Families[family] /\ tracked'[Len(tracked) + 1][2] = key
          BY <2>3, SendingParts
    <3>2. CASE m \in 1 .. Len(tracked) /\ n \in 1 .. Len(tracked)
          BY <2>3, <2>8, <3>2 DEF SentSoFar
    <3>3. CASE m \in 1 .. Len(tracked) /\ n = Len(tracked) + 1
          BY <2>3, <2>5, <2>8, <3>1, <3>3
    <3>4. CASE n \in 1 .. Len(tracked) /\ m = Len(tracked) + 1
          BY <2>3, <2>5, <2>8, <3>1, <3>4
    <3>5. CASE m = Len(tracked) + 1 /\ n = Len(tracked) + 1
          BY <3>5
    <3>6. \A l \in 1 .. Len(tracked') : l \in 1 .. Len(tracked) \/ l = Len(tracked) + 1
          BY <2>3
    <3> QED BY <3>2, <3>3, <3>4, <3>5, <3>6
  <2>9. S' = S
        BY <1>3
  <2>10. next' \in 1 .. Len(StatsdKeys) + 1
        BY <1>1, StatsdAssumption
  <2>11. /\ \A n \in 1 .. Len(tracked') : \E p \in Places :
              Handled(p[1], p[2])' /\ ShouldProcess(StatsdKeys[p[2]])' /\ tracked'[n] = Sending(p[1], p[2])'
         /\ \A p \in Places : Handled(p[1], p[2])' /\ ShouldProcess(StatsdKeys[p[2]])' =>
              \E n \in 1 .. Len(tracked') : tracked'[n] = Sending(p[1], p[2])'
         /\ \A m, n \in 1 .. Len(tracked') :
              tracked'[m][1] = tracked'[n][1] /\ tracked'[m][2] = tracked'[n][2] => m = n
    <3> HIDE DEF key, S
    <3>1. \A n \in 1 .. Len(tracked') : \E p \in Places :
            Handled(p[1], p[2])' /\ ShouldProcess(StatsdKeys[p[2]])' /\ tracked'[n] = Sending(p[1], p[2])'
          BY <1>2, <1>3, <1>4, <2>6
    <3>2. \A p \in Places : Handled(p[1], p[2])' /\ ShouldProcess(StatsdKeys[p[2]])' =>
            \E n \in 1 .. Len(tracked') : tracked'[n] = Sending(p[1], p[2])'
          BY <1>2, <1>3, <1>4, <2>7
    <3> QED BY <2>8, <3>1, <3>2
  <2>12. Places' = Places
        BY DEF Places
  <2> QED BY <1>1, <2>3, <2>9, <2>10, <2>11, <2>12 DEF SentSoFar
<1> QED BY <1>5, <1>6 DEF OnKey

LEMMA FamilyKeepsSent ==
  ASSUME SentSoFar, NextFamily
  PROVE  SentSoFar'
<1>1. /\ next > Len(StatsdKeys) /\ family \in 1 .. 3 /\ family < 3 /\ family' = family + 1 /\ next' = 1
      /\ UNCHANGED <<aiPrefix, trackStatsDMetrics, tracked>>
      BY FamiliesDiffer DEF SentSoFar, NextFamily
<1>2. \A f, k : /\ ShouldProcess(StatsdKeys[k])' = ShouldProcess(StatsdKeys[k])
                /\ Sending(f, k)' = Sending(f, k)
      BY <1>1 DEF ShouldProcess, Sending, MetricName, HasProperties
<1>3. \A p \in Places : Handled(p[1], p[2])' <=> Handled(p[1], p[2])
  <2>1. ASSUME NEW f \in 1 .. 3, NEW k \in 1 .. Len(StatsdKeys)
        PROVE  Handled(f, k)' <=> Handled(f, k)
    <3>1. Len(StatsdKeys) \in Nat /\ next \in Nat /\ k \in Nat /\ 1 <= k /\ k <= Len(StatsdKeys)
          BY StatsdAssumption DEF SentSoFar
    <3>2. k < next /\ ~(k < 1)
          BY <1>1, <3>1
    <3>3. f < family + 1 <=> f < family \/ f = family
          BY <1>1
    <3> QED BY <1>1, <3>2, <3>3 DEF Handled
  <2> QED BY <2>1 DEF Places
<1>4. next' \in 1 .. Len(StatsdKeys) + 1 /\ family' \in 1 .. 3
      BY <1>1, StatsdAssumption
<1> QED BY <1>1, <1>2, <1>3, <1>4, NoCallKeepsSent

LEMMA SentInvariant == StatsdSpec => []SentSoFar
<1>1. StatsdInit => SentSoFar
  <2> SUFFICES ASSUME StatsdInit
               PROVE  SentSoFar
      OBVIOUS
  <2>1. family = 1 /\ next = 1 /\ tracked = <<>>
        BY DEF StatsdInit
  <2>2. \A p \in Places : ~ Handled(p[1], p[2])
        BY <2>1 DEF Handled, Places
  <2>3. next \in 1 .. Len(StatsdKeys) + 1 /\ family \in 1 .. 3
        BY <2>1, StatsdAssumption
  <2>4. /\ tracked \in Seq({Sending(p[1], p[2]) : p \in Places})
        /\ \A n \in 1 .. Len(tracked) : FALSE
        BY <2>1
  <2> QED BY <2>2, <2>3, <2>4 DEF SentSoFar
<1>2. SentSoFar /\ UNCHANGED statsdVars => SentSoFar'
  <2> SUFFICES ASSUME SentSoFar, UNCHANGED statsdVars
               PROVE  SentSoFar'
      OBVIOUS
  <2>1. UNCHANGED <<family, next, tracked>>
        BY DEF statsdVars
  <2>2. \A f, k : /\ ShouldProcess(StatsdKeys[k])' = ShouldProcess(StatsdKeys[k])
                  /\ Sending(f, k)' = Sending(f, k) /\ Handled(f, k)' = Handled(f, k)
        BY DEF statsdVars, ShouldProcess, Sending, MetricName, HasProperties, Handled
  <2>3. family \in 1 .. 3 /\ next \in 1 .. Len(StatsdKeys) + 1
        BY DEF SentSoFar
  <2> QED BY <2>1, <2>2, <2>3, NoCallKeepsSent
<1>3. SentSoFar /\ [StatsdStep]_statsdVars => SentSoFar'
      BY <1>2, KeyKeepsSent, FamilyKeepsSent DEF StatsdStep
<1> QED BY <1>1, <1>3, PTL DEF StatsdSpec

\* A flush sends every selected metric of every family once, and no two metrics without
\* properties under one name, for any keys, whatever of them does not parse.
THEOREM SelectedAreSentOnce == StatsdSpec => []SelectedMetricsAreSentOnce
<1>1. SentSoFar => SelectedMetricsAreSentOnce
  <2> SUFFICES ASSUME SentSoFar
               PROVE  SelectedMetricsAreSentOnce
      OBVIOUS
  <2>1. ASSUME StatsdEnded, NEW f \in 1 .. Len(Families), NEW key \in KeySet
        PROVE  /\ ShouldProcess(key) <=> Calls(Families[f], key) # {}
               /\ \A m, n \in Calls(Families[f], key) : m = n
    <3>1. PICK k \in 1 .. Len(StatsdKeys) : key = StatsdKeys[k]
          BY DEF KeySet
    <3>2. f \in 1 .. 3 /\ <<f, k>> \in Places /\ Handled(f, k)
          BY <2>1, FamiliesDiffer, StatsdAssumption DEF StatsdEnded, SentSoFar, Handled, Places
    <3>3. ASSUME ShouldProcess(key)
          PROVE  Calls(Families[f], key) # {}
      <4>1. PICK n \in 1 .. Len(tracked) : tracked[n] = Sending(f, k)
            BY <3>1, <3>2, <3>3 DEF SentSoFar
      <4> QED BY <3>1, <4>1, SendingParts DEF Calls
    <3>4. ASSUME NEW n \in Calls(Families[f], key)
          PROVE  ShouldProcess(key)
      <4>1. PICK p \in Places : ShouldProcess(StatsdKeys[p[2]]) /\ tracked[n] = Sending(p[1], p[2])
            BY DEF Calls, SentSoFar
      <4>2. StatsdKeys[p[2]] = key
            BY <4>1, SendingParts DEF Calls
      <4> QED BY <4>1, <4>2
    <3>5. \A m, n \in Calls(Families[f], key) : m = n
          BY DEF Calls, SentSoFar
    <3> QED BY <3>3, <3>4, <3>5
  <2>2. ASSUME NEW m \in 1 .. Len(tracked), NEW n \in 1 .. Len(tracked), tracked[m][3] = tracked[n][3],
               ~HasProperties(tracked[m][2]), ~HasProperties(tracked[n][2])
        PROVE  tracked[m][2] = tracked[n][2]
    <3>1. PICK p \in Places : ShouldProcess(StatsdKeys[p[2]]) /\ tracked[m] = Sending(p[1], p[2])
          BY DEF SentSoFar
    <3>2. PICK q \in Places : ShouldProcess(StatsdKeys[q[2]]) /\ tracked[n] = Sending(q[1], q[2])
          BY DEF SentSoFar
    <3>3. /\ tracked[m][2] = StatsdKeys[p[2]] /\ tracked[n][2] = StatsdKeys[q[2]]
          /\ MetricName(StatsdKeys[p[2]]) = MetricName(StatsdKeys[q[2]])
          BY <2>2, <3>1, <3>2, SendingParts
    <3>4. \A a, b : /\ MetricName(a) = MetricName(b) /\ ShouldProcess(a) /\ ShouldProcess(b)
                     /\ ~HasProperties(a) /\ ~HasProperties(b)
                      => a.head = b.head /\ a.name = b.name /\ a.props = b.props
          BY DEF MetricName, ShouldProcess
    <3>5. p[2] \in 1 .. Len(StatsdKeys) /\ q[2] \in 1 .. Len(StatsdKeys)
          BY DEF Places
    <3>6. ~HasProperties(StatsdKeys[p[2]]) /\ ~HasProperties(StatsdKeys[q[2]])
          BY <2>2, <3>3
    <3>7. /\ StatsdKeys[p[2]].head = StatsdKeys[q[2]].head
          /\ StatsdKeys[p[2]].name = StatsdKeys[q[2]].name
          /\ StatsdKeys[p[2]].props = StatsdKeys[q[2]].props
          BY <3>1, <3>2, <3>3, <3>4, <3>6
    <3>8. StatsdKeys[p[2]] = StatsdKeys[q[2]]
          BY <3>5, <3>7, StatsdAssumption
    <3> QED BY <3>3, <3>8
  <2>3. ASSUME NEW key
        PROVE  ShouldProcess(key) <=> /\ aiPrefix \in {"none", key.head}
                                      /\ key.head = "statsd" => trackStatsDMetrics
        BY DEF ShouldProcess
  <2> QED BY <2>1, <2>2, <2>3 DEF SelectedMetricsAreSentOnce
<1> QED BY <1>1, SentInvariant, PTL

-----------------------------------------------------------------------------
(* definitions by recursion *)

\* A set of numbers has a least one.
LEMMA NatLeast ==
  ASSUME NEW P, P \subseteq Nat, P # {}
  PROVE  \E n \in P : \A m \in P : n <= m
<1>1. \E x \in P : \A y \in P : ~ (<<y, x>> \in OpToRel(<, Nat))
      BY NatLessThanWellFounded, WFMin
<1>2. \A x, y \in Nat : y < x => <<y, x>> \in OpToRel(<, Nat)
      BY DEF OpToRel
<1>3. PICK x \in P : \A y \in P : ~ (y < x)
      BY <1>1, <1>2, Zenon
<1> QED BY <1>3

\* Among the elements of a set there is one of lowest rank.
LEMMA LeastRank ==
  ASSUME NEW S, NEW rank \in [S -> Nat], NEW B, B \subseteq S, B # {}
  PROVE  \E x \in B : \A y \in S : rank[y] < rank[x] => y \notin B
<1> DEFINE P == {rank[x] : x \in B}
<1>1. P \subseteq Nat /\ P # {}
      OBVIOUS
<1>2. PICK n \in P : \A m \in P : n <= m
  <2> HIDE DEF P
  <2> QED BY <1>1, NatLeast
<1>3. PICK x \in B : rank[x] = n
      BY <1>2
<1>4. ASSUME NEW y \in B
      PROVE  n <= rank[y] /\ rank[y] \in Nat
      BY <1>2
<1> QED BY <1>3, <1>4

\* Induction, for a set of numbers.
LEMMA NatSets ==
  ASSUME NEW P, 0 \in P, \A n \in Nat : n \in P => n + 1 \in P
  PROVE  Nat \subseteq P
<1> SUFFICES ASSUME Nat \ P # {}
             PROVE  FALSE
    OBVIOUS
<1>1. PICK n \in Nat \ P : \A m \in Nat \ P : n <= m
      BY NatLeast
<1>2. n - 1 \in Nat /\ n - 1 \notin Nat \ P
      BY <1>1
<1> QED BY <1>1, <1>2

\* A definition of a function f on S by f = D[f]: what D makes of f at a place depends on f at places of a lower rank.
IsRecursion(S, T, rank, D) ==
  /\ T # {} /\ rank \in [S -> Nat] /\ D \in [[S -> T] -> [S -> T]]
  /\ \A g, h \in [S -> T], x \in S :
       (\A y \in S : rank[y] < rank[x] => g[y] = h[y]) => D[g][x] = D[h][x]

\* Such a definition has a solution: the functions that solve it up to each rank agree.
LEMMA RecursionHasSolution ==
  ASSUME NEW S, NEW T, NEW rank, NEW D, IsRecursion(S, T, rank, D)
  PROVE  \E f \in [S -> T] : f = D[f]
<1> USE DEF IsRecursion
<1> DEFINE Fixed(g, n) == \A x \in S : rank[x] < n => g[x] = D[g][x]
<1> DEFINE P == {n \in Nat : \E g \in [S -> T] : Fixed(g, n)}
<1>1. 0 \in P
  <2>1. PICK t \in T : TRUE
        OBVIOUS
  <2>2. [x \in S |-> t] \in [S -> T]
        OBVIOUS
  <2>3. \A x \in S : ~ (rank[x] < 0)
        OBVIOUS
  <2> QED BY <2>2, <2>3
<1>2. ASSUME NEW n \in Nat, n \in P
      PROVE  n + 1 \in P
  <2>1. PICK g \in [S -> T] : Fixed(g, n)
        BY <1>2
  <2>2. D[g] \in [S -> T]
        OBVIOUS
  <2>3. ASSUME NEW x \in S, rank[x] < n + 1
        PROVE  D[g][x] = D[D[g]][x]
    <3>1. \A y \in S : rank[y] < rank[x] => rank[y] < n
          BY <2>3
    <3>2. \A y \in S : rank[y] < rank[x] => g[y] = D[g][y]
          BY <2>1, <3>1
    <3> QED BY <2>2, <3>2
  <2> QED BY <2>2, <2>3
<1>3. Nat \subseteq P
  <2> HIDE DEF P
  <2> QED BY <1>1, <1>2, NatSets
<1>4. \A n \in Nat : \E g \in [S -> T] : Fixed(g, n)
      BY <1>3
<1> DEFINE G == [n \in Nat |-> CHOOSE g \in [S -> T] : Fixed(g, n)]
<1>5. \A n \in Nat : G[n] \in [S -> T] /\ Fixed(G[n], n)
  <2> HIDE DEF Fixed
  <2> QED BY <1>4
<1>6. ASSUME NEW n \in Nat, NEW g \in [S -> T], NEW h \in [S -> T], Fixed(g, n), Fixed(h, n)
      PROVE  \A x \in S : rank[x] < n => g[x] = h[x]
  <2> DEFINE B == {x \in S : rank[x] < n /\ g[x] # h[x]}
  <2> SUFFICES ASSUME B # {}
               PROVE  FALSE
      OBVIOUS
  <2>1. PICK x \in B : \A y \in S : rank[y] < rank[x] => y \notin B
    <3>1. B \subseteq S
          OBVIOUS
    <3> HIDE DEF B
    <3> QED BY <3>1, LeastRank
  <2>2. ASSUME NEW y \in S, rank[y] < rank[x]
        PROVE  g[y] = h[y]
    <3>1. rank[y] \in Nat /\ rank[x] \in Nat /\ rank[x] < n
          BY <2>1
    <3> QED BY <2>1, <2>2, <3>1
  <2>3. D[g][x] = D[h][x]
        BY <2>1, <2>2
  <2> QED BY <1>6, <2>1, <2>3
<1> DEFINE f == [x \in S |-> G[rank[x] + 1][x]]
<1>7. f \in [S -> T]
  <2>1. \A x \in S : rank[x] + 1 \in Nat
        OBVIOUS
  <2>2. \A n \in Nat : G[n] \in [S -> T]
        BY <1>5
  <2> HIDE DEF Fixed, G
  <2> QED BY <2>1, <2>2
<1>8. ASSUME NEW x \in S
      PROVE  f[x] = D[f][x]
  <2> HIDE DEF G
  <2>1. rank[x] \in Nat /\ rank[x] + 1 \in Nat
        OBVIOUS
  <2>2. ASSUME NEW y \in S, rank[y] < rank[x]
        PROVE  f[y] = G[rank[x] + 1][y]
    <3>1. rank[y] \in Nat /\ rank[y] + 1 \in Nat
          OBVIOUS
    <3>2. Fixed(G[rank[x] + 1], rank[y] + 1)
          BY <1>5, <2>1, <2>2, <3>1
    <3>3. rank[y] < rank[y] + 1 /\ Fixed(G[rank[y] + 1], rank[y] + 1)
          BY <1>5, <3>1
    <3>4. G[rank[y] + 1] \in [S -> T] /\ G[rank[x] + 1] \in [S -> T]
          BY <1>5, <2>1, <3>1
    <3>5. G[rank[y] + 1][y] = G[rank[x] + 1][y]
      <4> HIDE DEF Fixed, G
      <4> QED BY <1>6, <3>1, <3>2, <3>3, <3>4
    <3> QED BY <3>5
  <2>3. D[f][x] = D[G[rank[x] + 1]][x]
        BY <1>5, <1>7, <2>1, <2>2
  <2>4. G[rank[x] + 1][x] = D[G[rank[x] + 1]][x]
        BY <1>5, <2>1
  <2> QED BY <2>3, <2>4
<1>9. f = D[f]
  <2> HIDE DEF f
  <2>1. D[f] \in [S -> T]
        BY <1>7
  <2> QED BY <1>7, <1>8, <2>1
<1> QED BY <1>7, <1>9

-----------------------------------------------------------------------------
(* the subset match of the test harness *)

Pairs == Values \X Values
RankOfPair == [p \in Pairs |-> Depth[p[2]]]

LEMMA RankOfPairTyped == RankOfPair \in [Pairs -> Nat]
BY ValidateAssumption DEF RankOfPair, Pairs

\* The parts of a value are values, less deep than it.
LEMMA PartsAreValues ==
  ASSUME NEW v \in Values
  PROVE  /\ Elements(v) \subseteq Values /\ Entries(v) \subseteq Values
         /\ \A k \in DOMAIN v.map : v.map[k] \in Values /\ Depth[v.map[k]] < Depth[v]
         /\ \A w \in Elements(v) : Depth[w] < Depth[v]
BY ValidateAssumption DEF Entries

LEMMA DepthTyped ==
  \A v \in Values : Depth[v] \in Nat
BY ValidateAssumption

\* What the search of a map returns depends on the searches of less deep targets.
LEMMA VerifyReadsParts ==
  ASSUME NEW g, NEW h, NEW s \in Values, NEW t \in Values,
         \A p \in Pairs : RankOfPair[p] < Depth[t] => g[p] = h[p]
  PROVE  Verify(g, s, t) = Verify(h, s, t)
<1>1. ASSUME NEW c \in Values, NEW w \in Values, Depth[w] < Depth[t]
      PROVE  g[<<c, w>>] = h[<<c, w>>]
      BY <1>1 DEF Pairs, RankOfPair
<1>2. ASSUME NEW c \in Values, NEW w \in Values, Depth[w] < Depth[t]
      PROVE  InList(g, c, w) <=> InList(h, c, w)
  <2>1. \A x \in Elements(w), y \in Elements(c) : g[<<y, x>>] = h[<<y, x>>]
    <3> SUFFICES ASSUME NEW x \in Elements(w), NEW y \in Elements(c)
                 PROVE  g[<<y, x>>] = h[<<y, x>>]
        OBVIOUS
    <3>1. x \in Values /\ y \in Values /\ Depth[x] < Depth[w]
          BY <1>2, PartsAreValues
    <3>2. Depth[x] < Depth[t]
          BY <1>2, <3>1, DepthTyped
    <3> QED BY <1>1, <3>1, <3>2
  <2> QED BY <2>1 DEF InList
<1>3. ASSUME NEW c \in Values, NEW w \in Values, Depth[w] < Depth[t]
      PROVE  Compare(g, c, w) <=> Compare(h, c, w)
      BY <1>1, <1>2, <1>3 DEF Compare
<1>4. ASSUME NEW k \in DOMAIN t.map, k \in DOMAIN s.map
      PROVE  Compare(g, s.map[k], t.map[k]) <=> Compare(h, s.map[k], t.map[k])
      BY <1>3, <1>4, PartsAreValues
<1> QED BY <1>4 DEF Verify

LEMMA VerifyBoolean ==
  ASSUME NEW g, NEW s, NEW t
  PROVE  Verify(g, s, t) \in BOOLEAN
BY DEF Verify

\* The search returns what its loop returns with the search for the calls of itself.
LEMMA InMapDef ==
  /\ InMap \in [Pairs -> BOOLEAN]
  /\ \A s, t \in Values : InMap[<<s, t>>] = Verify(InMap, s, t)
<1> DEFINE Step(g) == [p \in Pairs |-> Verify(g, p[1], p[2])]
<1> DEFINE D == [g \in [Pairs -> BOOLEAN] |-> Step(g)]
<1>1. ASSUME NEW g
      PROVE  Step(g) \in [Pairs -> BOOLEAN]
      BY VerifyBoolean
<1>2. D \in [[Pairs -> BOOLEAN] -> [Pairs -> BOOLEAN]]
  <2> HIDE DEF Step
  <2> QED BY <1>1
<1>3. ASSUME NEW g \in [Pairs -> BOOLEAN], NEW h \in [Pairs -> BOOLEAN], NEW x \in Pairs,
             \A y \in Pairs : RankOfPair[y] < RankOfPair[x] => g[y] = h[y]
      PROVE  D[g][x] = D[h][x]
  <2>1. x[1] \in Values /\ x[2] \in Values /\ RankOfPair[x] = Depth[x[2]]
        BY DEF Pairs, RankOfPair
  <2>2. Verify(g, x[1], x[2]) = Verify(h, x[1], x[2])
        BY <1>3, <2>1, VerifyReadsParts
  <2> QED BY <2>2
<1>4. \E f \in [Pairs -> BOOLEAN] : f = D[f]
  <2> HIDE DEF D
  <2>1. BOOLEAN # {}
        OBVIOUS
  <2>2. \A g, h \in [Pairs -> BOOLEAN], x \in Pairs :
          (\A y \in Pairs : RankOfPair[y] < RankOfPair[x] => g[y] = h[y]) => D[g][x] = D[h][x]
        BY <1>3
  <2>3. IsRecursion(Pairs, BOOLEAN, RankOfPair, D)
        BY <1>2, <2>1, <2>2, RankOfPairTyped DEF IsRecursion
  <2> QED BY <2>3, RecursionHasSolution
<1>5. \E f : f = Step(f)
      BY <1>4
<1>6. InMap = CHOOSE f : f = Step(f)
      BY DEF InMap, Pairs
<1>7. InMap = Step(InMap)
  <2> HIDE DEF Step
  <2> QED BY <1>5, <1>6
<1>8. InMap \in [Pairs -> BOOLEAN]
      BY <1>1, <1>7
<1>9. ASSUME NEW s \in Values, NEW t \in Values
      PROVE  InMap[<<s, t>>] = Verify(InMap, s, t)
  <2>1. <<s, t>> \in Pairs
        BY DEF Pairs
  <2>2. Step(InMap)[<<s, t>>] = Verify(InMap, s, t)
        BY <2>1
  <2> HIDE DEF Step
  <2> QED BY <1>7, <2>2
<1> QED BY <1>8, <1>9

\* what a comparison needs of the parts
LEMMA CompareCases ==
  ASSUME NEW c \in Values, NEW w \in Values
  PROVE  Compare(InMap, c, w) <=>
           /\ c.type = w.type
           /\ \/ w.type \in ScalarTypes /\ c.scalar = w.scalar
              \/ w.type = "list" /\ \A x \in Elements(w) : \E y \in Elements(c) :
                                       x.type # "list" /\ Compare(InMap, y, x)
              \/ w.type = "map" /\ \A k \in DOMAIN w.map :
                                      k \in DOMAIN c.map /\ Compare(InMap, c.map[k], w.map[k])
<1>1. \A x, y : /\ IsSameType(y, x)
                /\ \/ x.type \in ScalarTypes /\ y.scalar = x.scalar
                   \/ x.type = "map" /\ InMap[<<y, x>>]
                <=> x.type # "list" /\ Compare(InMap, y, x)
      BY DEF Compare, ScalarTypes
<1>2. InList(InMap, c, w) <=> \A x \in Elements(w) : \E y \in Elements(c) :
                                 x.type # "list" /\ Compare(InMap, y, x)
      BY <1>1 DEF InList
<1>3. InMap[<<c, w>>] <=> \A k \in DOMAIN w.map : k \in DOMAIN c.map /\ Compare(InMap, c.map[k], w.map[k])
      BY InMapDef DEF Verify
<1> QED BY <1>2, <1>3 DEF Compare, IsSameType

Steps == {"[]"} \cup UNION {DOMAIN v.map : v \in Values}
Scalars == {v.scalar : v \in Values}
AllFacts == Seq(Steps) \X Types \X Scalars

LEMMA UnderTyped ==
  ASSUME NEW step \in Steps, NEW F \in SUBSET AllFacts
  PROVE  Under(step, F) \subseteq AllFacts
<1> SUFFICES ASSUME NEW f \in F
             PROVE  <<<<step>> \o f[1], f[2], f[3]>> \in AllFacts
    BY DEF Under
<1>1. f \in AllFacts
      OBVIOUS
<1>2. f[1] \in Seq(Steps) /\ f[2] \in Types /\ f[3] \in Scalars
      BY <1>1 DEF AllFacts
<1>3. <<step>> \o f[1] \in Seq(Steps)
      BY <1>2
<1> QED BY <1>2, <1>3 DEF AllFacts

\* What a value states depends on what its parts state.
LEMMA StatedReadsParts ==
  ASSUME NEW g, NEW h, NEW v \in Values, \A w \in Values : Depth[w] < Depth[v] => g[w] = h[w]
  PROVE  Stated(g, v) = Stated(h, v)
<1>1. \A w \in Elements(v) : g[w] = h[w]
      BY PartsAreValues
<1>2. \A k \in DOMAIN v.map : g[v.map[k]] = h[v.map[k]]
      BY PartsAreValues
<1>3. {Under("[]", g[w]) : w \in Elements(v)} = {Under("[]", h[w]) : w \in Elements(v)}
      BY <1>1
<1>4. {Under(k, g[v.map[k]]) : k \in DOMAIN v.map} = {Under(k, h[v.map[k]]) : k \in DOMAIN v.map}
      BY <1>2
<1> QED BY <1>3, <1>4 DEF Stated

LEMMA StatedTyped ==
  ASSUME NEW g, NEW v \in Values, \A w \in Values : Depth[w] < Depth[v] => g[w] \in SUBSET AllFacts
  PROVE  Stated(g, v) \in SUBSET AllFacts
<1>1. <<<<>>, v.type, v.scalar>> \in AllFacts
  <2>1. v.type \in Types
        BY ValidateAssumption
  <2>2. v.scalar \in Scalars
        BY DEF Scalars
  <2>3. <<>> \in Seq(Steps)
        OBVIOUS
  <2> QED BY <2>1, <2>2, <2>3 DEF AllFacts
<1>2. \A w \in Elements(v) : Under("[]", g[w]) \subseteq AllFacts
  <2>1. "[]" \in Steps
        BY DEF Steps
  <2> QED BY <2>1, PartsAreValues, UnderTyped
<1>3. \A k \in DOMAIN v.map : Under(k, g[v.map[k]]) \subseteq AllFacts
  <2>1. \A k \in DOMAIN v.map : k \in Steps
        BY DEF Steps
  <2> QED BY <2>1, PartsAreValues, UnderTyped
<1> QED BY <1>1, <1>2, <1>3 DEF Stated

\* Facts are what is stated with the facts of the parts.
LEMMA FactsDef ==
  /\ Facts \in [Values -> SUBSET AllFacts]
  /\ \A v \in Values : Facts[v] = Stated(Facts, v)
<1> DEFINE Step(g) == [v \in Values |-> Stated(g, v)]
<1> DEFINE T == SUBSET AllFacts
<1> DEFINE D == [g \in [Values -> T] |-> Step(g)]
<1>1. ASSUME NEW g \in [Values -> T]
      PROVE  Step(g) \in [Values -> T]
      BY StatedTyped
<1>2. D \in [[Values -> T] -> [Values -> T]]
  <2> HIDE DEF Step, T
  <2> QED BY <1>1
<1>3. \A g, h \in [Values -> T], v \in Values :
        (\A w \in Values : Depth[w] < Depth[v] => g[w] = h[w]) => D[g][v] = D[h][v]
      BY StatedReadsParts
<1>4. \E f \in [Values -> T] : f = D[f]
  <2>1. T # {}
        OBVIOUS
  <2>2. Depth \in [Values -> Nat]
        BY ValidateAssumption
  <2> HIDE DEF D, T
  <2>3. IsRecursion(Values, T, Depth, D)
        BY <1>2, <1>3, <2>1, <2>2 DEF IsRecursion
  <2> QED BY <2>3, RecursionHasSolution
<1>5. PICK f \in [Values -> T] : f = Step(f)
      BY <1>4
<1>6. Facts = CHOOSE g : g = Step(g)
      BY DEF Facts
<1>7. Facts = Step(Facts)
  <2> HIDE DEF Step, T
  <2> QED BY <1>5, <1>6
<1>8. \A v \in Values : Facts[v] = Stated(Facts, v)
      BY <1>7
<1>9. \A v \in Values : Facts[v] \in T
  <2> DEFINE B == {v \in Values : Facts[v] \notin T}
  <2> SUFFICES ASSUME B # {}
               PROVE  FALSE
      OBVIOUS
  <2>1. Depth \in [Values -> Nat] /\ B \subseteq Values
        BY ValidateAssumption
  <2>2. PICK v \in B : \A w \in Values : Depth[w] < Depth[v] => w \notin B
    <3> HIDE DEF B
    <3> QED BY <2>1, LeastRank
  <2>3. \A w \in Values : Depth[w] < Depth[v] => Facts[w] \in SUBSET AllFacts
        BY <2>2
  <2> QED BY <1>8, <2>2, <2>3, StatedTyped
<1>10. Facts \in [Values -> T]
  <2>1. Facts = [v \in Values |-> Facts[v]]
        BY <1>7
  <2> HIDE DEF T
  <2> QED BY <1>9, <2>1
<1> QED BY <1>8, <1>10

\* What a value states is stated by every value that it matches.
LEMMA MatchStates ==
  ASSUME NEW c \in Values, NEW w \in Values, Compare(InMap, c, w)
  PROVE  Facts[w] \subseteq Facts[c]
<1> DEFINE B == {v \in Values : \E a \in Values : Compare(InMap, a, v) /\ ~(Facts[v] \subseteq Facts[a])}
<1> SUFFICES ASSUME B # {}
             PROVE  FALSE
    OBVIOUS
<1>1. PICK v \in B : \A x \in Values : Depth[x] < Depth[v] => x \notin B
  <2>1. Depth \in [Values -> Nat] /\ B \subseteq Values
        BY ValidateAssumption
  <2> HIDE DEF B
  <2> QED BY <2>1, LeastRank
<1>2. PICK a \in Values : Compare(InMap, a, v) /\ ~(Facts[v] \subseteq Facts[a])
      BY <1>1
<1>3. v \in Values
      BY <1>1
<1>4. \A x, y \in Values : Depth[x] < Depth[v] /\ Compare(InMap, y, x) => Facts[x] \subseteq Facts[y]
      BY <1>1
<1> HIDE DEF B
<1>5. a.type = v.type /\ a.scalar = v.scalar
  <2>1. a.type = v.type /\ (v.type \in ScalarTypes => a.scalar = v.scalar)
        BY <1>2, <1>3, CompareCases DEF ScalarTypes
  <2>2. (v.type \notin ScalarTypes => v.scalar = "") /\ (a.type \notin ScalarTypes => a.scalar = "")
        BY <1>3, ValidateAssumption
  <2> QED BY <2>1, <2>2
<1>6. Facts[v] = Stated(Facts, v) /\ Facts[a] = Stated(Facts, a)
      BY <1>2, <1>3, FactsDef
<1>7. \A x, y, k : Facts[x] \subseteq Facts[y] => Under(k, Facts[x]) \subseteq Under(k, Facts[y])
      BY DEF Under
<1>8. ASSUME NEW x \in Elements(v)
      PROVE  Under("[]", Facts[x]) \subseteq Facts[a]
  <2>1. v.type = "list"
    <3>1. v.type # "list" => v.list = <<>>
          BY <1>3, ValidateAssumption
    <3> QED BY <1>8, <3>1 DEF Elements
  <2>2. PICK y \in Elements(a) : Compare(InMap, y, x)
        BY <1>2, <1>3, <1>8, <2>1, CompareCases DEF ScalarTypes
  <2>3. x \in Values /\ y \in Values /\ Depth[x] < Depth[v]
        BY <1>2, <1>3, PartsAreValues
  <2>4. Under("[]", Facts[x]) \subseteq Under("[]", Facts[y])
        BY <1>4, <1>7, <2>2, <2>3
  <2>5. Under("[]", Facts[y]) \subseteq Stated(Facts, a)
        BY DEF Stated
  <2> QED BY <1>6, <2>4, <2>5
<1>9. ASSUME NEW k \in DOMAIN v.map
      PROVE  Under(k, Facts[v.map[k]]) \subseteq Facts[a]
  <2>1. v.type = "map"
        BY <1>3, <1>9, ValidateAssumption
  <2>2. k \in DOMAIN a.map /\ Compare(InMap, a.map[k], v.map[k])
        BY <1>2, <1>3, <1>9, <2>1, CompareCases, SMTT(30) DEF ScalarTypes
  <2>3. v.map[k] \in Values /\ a.map[k] \in Values /\ Depth[v.map[k]] < Depth[v]
        BY <1>2, <1>3, <1>9, <2>2, PartsAreValues
  <2>4. Under(k, Facts[v.map[k]]) \subseteq Under(k, Facts[a.map[k]])
        BY <1>4, <1>7, <2>2, <2>3
  <2>5. Under(k, Facts[a.map[k]]) \subseteq Stated(Facts, a)
        BY <2>2 DEF Stated
  <2> QED BY <1>6, <2>4, <2>5
<1>10. <<<<>>, v.type, v.scalar>> \in Facts[a]
      BY <1>5, <1>6 DEF Stated
<1>11. Stated(Facts, v) \subseteq Facts[a]
      BY <1>8, <1>9, <1>10 DEF Stated
<1> QED BY <1>2, <1>6, <1>11

\* What matches a match matches.
LEMMA MatchIsTransitive ==
  ASSUME NEW a \in Values, NEW b \in Values, NEW c \in Values, Compare(InMap, a, b), Compare(InMap, b, c)
  PROVE  Compare(InMap, a, c)
<1> DEFINE B == {v \in Values : \E x, y \in Values : Compare(InMap, x, y) /\ Compare(InMap, y, v) /\ ~Compare(InMap, x, v)}
<1> SUFFICES ASSUME B # {}
             PROVE  FALSE
    OBVIOUS
<1>1. PICK v \in B : \A w \in Values : Depth[w] < Depth[v] => w \notin B
  <2>1. Depth \in [Values -> Nat] /\ B \subseteq Values
        BY ValidateAssumption
  <2> HIDE DEF B
  <2> QED BY <2>1, LeastRank
<1>2. PICK x \in Values, y \in Values : Compare(InMap, x, y) /\ Compare(InMap, y, v) /\ ~Compare(InMap, x, v)
      BY <1>1
<1>3. v \in Values
      BY <1>1
<1>4. \A p, q, w \in Values : Depth[w] < Depth[v] /\ Compare(InMap, p, q) /\ Compare(InMap, q, w) => Compare(InMap, p, w)
      BY <1>1
<1> HIDE DEF B
<1>5. x.type = y.type /\ y.type = v.type
      BY <1>2, <1>3, CompareCases
<1>6. CASE v.type \in ScalarTypes
  <2>1. v.type # "list" /\ v.type # "map"
        BY <1>6 DEF ScalarTypes
  <2> QED BY <1>2, <1>3, <1>5, <1>6, <2>1, CompareCases
<1>7. CASE v.type = "list"
  <2>1. v.type \notin ScalarTypes
        BY <1>7 DEF ScalarTypes
  <2>2. \A w \in Elements(v) : w.type # "list" /\ \E q \in Elements(y) : Compare(InMap, q, w)
        BY <1>2, <1>3, <1>7, <2>1, CompareCases
  <2>3. \A q \in Elements(y) : \E p \in Elements(x) : Compare(InMap, p, q)
        BY <1>2, <1>3, <1>5, <1>7, <2>1, CompareCases
  <2>4. \A w \in Elements(v) : \E p \in Elements(x) : w.type # "list" /\ Compare(InMap, p, w)
    <3> SUFFICES ASSUME NEW w \in Elements(v)
                 PROVE  \E p \in Elements(x) : w.type # "list" /\ Compare(InMap, p, w)
        OBVIOUS
    <3>1. PICK q \in Elements(y) : Compare(InMap, q, w)
          BY <2>2
    <3>2. PICK p \in Elements(x) : Compare(InMap, p, q)
          BY <2>3
    <3>3. w \in Values /\ Depth[w] < Depth[v] /\ p \in Values /\ q \in Values
          BY <1>2, <1>3, PartsAreValues
    <3> QED BY <1>4, <2>2, <3>1, <3>2, <3>3
  <2> QED BY <1>2, <1>3, <1>5, <1>7, <2>4, CompareCases
<1>8. CASE v.type = "map"
  <2>1. v.type \notin ScalarTypes
        BY <1>8 DEF ScalarTypes
  <2>2. \A k \in DOMAIN v.map : k \in DOMAIN y.map /\ Compare(InMap, y.map[k], v.map[k])
        BY <1>2, <1>3, <1>8, <2>1, CompareCases
  <2>3. \A k \in DOMAIN y.map : k \in DOMAIN x.map /\ Compare(InMap, x.map[k], y.map[k])
        BY <1>2, <1>5, <1>8, <2>1, CompareCases
  <2>4. \A k \in DOMAIN v.map : k \in DOMAIN x.map /\ Compare(InMap, x.map[k], v.map[k])
    <3> SUFFICES ASSUME NEW k \in DOMAIN v.map
                 PROVE  k \in DOMAIN x.map /\ Compare(InMap, x.map[k], v.map[k])
        OBVIOUS
    <3>1. /\ v.map[k] \in Values /\ Depth[v.map[k]] < Depth[v]
          /\ y.map[k] \in Values /\ x.map[k] \in Values
          BY <1>2, <1>3, <2>2, <2>3, PartsAreValues
    <3> QED BY <1>4, <2>2, <2>3, <3>1
  <2> QED BY <1>2, <1>3, <1>5, <1>8, <2>4, CompareCases
<1>9. v.type \in ScalarTypes \/ v.type = "list" \/ v.type = "map"
      BY <1>2, <1>3, CompareCases
<1> QED BY <1>6, <1>7, <1>8, <1>9

\* no fact is a nil, or a list in a list; last is the step that leads to the value itself
ComparableAt(last, v) ==
  \A f \in Facts[v] :
    /\ f[2] # "nil"
    /\ f[2] = "list" => (IF f[1] = <<>> THEN last ELSE f[1][Len(f[1])]) # "[]"

LEMMA FactsOfParts ==
  ASSUME NEW v \in Values
  PROVE  /\ <<<<>>, v.type, v.scalar>> \in Facts[v]
         /\ \A w \in Elements(v) : Under("[]", Facts[w]) \subseteq Facts[v]
         /\ \A k \in DOMAIN v.map : Under(k, Facts[v.map[k]]) \subseteq Facts[v]
BY FactsDef DEF Stated

\* What is comparable has comparable parts.
LEMMA PartIsComparable ==
  ASSUME NEW v \in Values, NEW last, ComparableAt(last, v), NEW w \in Values, NEW step \in Steps,
         Under(step, Facts[w]) \subseteq Facts[v]
  PROVE  ComparableAt(step, w)
<1> SUFFICES ASSUME NEW f \in Facts[w]
             PROVE  /\ f[2] # "nil"
                    /\ f[2] = "list" => (IF f[1] = <<>> THEN step ELSE f[1][Len(f[1])]) # "[]"
    BY DEF ComparableAt
<1> DEFINE path == <<step>> \o f[1]
<1>1. f[1] \in Seq(Steps)
  <2>1. f \in AllFacts
        BY FactsDef
  <2> QED BY <2>1 DEF AllFacts
<1>2. <<path, f[2], f[3]>> \in Facts[v]
      BY DEF Under
<1>3. path # <<>> /\ path[Len(path)] = IF f[1] = <<>> THEN step ELSE f[1][Len(f[1])]
      BY <1>1
<1> HIDE DEF path
<1>4. f[2] # "nil" /\ (f[2] = "list" => path[Len(path)] # "[]")
      BY <1>2, <1>3 DEF ComparableAt
<1> QED BY <1>3, <1>4

\* What is comparable matches itself.
LEMMA MatchIsReflexive ==
  ASSUME NEW v \in Values, NEW last, ComparableAt(last, v)
  PROVE  Compare(InMap, v, v)
<1> DEFINE B == {x \in Values : (\E l : ComparableAt(l, x)) /\ ~Compare(InMap, x, x)}
<1> SUFFICES ASSUME B # {}
             PROVE  FALSE
    OBVIOUS
<1>1. PICK x \in B : \A w \in Values : Depth[w] < Depth[x] => w \notin B
  <2>1. Depth \in [Values -> Nat] /\ B \subseteq Values
        BY ValidateAssumption
  <2> HIDE DEF B
  <2> QED BY <2>1, LeastRank
<1>2. x \in Values /\ ~Compare(InMap, x, x)
      BY <1>1
<1>3. PICK l : ComparableAt(l, x)
      BY <1>1
<1>4. \A w \in Values : \A k : Depth[w] < Depth[x] /\ ComparableAt(k, w) => Compare(InMap, w, w)
      BY <1>1
<1> HIDE DEF B
<1>5. \A w \in Values : Stated(Facts, w) = Facts[w] /\ <<<<>>, w.type, w.scalar>> \in Facts[w]
      BY FactsDef, FactsOfParts
<1>6. x.type \in ScalarTypes \cup {"list", "map"}
  <2>1. x.type # "nil" /\ x.type \in Types
        BY <1>2, <1>3, <1>5, ValidateAssumption DEF ComparableAt
  <2> QED BY <2>1 DEF Types
<1>7. ASSUME NEW w \in Elements(x)
      PROVE  w.type # "list" /\ Compare(InMap, w, w)
  <2>1. w \in Values /\ Depth[w] < Depth[x]
        BY <1>2, PartsAreValues
  <2>2. "[]" \in Steps
        BY DEF Steps
  <2>3. ComparableAt("[]", w)
        BY <1>2, <1>3, <2>1, <2>2, FactsOfParts, PartIsComparable
  <2>4. w.type # "list"
        BY <1>5, <2>1, <2>3 DEF ComparableAt
  <2> QED BY <1>4, <2>1, <2>3, <2>4
<1>8. ASSUME NEW k \in DOMAIN x.map
      PROVE  Compare(InMap, x.map[k], x.map[k])
  <2>1. x.map[k] \in Values /\ Depth[x.map[k]] < Depth[x]
        BY <1>2, PartsAreValues
  <2>2. k \in Steps
        BY <1>2 DEF Steps
  <2>3. ComparableAt(k, x.map[k])
        BY <1>2, <1>3, <2>1, <2>2, FactsOfParts, PartIsComparable
  <2> QED BY <1>4, <2>1, <2>3
<1>9. Compare(InMap, x, x)
      BY <1>2, <1>6, <1>7, <1>8, CompareCases
<1> QED BY <1>2, <1>9

\* The inductive invariant of a comparison: what is found is what the search returns.
ValidateInv ==
  /\ dataSource \in Documents /\ searchTargets \in Documents
  /\ found \in {"none", "match", "error"}
  /\ found = "match" => InMap[<<dataSource, searchTargets>>]
  /\ found = "error" => ~InMap[<<dataSource, searchTargets>>]

LEMMA DocumentsCompared ==
  ASSUME NEW c \in Documents, NEW w \in Documents
  PROVE  c \in Values /\ w \in Values /\ (InMap[<<c, w>>] <=> Compare(InMap, c, w))
<1>1. c \in Values /\ w \in Values /\ c.type = "map" /\ w.type = "map"
      BY ValidateAssumption
<1> QED BY <1>1 DEF Compare, IsSameType, ScalarTypes

LEMMA ValidateInductive ==
  /\ ValidateInit => ValidateInv
  /\ ValidateInv /\ [VerifyTargetsExistInMap]_validateVars => ValidateInv'
BY DEF ValidateInit, ValidateInv, VerifyTargetsExistInMap, validateVars

\* Whatever the documents, a match is stated: what a test expects is at its place in the
\* source, and in lists in some element.
THEOREM MatchedIsStated == ValidateSpec => []MatchIsStated
<1>1. ValidateInv => MatchIsStated
      BY DocumentsCompared, MatchStates DEF ValidateInv, MatchIsStated
<1> QED BY <1>1, ValidateInductive, PTL DEF ValidateSpec

\* Whatever the documents, matching is reflexive on the comparable ones and transitive.
THEOREM MatchingIsPreorder == ValidateSpec => []MatchIsPreorder
<1>1. ASSUME ValidateInv
      PROVE  MatchIsPreorder
  <2>1. ASSUME NEW d \in Documents, Comparable(d)
        PROVE  InMap[<<d, d>>]
    <3>1. d \in Values
          BY DocumentsCompared
    <3>2. ComparableAt("", d)
          BY <2>1 DEF Comparable, ComparableAt
    <3> QED BY <3>1, <3>2, DocumentsCompared, MatchIsReflexive
  <2>2. ASSUME NEW a \in Documents, NEW b \in Documents, NEW c \in Documents, InMap[<<a, b>>], InMap[<<b, c>>]
        PROVE  InMap[<<a, c>>]
        BY <2>2, DocumentsCompared, MatchIsTransitive
  <2> QED BY <1>1, <2>1, <2>2 DEF ValidateInv, MatchIsPreorder
<1> QED BY <1>1, ValidateInductive, PTL DEF ValidateSpec

-----------------------------------------------------------------------------
(* the programs side by side *)

\* The inductive invariant of the programs that stay within limits.
ProgramsInv == LegalInv /\ KedaInv /\ PrepareTypeInv

\* Whichever of the programs runs, the others keep their invariants.
LEMMA ProgramsInductive == ProgramsInv /\ [MCNext]_programVars => ProgramsInv'
<1> SUFFICES ASSUME ProgramsInv, [MCNext]_programVars
             PROVE  ProgramsInv'
    OBVIOUS
<1>1. [LegalStep]_legalVars
      BY DEF MCNext, MCStep, Terminated, programVars
<1>2. [KedaStep]_kedaVars
      BY DEF MCNext, MCStep, Terminated, programVars
<1>3. [PrepareStep]_prepareVars
      BY DEF MCNext, MCStep, Terminated, programVars
<1> QED BY <1>1, <1>2, <1>3, LegalInductive, KedaInductive, PrepareTypeInductive DEF ProgramsInv

\* Every program stays within its types and its limits, whichever of them runs, for every
\* value of their constants.
THEOREM ProgramsTypeCorrect == MCSpec => []ProgramsTypeOK
<1>1. MCInit => ProgramsInv
      BY LegalInitial, KedaInitial, PrepareTypeInitial DEF MCInit, ProgramsInv
<1>2. ProgramsInv => ProgramsTypeOK
      BY DEF ProgramsInv, LegalInv, KedaInv, PrepareTypeInv, ProgramsTypeOK
<1> QED BY <1>1, <1>2, ProgramsInductive, PTL DEF MCSpec
=============================================================================
