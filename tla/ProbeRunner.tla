---------------------------- MODULE ProbeRunner ----------------------------
(***************************************************************************)
(* A run of the probe client: mocha takes the scenario files one after the *)
(* other, each with its token, its tests in order and its event at the     *)
(* end, against a platform of which what is stored is kept.  A call may be *)
(* refused, lose its answer, be given up by mocha's timeout and answered   *)
(* later; a workflow may store its records later than the fixed wait.      *)
(***************************************************************************)
EXTENDS ProbeScenarios, FiniteSets

CONSTANTS
  MaxFaults,  \* bound: how often in a run the platform does not do as it should
  Leftovers   \* bound: what earlier runs may have left on the platform

ASSUME MaxFaultsAssumption == MaxFaults \in Nat

\* what has another name in every run is no leftover
ASSUME LeftoversAssumption == Leftovers \subseteq SUBSET FixedNames

VARIABLES
  off,         \* the flags of config.js that are off
  left,        \* what earlier runs have left on the platform
  stored,      \* what is on the platform
  pending,     \* records of workflows that are not done yet
  arrived,     \* history: of what is stored, what came there by itself, late
  late,        \* <<file, step>> of the calls mocha has given up
  faults,
  phase,       \* "token", "idle", "waiting" for an answer, "ended"
  file, step,  \* the test that runs, or is next
  token,       \* "none", "good", "undefined"
  ids, data,   \* the variables of the file; data with the step whose answer it is
  verdict,     \* of the file's last test
  failedTests, \* of the file, as its afterEach counts them
  silent,      \* an enabled file has not reported success
  exitFailed,  \* mocha has seen a failure
  mine,        \* what the calls of this file have created and not deleted
  undeleted    \* what tests of this file have failed to delete

platform == <<stored, pending, arrived>>
fileVars == <<ids, data, verdict, failedTests, mine, undeleted>>
vars == <<off, left, platform, late, faults, phase, file, step, token, fileVars, silent, exitFailed>>

NoData == [body |-> None, from |-> 0]

\* evaluated once
TestsOf == [o \in {Configured, {}} |-> Files(o)]

Tests   == TestsOf[off][file]
Current == Tests[step]
Enabled == {f \in 1 .. Len(TestsOf[off]) : TestsOf[off][f] # <<>>}
Done(f) == f > Len(TestsOf[off])

Local == {"check", "same"}
Deletions == {"delete", "remove"}
\* what the cleanup of the file deletes
Cleaned == UNION {Tests[i].res : i \in {j \in 1 .. Len(Tests) : Tests[j].do \in Deletions}}

Init ==
  /\ off \in {Configured, {}}
  /\ left \in Leftovers
  /\ stored = left
  /\ pending = {} /\ arrived = {} /\ late = {} /\ faults = 0
  /\ phase = "token" /\ file = 1 /\ step = 1 /\ token = "none"
  /\ ids = {} /\ data = NoData /\ verdict = None /\ failedTests = 0
  /\ mine = {} /\ undeleted = {}
  /\ silent = FALSE /\ exitFailed = FALSE

-----------------------------------------------------------------------------
(* the services *)

Accepts(t) ==
  /\ token = "good"
  /\ t.uses \in ids \cup {None}
  /\ t.needs \subseteq stored
  /\ t.do \in {"get", "delete"} => t.res \subseteq stored
  /\ t.do \in {"absent", "new"} => t.res \cap stored = {}
  /\ t.do = "search" => t.res \cap stored # {}

\* a workflow stores the records whose legal tag it finds
Storable(rs) == {r \in rs : TagOf(r) \in stored}

Created(t) ==
  IF t.do \in {"make", "new"} THEN t.res ELSE IF t.do = "run" THEN Storable(t.res) ELSE {}
Deleted(t) == IF t.do \in Deletions THEN t.res ELSE {}

Carry(t) ==
  /\ stored' = (stored \cup Created(t)) \ Deleted(t)
  /\ arrived' = arrived \ (Created(t) \cup Deleted(t))
  /\ mine' = (mine \cup Created(t)) \ Deleted(t)

Fault == faults < MaxFaults /\ faults' = faults + 1

-----------------------------------------------------------------------------
(* a file *)

NextFile ==
  /\ file' = file + 1 /\ step' = 1 /\ token' = "none"
  /\ phase' = IF Done(file + 1) THEN "ended" ELSE "token"
  /\ ids' = {} /\ data' = NoData /\ verdict' = None /\ failedTests' = 0
  /\ mine' = {} /\ undeleted' = {}

\* mocha runs no hook of a suite without tests
SkipFile ==
  /\ phase = "token" /\ Tests = <<>>
  /\ NextFile
  /\ UNCHANGED <<off, left, platform, late, faults, silent, exitFailed>>

FetchToken(got) ==
  /\ phase = "token" /\ Tests # <<>>
  /\ phase' = "idle" /\ token' = got
  /\ UNCHANGED <<off, left, platform, late, file, step, fileVars, silent, exitFailed>>

TokenFetched == FetchToken("good") /\ UNCHANGED faults

\* an answer without access_token is an answer: the header is 'Bearer undefined'
TokenRefused == FetchToken("undefined") /\ Fault

\* the before hook fails, and with it the file: no test runs and no event is sent
TokenFails ==
  /\ phase = "token" /\ Tests # <<>>
  /\ Fault
  /\ exitFailed' = TRUE /\ silent' = TRUE
  /\ NextFile
  /\ UNCHANGED <<off, left, platform, late>>

\* mutant: the afterEach hook is registered twice
VerdictTwice(ok) ==
  /\ verdict' = IF ok THEN "passed" ELSE "failed"
  /\ failedTests' = failedTests + IF ok THEN 0 ELSE 2
  /\ exitFailed' = (exitFailed \/ ~ok)
  /\ undeleted' = undeleted \cup IF ok THEN {} ELSE Deleted(Current)
  /\ step' = step + 1
  /\ phase' = "idle"

\* what mocha and the afterEach hook do with a test that is over
Verdict(ok) ==
  /\ verdict' = IF ok THEN "passed" ELSE "failed"
  /\ failedTests' = failedTests + IF ok THEN 0 ELSE 1
  /\ exitFailed' = (exitFailed \/ ~ok)
  /\ undeleted' = undeleted \cup IF ok THEN {} ELSE Deleted(Current)
  /\ step' = step + 1
  /\ phase' = "idle"

\* isEqual of two ids that are both unknown is true
Holds(t) ==
  IF t.do = "same" THEN ("recordId" \in ids) = ("foundId" \in ids) ELSE data.body = t.body

RunCheck ==
  /\ phase = "idle" /\ step <= Len(Tests) /\ Current.do \in Local
  /\ Verdict(Holds(Current))
  /\ UNCHANGED <<off, left, platform, late, faults, file, token, ids, data, mine, silent>>

\* a name or an api that is not there, and new URL('')
Throws(t) == t.do = "throws" \/ (t.do = "url" /\ t.uses \notin ids)

\* mocha takes the exception for the end of the test; there is no call
TestThrows ==
  /\ phase = "idle" /\ step <= Len(Tests) /\ Throws(Current)
  /\ Verdict(FALSE)
  /\ UNCHANGED <<off, left, platform, late, faults, file, token, ids, data, mine, silent>>

Call ==
  /\ phase = "idle" /\ step <= Len(Tests) /\ Current.do \notin Local
  /\ ~Throws(Current)
  /\ phase' = "waiting"
  /\ UNCHANGED <<off, left, platform, late, faults, file, step, token, fileVars, silent, exitFailed>>

Remember(t, at) ==
  /\ ids' = ids \cup ({t.gives} \ {None})
  /\ data' = IF t.body = None THEN data ELSE [body |-> t.body, from |-> at]

Answer ==
  /\ phase = "waiting" /\ Verdict(Accepts(Current))
  /\ IF Accepts(Current) THEN Carry(Current) /\ Remember(Current, step)
                         ELSE UNCHANGED <<stored, arrived, mine, ids, data>>
  /\ UNCHANGED <<off, left, pending, late, faults, file, token, silent>>

\* an answer of the expected status, but with another body
OtherBody ==
  /\ phase = "waiting" /\ Current.body # None /\ Accepts(Current)
  /\ Fault /\ Verdict(TRUE)
  /\ Carry(Current) /\ data' = [body |-> "other", from |-> step]
  /\ UNCHANGED <<off, left, pending, late, file, token, ids, silent>>

\* mutant: a cleanup test does not say what it expects
RefusedCleanupPasses ==
  /\ phase = "waiting"
  /\ Fault /\ Verdict(Current.do \in Deletions)
  /\ UNCHANGED <<off, left, platform, late, file, token, ids, data, mine, silent>>

Refused ==
  /\ phase = "waiting"
  /\ Fault /\ Verdict(FALSE)
  /\ UNCHANGED <<off, left, platform, late, file, token, ids, data, mine, silent>>

\* done by the service, but with no answer or one that is no success
AnswerLost ==
  /\ phase = "waiting" /\ Accepts(Current)
  /\ Fault /\ Verdict(FALSE)
  /\ Carry(Current)
  /\ UNCHANGED <<off, left, pending, late, file, token, ids, data, silent>>

\* mocha fails the test after 550 seconds and goes on, and so may the service
TimedOut ==
  /\ phase = "waiting"
  /\ Fault /\ Verdict(FALSE)
  /\ late' = late \cup IF Accepts(Current) THEN {<<file, step>>} ELSE {}
  /\ UNCHANGED <<off, left, platform, file, token, ids, data, mine, silent>>

\* the workflow has not stored its records when the fixed wait is over
SlowWorkflow ==
  /\ phase = "waiting" /\ Current.do = "run" /\ Accepts(Current)
  /\ Fault /\ Verdict(TRUE)
  /\ pending' = pending \cup Current.res
  /\ Remember(Current, step)
  /\ UNCHANGED <<off, left, stored, arrived, late, file, token, mine, silent>>

\* mutant: one failed test is no failed scenario
FinishFileTolerant ==
  /\ phase = "idle" /\ step > Len(Tests)
  /\ silent' = (silent \/ failedTests > 1)
  /\ NextFile
  /\ UNCHANGED <<off, left, platform, late, faults, exitFailed>>

\* mutant: a file with failed tests is run again
FinishFileRetrying ==
  /\ phase = "idle" /\ step > Len(Tests)
  /\ silent' = (silent \/ failedTests # 0)
  /\ IF failedTests = 0 THEN NextFile
     ELSE /\ phase' = "idle" /\ step' = 1 /\ failedTests' = 0
          /\ UNCHANGED <<file, token, ids, data, verdict, mine, undeleted>>
  /\ UNCHANGED <<off, left, platform, late, faults, exitFailed>>

\* the after hook sends the event of the scenario
FinishFile ==
  /\ phase = "idle" /\ step > Len(Tests)
  /\ silent' = (silent \/ failedTests # 0)
  /\ NextFile
  /\ UNCHANGED <<off, left, platform, late, faults, exitFailed>>

-----------------------------------------------------------------------------
(* what arrives by itself *)

\* its handler runs, and sets variables of its own file only
LateAnswer ==
  /\ \E call \in late :
       LET t == TestsOf[off][call[1]][call[2]] IN
       /\ late' = late \ {call}
       /\ stored' = (stored \cup Created(t)) \ Deleted(t)
       /\ arrived' = (arrived \cup Created(t)) \ Deleted(t)
       /\ IF call[1] = file THEN Remember(t, call[2]) ELSE UNCHANGED <<ids, data>>
  /\ UNCHANGED <<off, left, pending, faults, phase, file, step, token, verdict, failedTests,
                 silent, exitFailed, mine, undeleted>>

\* a record whose legal tag is gone is refused
WorkflowEnds ==
  /\ \E r \in pending :
       /\ pending' = pending \ {r}
       /\ stored' = stored \cup Storable({r})
       /\ arrived' = arrived \cup Storable({r})
  /\ UNCHANGED <<off, left, late, faults, phase, file, step, token, fileVars, silent, exitFailed>>

Ended == phase = "ended" /\ late = {} /\ pending = {} /\ UNCHANGED vars

Mocha ==
  \/ SkipFile \/ TokenFetched \/ TokenRefused \/ TokenFails
  \/ RunCheck \/ TestThrows \/ Call
  \/ Answer \/ OtherBody \/ Refused \/ AnswerLost \/ TimedOut \/ SlowWorkflow
  \/ FinishFile

Next == Mocha \/ LateAnswer \/ WorkflowEnds \/ Ended

Spec == Init /\ [][Next]_vars /\ WF_vars(Mocha)

-----------------------------------------------------------------------------
(* Types: the counters stay within the files and their tests.              *)
TypeOK ==
  /\ file \in 1 .. Len(TestsOf[off]) + 1
  /\ (phase = "ended") = Done(file)
  /\ phase # "ended" => step \in 1 .. Len(Tests) + 1 /\ failedTests < step
  /\ faults \in 0 .. MaxFaults
  /\ token \in {"none", "good", "undefined"}
  /\ \A call \in late : call[1] <= file
  /\ pending \subseteq Records

(* GreenIsReported: when mocha exits without failure, every enabled        *)
(* scenario has sent an event with success; the dashboards, fed by the     *)
(* events, and the exit code, read by the pipeline, never disagree.        *)
GreenIsReported == phase = "ended" => (exitFailed = silent)

(* HealthyRunIsGreen: with the flags of config.js and a platform that does *)
(* as it should, every test passes, whatever resources of fixed name       *)
(* earlier runs have left behind; all but those a test does not accept as  *)
(* existing.                                                               *)
HealthyRunIsGreen == faults = 0 /\ off = Configured /\ left \cap Unforgiven = {} => ~exitFailed

(* OnlyLateThingsStay: when a file reports success, nothing its cleanup    *)
(* deletes is on the platform, whoever has stored it there, but for what   *)
(* came by itself since: a call mocha had given up, or the record of a     *)
(* workflow that took longer than the fixed wait, stored after its         *)
(* deletion.  That much a success does not tell.                           *)
OnlyLateThingsStay ==
  phase = "idle" /\ step > Len(Tests) /\ failedTests = 0 => stored \cap Cleaned \subseteq arrived

(* CleanupOrder: the probe deletes a legal tag only after the records that *)
(* carry it, but for those it has failed to delete and those it never does. *)
CleanupOrder ==
  [][\A t \in {"checkTag", "probeTag"} :
       t \in mine \ mine' /\ file' = file =>
         \A r \in mine \cap Records \cap Cleaned : TagOf(r) = t => r \in undeleted]_vars

(* RunEnds: the run ends, however many calls go unanswered.                *)
RunEnds == <>(phase = "ended")

(* ValidationUsesOwnAnswer: what a validation finds valid is the answer to *)
(* the call whose test it follows, and no two unknown ids.                 *)
ValidationUsesOwnAnswer ==
  [][phase = "idle" /\ step' = step + 1 /\ verdict' = "passed" =>
       /\ Current.do = "check" => data.from = step - 1
       /\ Current.do = "same" => {"recordId", "foundId"} \subseteq ids]_vars
=============================================================================
