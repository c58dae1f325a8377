---------------------------- MODULE LegalTagJob ----------------------------
(***************************************************************************)
(* source/legal-tags-update-trigger/cronjob.js: a token, with it the list  *)
(* of the partitions, and for each of them a request to the legal service, *)
(* all at once.  Failures go into an event and are swallowed; node 12 ends *)
(* with 0 whatever happened, so that the events are all there is to see.   *)
(***************************************************************************)
EXTENDS Naturals

CONSTANTS
  LegalPartitions,  \* the partitions of the platform
  Retries           \* retries of axiosRetry: 3

ASSUME LegalAssumption ==
  /\ LegalPartitions # {}
  /\ "token" \notin LegalPartitions /\ "list" \notin LegalPartitions
  /\ Retries \in Nat

Requests == {"token", "list"} \cup LegalPartitions

VARIABLES
  inFlight,       \* requests that are not answered yet
  calls,          \* calls made for a request, retries included
  event,          \* the event sent for it: "none", "pass", "fail"
  authorization,  \* the header: "none" yet, "good", "undefined"
  updated,        \* partitions whose tags the legal service has updated
  rejected        \* a promise is rejected that nobody handles

legalVars == <<inFlight, calls, event, authorization, updated, rejected>>

LegalInit ==
  /\ inFlight = {"token"}
  /\ calls = [r \in Requests |-> IF r = "token" THEN 1 ELSE 0]
  /\ event = [r \in Requests |-> "none"]
  /\ authorization = "none"
  /\ updated = {} /\ rejected = FALSE

\* what comes next is called as soon as the request is over
Over(r, outcome, next) ==
  /\ r \in inFlight
  /\ inFlight' = (inFlight \ {r}) \cup next
  /\ calls' = [x \in Requests |-> IF x \in next THEN 1 ELSE calls[x]]
  /\ event' = [event EXCEPT ![r] = outcome]

\* axios-retry: a network error, and for a GET a 5xx too, is no answer yet; the legal
\* service may have done its work
Retry(r) ==
  /\ r \in inFlight
  /\ calls[r] <= Retries
  /\ calls' = [calls EXCEPT ![r] = @ + 1]
  /\ updated' \in {updated, updated \cup ({r} \cap LegalPartitions)}
  /\ authorization # "good" => UNCHANGED updated
  /\ UNCHANGED <<inFlight, event, authorization, rejected>>

\* generateToken; an answer without access_token is one, too
TokenAnswered ==
  /\ authorization' \in {"good", "undefined"}
  /\ Over("token", "pass", {"list"})
  /\ UNCHANGED <<updated, rejected>>

\* the failure is swallowed, and the list is asked for with the header "undefined"
TokenFailed ==
  /\ authorization' = "undefined"
  /\ Over("token", "fail", {"list"})
  /\ UNCHANGED <<updated, rejected>>

\* getListOfPartitions; the services refuse a header without a token
ListAnswered ==
  /\ authorization = "good"
  /\ Over("list", "pass", LegalPartitions)
  /\ UNCHANGED <<authorization, updated, rejected>>

\* mutant: the rejection is handled by doing nothing
ListNoArrayHandled ==
  /\ authorization = "good"
  /\ Over("list", "pass", {})
  /\ UNCHANGED <<authorization, updated, rejected>>

\* a body that is no array has no forEach
ListNoArray ==
  /\ authorization = "good"
  /\ Over("list", "pass", {})
  /\ rejected' = TRUE
  /\ UNCHANGED <<authorization, updated>>

\* undefined has no forEach
ListFailed ==
  /\ Over("list", "fail", {})
  /\ rejected' = TRUE
  /\ UNCHANGED <<authorization, updated>>

\* sendLegalTagUpdateRequest, one for each partition
UpdateAnswered(p) ==
  /\ authorization = "good"
  /\ Over(p, "pass", {})
  /\ updated' = updated \cup {p}
  /\ UNCHANGED <<authorization, rejected>>

UpdateFailed(p) ==
  /\ Over(p, "fail", {})
  /\ updated' \in {updated, updated \cup {p}}
  /\ UNCHANGED <<authorization, rejected>>

LegalStep ==
  \/ \E r \in Requests : Retry(r)
  \/ TokenAnswered \/ TokenFailed
  \/ ListAnswered \/ ListNoArray \/ ListFailed
  \/ \E p \in LegalPartitions : UpdateAnswered(p) \/ UpdateFailed(p)

LegalEnded == inFlight = {}

LegalSpec == LegalInit /\ [][LegalStep]_legalVars

-----------------------------------------------------------------------------
(* properties *)

\* Every variable has its type; a request is called at most four times.
LegalTypeOK ==
  /\ inFlight \subseteq Requests
  /\ calls \in [Requests -> 0 .. Retries + 1]
  /\ event \in [Requests -> {"none", "pass", "fail"}]
  /\ authorization \in {"none", "good", "undefined"}
  /\ updated \subseteq LegalPartitions
  /\ rejected \in BOOLEAN

\* When the job has ended without a fail event and without an unhandled rejection,
\* the tags of every partition are updated: no failure is swallowed without a trace.
SilenceMeansUpdated ==
  LegalEnded /\ (\A r \in Requests : event[r] # "fail") /\ ~rejected => updated = LegalPartitions
=============================================================================
