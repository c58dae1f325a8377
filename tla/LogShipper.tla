----------------------------- MODULE LogShipper -----------------------------
(***************************************************************************)
(* The queue-triggered function of source/airflow-function: for every      *)
(* queue message it downloads an Airflow log blob, cuts it into records at  *)
(* the lines with a timestamp and posts each record to the workspace.      *)
(* The storage queue redelivers a message whose invocation fails.          *)
(***************************************************************************)
EXTENDS Naturals, Sequences, SequencesExt

CONSTANTS
  MaxLines,     \* bound on the lines of a blob
  MaxDequeue    \* deliveries before the queue moves a message to its poison queue

ASSUME BoundsAssumption == MaxLines \in Nat /\ MaxDequeue \in Nat \ {0}

(* A line as the parser tells it apart: "stamp" starts with a timestamp in      *)
(* brackets, "mention" has one further on, "plain" has none, "blank" is empty. *)
LineKinds == {"stamp", "mention", "plain", "blank"}

VARIABLES
  doc,          \* the lines of the blob
  analytics,    \* AzureLogAnalyticsEnabled: "true", "false" or "unset"
  message,      \* "queued", "processing", "processed" when the function has returned,
                \* "deleted" or "poison"
  dequeued,     \* times the message was delivered
  lineNumber,   \* lines read by this invocation
  record,       \* the numbers of the lines in logLineEntity; empty when it is null
  shipped,      \* the records that arrived, in order
  lost          \* records whose post failed

vars == <<doc, analytics, message, dequeued, lineNumber, record, shipped, lost>>

Init ==
  /\ doc \in SeqOf(LineKinds, MaxLines)
  /\ analytics \in {"true", "false", "unset"}
  /\ message = "queued"
  /\ dequeued = 0
  /\ lineNumber = 0
  /\ record = <<>>
  /\ shipped = <<>>
  /\ lost = {}

\* mutant: deliveries are not counted
DeliverUncounted ==
  /\ message = "queued"
  /\ message' = "processing"
  /\ lineNumber' = 0
  /\ record' = <<>>
  /\ UNCHANGED <<doc, analytics, dequeued, shipped, lost>>

Deliver ==
  /\ message = "queued"
  /\ message' = "processing"
  /\ dequeued' = dequeued + 1
  /\ lineNumber' = 0
  /\ record' = <<>>
  /\ UNCHANGED <<doc, analytics, shipped, lost>>

\* the host makes a message visible again when its invocation fails
Redeliver ==
  /\ message' = IF dequeued < MaxDequeue THEN "queued" ELSE "poison"
  /\ UNCHANGED <<doc, analytics, dequeued, lineNumber, record, shipped, lost>>

\* mutant: the latest record comes first
SendLogsUnordered ==
  IF record = <<>> THEN UNCHANGED <<shipped, lost>>
  ELSE \/ /\ shipped' = <<record>> \o shipped
          /\ UNCHANGED lost
       \/ /\ analytics = "true"
          /\ lost' = lost \cup {record}
          /\ UNCHANGED shipped

\* a record goes to the workspace, where PostData swallows every failure, or, with
\* analytics switched off, to the function's log
SendLogs ==
  IF record = <<>> THEN UNCHANGED <<shipped, lost>>
  ELSE \/ /\ shipped' = Append(shipped, record)
          /\ UNCHANGED lost
       \/ /\ analytics = "true"
          /\ lost' = lost \cup {record}
          /\ UNCHANGED shipped

\* a missing setting is dereferenced when the first record is to be sent
SettingMissing == analytics = "unset" /\ record # <<>>

AtEnd(n)      == n \in DOMAIN doc => doc[n] = "blank"
HasStamp(n)   == doc[n] \in {"stamp", "mention"}
NextLine      == lineNumber + 1

\* mutant: the last record is not sent
EndWithoutFlush ==
  /\ message = "processing"
  /\ AtEnd(NextLine)
  /\ ~SettingMissing
  /\ lineNumber' = NextLine
  /\ message' = "processed"
  /\ UNCHANGED <<doc, analytics, dequeued, record, shipped, lost>>

\* no line, or an empty one, ends the document: the last record is sent and the
\* function returns
EndOfDocument ==
  /\ message = "processing"
  /\ AtEnd(NextLine)
  /\ ~SettingMissing
  /\ SendLogs
  /\ lineNumber' = NextLine
  /\ message' = "processed"
  /\ UNCHANGED <<doc, analytics, dequeued, record>>

\* only after the function has returned does the host delete the message
DeleteMessage ==
  /\ message = "processed"
  /\ message' = "deleted"
  /\ UNCHANGED <<doc, analytics, dequeued, lineNumber, record, shipped, lost>>

\* a line with a timestamp sends the record under construction and starts one
StartRecord ==
  /\ message = "processing"
  /\ ~AtEnd(NextLine)
  /\ HasStamp(NextLine)
  /\ ~SettingMissing
  /\ SendLogs
  /\ record' = <<NextLine>>
  /\ lineNumber' = NextLine
  /\ UNCHANGED <<doc, analytics, message, dequeued>>

\* mutant: a continuation line replaces the content
ReplaceContent ==
  /\ message = "processing"
  /\ ~AtEnd(NextLine)
  /\ ~HasStamp(NextLine)
  /\ record # <<>>
  /\ record' = <<Head(record), NextLine>>
  /\ lineNumber' = NextLine
  /\ UNCHANGED <<doc, analytics, message, dequeued, shipped, lost>>

ContinueRecord ==
  /\ message = "processing"
  /\ ~AtEnd(NextLine)
  /\ ~HasStamp(NextLine)
  /\ record # <<>>
  /\ record' = Append(record, NextLine)
  /\ lineNumber' = NextLine
  /\ UNCHANGED <<doc, analytics, message, dequeued, shipped, lost>>

\* the first line has no timestamp: logLineEntity is null
NoRecordToContinue ==
  /\ message = "processing"
  /\ ~AtEnd(NextLine)
  /\ ~HasStamp(NextLine)
  /\ record = <<>>
  /\ Redeliver

SettingMissingRaises ==
  /\ message = "processing"
  /\ ~AtEnd(NextLine) => HasStamp(NextLine)
  /\ SettingMissing
  /\ Redeliver

\* the download fails, or the host is stopped or times out at any point, also when
\* every record is posted and the message is not yet deleted
InvocationDies ==
  /\ message \in {"processing", "processed"}
  /\ Redeliver

Terminated == message \in {"deleted", "poison"} /\ UNCHANGED vars

Next ==
  \/ Deliver
  \/ EndOfDocument
  \/ DeleteMessage
  \/ StartRecord
  \/ ContinueRecord
  \/ NoRecordToContinue
  \/ SettingMissingRaises
  \/ InvocationDies
  \/ Terminated

\* the function host keeps polling the queue and running the invocation
Spec == Init /\ [][Next]_vars /\ WF_vars(Next)

-----------------------------------------------------------------------------
(* what the records of a document are: a line that starts with a timestamp and   *)
(* every line up to the next such line                                            *)

Starts == {n \in DOMAIN doc : doc[n] = "stamp"}
RecordAt(n) ==
  LET last == CHOOSE m \in n .. Len(doc) :
                /\ \A k \in n + 1 .. m : k \notin Starts
                /\ m = Len(doc) \/ m + 1 \in Starts
  IN  [k \in 1 .. last - n + 1 |-> n + k - 1]
RecordsOf == {RecordAt(n) : n \in Starts}

\* a log as Airflow's formatter writes it when no message spans several paragraphs
Regular ==
  /\ doc # <<>> => doc[1] = "stamp"
  /\ \A n \in DOMAIN doc : doc[n] \in {"stamp", "plain"}

\* Every variable has its type.
TypeOK ==
  /\ doc \in SeqOf(LineKinds, MaxLines)
  /\ analytics \in {"true", "false", "unset"}
  /\ message \in {"queued", "processing", "processed", "deleted", "poison"}
  /\ dequeued \in 0 .. MaxDequeue
  /\ lineNumber \in 0 .. MaxLines + 1
  /\ record \in Seq(1 .. MaxLines)
  /\ shipped \in Seq(Seq(1 .. MaxLines))
  /\ \A r \in lost : r \in Seq(1 .. MaxLines)

\* Every record that arrives is a run of consecutive lines: no line is torn out of
\* its record, also when the parser stops early or an invocation is repeated.
RecordsAreConsecutive ==
  \A j \in DOMAIN shipped :
    \A k \in DOMAIN shipped[j] : shipped[j][k] = Head(shipped[j]) + k - 1

\* Once the message of a regular log is done, each of its records has arrived or
\* its post has failed; redeliveries add copies and lose nothing.
RegularLogIsComplete ==
  message = "deleted" /\ Regular =>
    RecordsOf = {shipped[j] : j \in DOMAIN shipped} \cup lost

\* Records come in the order of the lines, and each at most once per delivery: a
\* record that does not come after its predecessor begins a new delivery, as when the
\* host dies between the last post and the deletion of the message.
CopiesOnlyByRedelivery ==
  LET setBacks == {j \in 2 .. Len(shipped) : Head(shipped[j]) <= Head(shipped[j - 1])}
  IN  Cardinality(setBacks) < dequeued \/ shipped = <<>>

\* Every message leaves the queue.
MessageIsSettled == <>(message \in {"deleted", "poison"})

\* The comment on the empty-line test: "in case reached the end of document"; a
\* message that is done leaves no line with content unread.
WholeDocumentIsRead ==
  message = "deleted" => \A n \in DOMAIN doc : doc[n] # "blank" => n <= lineNumber

=============================================================================
