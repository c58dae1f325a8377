-------------------------- MODULE LogShipperProofs --------------------------
(***************************************************************************)
(* Proofs about LogShipper, for documents and numbers of deliveries of any *)
(* size: records stay whole, the message of a regular log is not deleted   *)
(* before each of its records has been posted, and no message goes round   *)
(* for ever.                                                               *)
(***************************************************************************)
EXTENDS LogShipper, SequenceTheorems, FiniteSetTheorems, TLAPS

\* lines a to b
Lines(a, b) == [k \in 1 .. b - a + 1 |-> a + k - 1]

\* the record under construction goes up to the last line read
RecordFrom(a) == a \in 1 .. lineNumber /\ record = Lines(a, lineNumber)

LinesOK ==
  /\ doc \in Seq(LineKinds)
  /\ lineNumber \in Nat
  /\ message = "processing" => lineNumber <= Len(doc)
  /\ message = "processing" => record = <<>> \/ \E a \in 1 .. lineNumber : RecordFrom(a)
  /\ shipped \in Seq(Seq(Nat))
  /\ \A j \in 1 .. Len(shipped) : \E a, b \in Nat : a <= b /\ shipped[j] = Lines(a, b)

LEMMA LinesAreLines ==
  ASSUME NEW a \in Nat, NEW b \in Nat, a <= b
  PROVE  /\ Lines(a, b) \in Seq(Nat) /\ Len(Lines(a, b)) = b - a + 1
         /\ Lines(a, b) # <<>> /\ Head(Lines(a, b)) = a
         /\ DOMAIN Lines(a, b) = 1 .. b - a + 1
         /\ \A k \in 1 .. b - a + 1 : Lines(a, b)[k] = a + k - 1
<1>1. b - a + 1 \in Nat /\ 1 \in 1 .. b - a + 1
      OBVIOUS
<1>2. Lines(a, b) \in [1 .. b - a + 1 -> Nat] /\ DOMAIN Lines(a, b) = 1 .. b - a + 1
      BY DEF Lines
<1>3. Lines(a, b) \in Seq(Nat) /\ Len(Lines(a, b)) = b - a + 1
      BY <1>1, <1>2
<1>4. \A k \in 1 .. b - a + 1 : Lines(a, b)[k] = a + k - 1
      BY DEF Lines
<1>5. Lines(a, b) # <<>> /\ Head(Lines(a, b)) = a
      BY <1>1, <1>3, <1>4
<1> QED BY <1>2, <1>3, <1>4, <1>5

LEMMA AppendLine ==
  ASSUME NEW a \in Nat, NEW b \in Nat, a <= b
  PROVE  Append(Lines(a, b), b + 1) = Lines(a, b + 1)
<1> DEFINE r == Lines(a, b)
           s == Append(r, b + 1)
           t == Lines(a, b + 1)
           n == b - a + 1
<1>0. n \in Nat /\ n + 1 = (b + 1) - a + 1 /\ b + 1 \in Nat /\ a <= b + 1 /\ a + (n + 1) - 1 = b + 1
      OBVIOUS
<1>1. r \in Seq(Nat) /\ Len(r) = n /\ \A k \in 1 .. n : r[k] = a + k - 1
      BY LinesAreLines
<1>2. t \in Seq(Nat) /\ Len(t) = (b + 1) - a + 1 /\ \A k \in 1 .. (b + 1) - a + 1 : t[k] = a + k - 1
      BY <1>0, LinesAreLines
<1> HIDE DEF r, t, n
<1>3. s \in Seq(Nat) /\ Len(s) = n + 1 /\ s[n + 1] = b + 1 /\ \A k \in 1 .. n : s[k] = r[k]
      BY <1>0, <1>1
<1> HIDE DEF s
<1>4. ASSUME NEW k \in 1 .. n + 1
      PROVE  s[k] = t[k]
  <2>1. t[k] = a + k - 1
        BY <1>0, <1>2
  <2>2. k \in 1 .. n \/ k = n + 1
        BY <1>0
  <2>3. CASE k \in 1 .. n
        BY <1>1, <1>3, <2>1, <2>3
  <2>4. CASE k = n + 1
        BY <1>0, <1>3, <2>1, <2>4
  <2> QED BY <2>2, <2>3, <2>4
<1>5. Len(s) = Len(t) /\ \A k \in 1 .. Len(s) : s[k] = t[k]
      BY <1>0, <1>2, <1>3, <1>4
<1>6. s = t
      BY <1>2, <1>3, <1>5, SeqEqual
<1> QED BY <1>6 DEF r, s, t

LEMMA OneLine ==
  ASSUME NEW n \in Nat
  PROVE  <<n>> = Lines(n, n)
<1> DEFINE t == Lines(n, n)
<1>1. n <= n /\ n - n + 1 = 1 /\ n + 1 - 1 = n
      OBVIOUS
<1>2. t \in Seq(Nat) /\ Len(t) = n - n + 1 /\ \A k \in 1 .. n - n + 1 : t[k] = n + k - 1
      BY <1>1, LinesAreLines
<1> HIDE DEF t
<1>3. t[1] = n
      BY <1>1, <1>2
<1>4. <<n>> \in Seq(Nat) /\ Len(<<n>>) = 1 /\ <<n>>[1] = n
      OBVIOUS
<1>5. \A k \in 1 .. Len(t) : t[k] = <<n>>[k]
      BY <1>1, <1>2, <1>3, <1>4
<1>6. t = <<n>>
      BY <1>1, <1>2, <1>4, <1>5, SeqEqual
<1> QED BY <1>6 DEF t

LEMMA LinesInitial == Init => LinesOK
<1> SUFFICES ASSUME Init
             PROVE  LinesOK
    OBVIOUS
<1>1. doc \in Seq(LineKinds)
  <2>1. PICK m \in 0 .. MaxLines : doc \in [1 .. m -> LineKinds]
        BY DEF Init, SeqOf
  <2>2. m \in Nat
        BY <2>1
  <2> QED BY <2>1, <2>2
<1>2. shipped \in Seq(Seq(Nat)) /\ Len(shipped) = 0
      BY DEF Init
<1> QED BY <1>1, <1>2 DEF Init, LinesOK

\* what sending leaves in the workspace
LEMMA SendLogsShips ==
  ASSUME LinesOK, message = "processing", SendLogs
  PROVE  /\ shipped' \in Seq(Seq(Nat))
         /\ \A j \in 1 .. Len(shipped') : \E a, b \in Nat : a <= b /\ shipped'[j] = Lines(a, b)
<1>1. CASE shipped' = shipped
      BY <1>1 DEF LinesOK
<1>2. CASE record # <<>> /\ shipped' = Append(shipped, record)
  <2>1. PICK a \in 1 .. lineNumber : record = Lines(a, lineNumber)
        BY <1>2 DEF LinesOK, RecordFrom
  <2>2. a \in Nat /\ lineNumber \in Nat /\ a <= lineNumber
        BY <2>1 DEF LinesOK
  <2>3. record \in Seq(Nat)
        BY <2>1, <2>2, LinesAreLines
  <2>4. /\ shipped' \in Seq(Seq(Nat)) /\ Len(shipped') = Len(shipped) + 1
        /\ \A j \in 1 .. Len(shipped) : shipped'[j] = shipped[j]
        /\ shipped'[Len(shipped) + 1] = record
        BY <1>2, <2>3 DEF LinesOK
  <2>5. \A j \in 1 .. Len(shipped) + 1 : j \in 1 .. Len(shipped) \/ j = Len(shipped) + 1
        BY DEF LinesOK
  <2>6. \A j \in 1 .. Len(shipped) : \E x, y \in Nat : x <= y /\ shipped[j] = Lines(x, y)
        BY DEF LinesOK
  <2> QED BY <2>1, <2>2, <2>4, <2>5, <2>6
<1> QED BY <1>1, <1>2 DEF SendLogs

LEMMA LinesInductive == LinesOK /\ [Next]_vars => LinesOK'
<1> SUFFICES ASSUME LinesOK, [Next]_vars
             PROVE  LinesOK'
    OBVIOUS
<1>1. CASE Deliver
      BY <1>1 DEF Deliver, LinesOK
<1>2. CASE EndOfDocument
  <2>1. /\ message = "processing" /\ message' = "processed" /\ doc' = doc
        /\ lineNumber' = lineNumber + 1 /\ SendLogs
        BY <1>2 DEF EndOfDocument, NextLine
  <2>2. lineNumber' \in Nat /\ doc' \in Seq(LineKinds) /\ message' # "processing"
        BY <2>1 DEF LinesOK
  <2>3. /\ shipped' \in Seq(Seq(Nat))
        /\ \A j \in 1 .. Len(shipped') : \E a, b \in Nat : a <= b /\ shipped'[j] = Lines(a, b)
        BY <2>1, SendLogsShips
  <2> QED BY <2>2, <2>3 DEF LinesOK
<1>3. CASE StartRecord
  <2>1. /\ message = "processing" /\ message' = message /\ doc' = doc
        /\ lineNumber' = lineNumber + 1 /\ record' = <<lineNumber + 1>> /\ SendLogs
        /\ lineNumber + 1 \in DOMAIN doc
        BY <1>3 DEF StartRecord, NextLine, AtEnd
  <2>2. lineNumber' \in Nat /\ lineNumber' <= Len(doc) /\ lineNumber' \in 1 .. lineNumber'
        BY <2>1 DEF LinesOK
  <2>3. record' = Lines(lineNumber', lineNumber')
        BY <2>1, <2>2, OneLine
  <2>4. /\ shipped' \in Seq(Seq(Nat))
        /\ \A j \in 1 .. Len(shipped') : \E a, b \in Nat : a <= b /\ shipped'[j] = Lines(a, b)
        BY <2>1, SendLogsShips
  <2> QED BY <2>1, <2>2, <2>3, <2>4 DEF LinesOK, RecordFrom
<1>4. CASE ContinueRecord
  <2>1. /\ message = "processing" /\ message' = message /\ doc' = doc /\ shipped' = shipped
        /\ lineNumber' = lineNumber + 1 /\ record' = Append(record, lineNumber + 1)
        /\ record # <<>> /\ lineNumber + 1 \in DOMAIN doc
        BY <1>4 DEF ContinueRecord, NextLine, AtEnd
  <2>2. lineNumber \in Nat /\ lineNumber' \in Nat /\ lineNumber' <= Len(doc)
        BY <2>1 DEF LinesOK
  <2>3. PICK a \in 1 .. lineNumber : record = Lines(a, lineNumber)
        BY <2>1 DEF LinesOK, RecordFrom
  <2>4. record' = Lines(a, lineNumber')
    <3>1. a \in Nat /\ a <= lineNumber
          BY <2>2
    <3>2. Append(Lines(a, lineNumber), lineNumber + 1) = Lines(a, lineNumber + 1)
          BY <2>2, <3>1, AppendLine
    <3> QED BY <2>1, <2>3, <3>2
  <2>5. a \in 1 .. lineNumber'
        BY <2>1, <2>2, <2>3
  <2> QED BY <2>1, <2>2, <2>4, <2>5 DEF LinesOK, RecordFrom
<1>5. CASE DeleteMessage \/ NoRecordToContinue \/ SettingMissingRaises \/ InvocationDies
  <2>1. message' \in {"deleted", "queued", "poison"} /\ UNCHANGED <<doc, lineNumber, record, shipped>>
        BY <1>5 DEF DeleteMessage, NoRecordToContinue, SettingMissingRaises, InvocationDies, Redeliver
  <2> QED BY <2>1 DEF LinesOK
<1>6. CASE UNCHANGED vars
      BY <1>6 DEF vars, LinesOK, RecordFrom
<1> QED BY <1>1, <1>2, <1>3, <1>4, <1>5, <1>6 DEF Next, Terminated

\* Every record in the workspace is a run of consecutive lines, for logs of any length.
THEOREM RecordsConsecutive == Spec => []RecordsAreConsecutive
<1>1. ASSUME LinesOK, NEW j \in DOMAIN shipped, NEW k \in DOMAIN shipped[j]
      PROVE  shipped[j][k] = Head(shipped[j]) + k - 1
  <2>1. j \in 1 .. Len(shipped)
        BY <1>1 DEF LinesOK
  <2>2. PICK a, b \in Nat : a <= b /\ shipped[j] = Lines(a, b)
        BY <1>1, <2>1 DEF LinesOK
  <2>3. /\ Head(Lines(a, b)) = a
        /\ DOMAIN Lines(a, b) = 1 .. b - a + 1
        /\ \A i \in 1 .. b - a + 1 : Lines(a, b)[i] = a + i - 1
        BY <2>2, LinesAreLines
  <2>4. k \in 1 .. b - a + 1
        BY <1>1, <2>2, <2>3
  <2> QED BY <2>2, <2>3, <2>4
<1>2. LinesOK => RecordsAreConsecutive
      BY <1>1 DEF RecordsAreConsecutive
<1> QED BY <1>2, LinesInitial, LinesInductive, PTL DEF Spec

-----------------------------------------------------------------------------
(* regular logs are complete *)

\* the records of the document d
StartsIn(d) == {n \in DOMAIN d : d[n] = "stamp"}
LastIn(d, n) == CHOOSE m \in n .. Len(d) :
                  /\ \A k \in n + 1 .. m : k \notin StartsIn(d)
                  /\ m = Len(d) \/ m + 1 \in StartsIn(d)
RecordIn(d, n) == Lines(n, LastIn(d, n))
RecordsIn(d) == {RecordIn(d, n) : n \in StartsIn(d)}
RegularIn(d) ==
  /\ d # <<>> => d[1] = "stamp"
  /\ \A n \in DOMAIN d : d[n] \in {"stamp", "plain"}

\* the records that arrived, and those whose post failed
Sent == {shipped[j] : j \in DOMAIN shipped} \cup lost

\* the record under construction begins at a, and the records before it are sent
Reached(a) ==
  /\ a \in StartsIn(doc) /\ a <= lineNumber /\ record = Lines(a, lineNumber)
  /\ \A k \in a + 1 .. lineNumber : k \notin StartsIn(doc)
  /\ \A n \in StartsIn(doc) : n < a => RecordIn(doc, n) \in Sent

RegularOK ==
  /\ Sent \subseteq RecordsIn(doc)
  /\ message = "processing" /\ lineNumber = 0 => record = <<>>
  /\ message = "processing" /\ lineNumber # 0 => \E a \in Nat : Reached(a)
  /\ message \in {"processed", "deleted"} => RecordsIn(doc) \subseteq Sent

CompleteInv == LinesOK /\ (RegularIn(doc) => RegularOK)

LEMMA Between ==
  ASSUME NEW n \in Nat, NEW a \in 1 .. n, NEW m \in a .. n, NEW b \in a .. n
  PROVE  /\ m < b => m # n /\ m + 1 \in a + 1 .. b
         /\ m < b \/ b < m \/ m = b
OBVIOUS

\* A record ends before the next start, or with the document.
LEMMA LastLine ==
  ASSUME NEW d \in Seq(LineKinds), NEW a \in StartsIn(d), NEW b \in a .. Len(d),
         \A k \in a + 1 .. b : k \notin StartsIn(d), b = Len(d) \/ b + 1 \in StartsIn(d)
  PROVE  RecordIn(d, a) = Lines(a, b)
<1>0. DOMAIN d = 1 .. Len(d) /\ Len(d) \in Nat /\ a \in 1 .. Len(d) /\ StartsIn(d) \subseteq 1 .. Len(d)
      BY DEF StartsIn
<1> DEFINE P(m) == /\ \A k \in a + 1 .. m : k \notin StartsIn(d)
                   /\ m = Len(d) \/ m + 1 \in StartsIn(d)
<1>1. LastIn(d, a) = CHOOSE m \in a .. Len(d) : P(m)
      BY DEF LastIn
<1>2. P(b)
      OBVIOUS
<1>3. ASSUME NEW m \in a .. Len(d), P(m)
      PROVE  m = b
  <2>1. CASE m < b
    <3>1. m # Len(d) /\ m + 1 \in a + 1 .. b
          BY <1>0, Between, <2>1
    <3>2. m + 1 \in StartsIn(d)
          BY <1>3, <3>1
    <3> QED BY <3>1, <3>2
  <2>2. CASE b < m
    <3>1. b # Len(d) /\ b + 1 \in a + 1 .. m
          BY <1>0, Between, <2>2
    <3>2. b + 1 \in StartsIn(d)
          BY <3>1
    <3> QED BY <1>3, <3>1, <3>2
  <2>3. m < b \/ b < m \/ m = b
        BY <1>0, Between
  <2> QED BY <2>1, <2>2, <2>3
<1> HIDE DEF P
<1>4. LastIn(d, a) \in a .. Len(d) /\ P(LastIn(d, a))
      BY <1>1, <1>2
<1>5. LastIn(d, a) = b
      BY <1>3, <1>4
<1> QED BY <1>5 DEF RecordIn

\* What is sent joins what was.
LEMMA SendLogsSends ==
  ASSUME LinesOK, message = "processing", SendLogs
  PROVE  Sent' = IF record = <<>> THEN Sent ELSE Sent \cup {record}
<1>1. CASE record = <<>>
      BY <1>1 DEF SendLogs, Sent
<1>2. CASE record # <<>> /\ shipped' = shipped /\ lost' = lost \cup {record}
      BY <1>2 DEF Sent
<1>3. CASE record # <<>> /\ shipped' = Append(shipped, record) /\ lost' = lost
  <2>1. PICK a \in 1 .. lineNumber : record = Lines(a, lineNumber)
        BY <1>3 DEF LinesOK, RecordFrom
  <2>2. a \in Nat /\ lineNumber \in Nat /\ a <= lineNumber
        BY <2>1 DEF LinesOK
  <2>3. record \in Seq(Nat)
        BY <2>1, <2>2, LinesAreLines
  <2>4. /\ DOMAIN shipped' = 1 .. Len(shipped) + 1 /\ DOMAIN shipped = 1 .. Len(shipped)
        /\ \A j \in 1 .. Len(shipped) : shipped'[j] = shipped[j]
        /\ shipped'[Len(shipped) + 1] = record
        BY <1>3, <2>3 DEF LinesOK
  <2>5. \A j : j \in 1 .. Len(shipped) + 1 <=> j \in 1 .. Len(shipped) \/ j = Len(shipped) + 1
        BY DEF LinesOK
  <2>6. {shipped'[j] : j \in DOMAIN shipped'} = {shipped[j] : j \in DOMAIN shipped} \cup {record}
        BY <2>4, <2>5
  <2> QED BY <1>3, <2>6 DEF Sent
<1> QED BY <1>1, <1>2, <1>3 DEF SendLogs

\* A start, or the end of the document, completes the record under construction.
LEMMA RecordCompleted ==
  ASSUME LinesOK, message = "processing", NEW a \in Nat, Reached(a), SendLogs,
         lineNumber = Len(doc) \/ lineNumber + 1 \in StartsIn(doc)
  PROVE  /\ Sent' = Sent \cup {RecordIn(doc, a)} /\ a \in StartsIn(doc)
         /\ \A n \in StartsIn(doc) : n <= lineNumber => RecordIn(doc, n) \in Sent'
<1>1. doc \in Seq(LineKinds) /\ lineNumber \in Nat /\ lineNumber <= Len(doc)
      BY DEF LinesOK
<1>2. a \in StartsIn(doc) /\ lineNumber \in a .. Len(doc) /\ record = Lines(a, lineNumber)
      BY <1>1 DEF Reached
<1>3. RecordIn(doc, a) = record
      BY <1>1, <1>2, LastLine DEF Reached
<1>4. record # <<>>
      BY <1>1, <1>2, LinesAreLines
<1>5. Sent' = Sent \cup {RecordIn(doc, a)}
      BY <1>3, <1>4, SendLogsSends
<1>6. ASSUME NEW n \in StartsIn(doc), n <= lineNumber
      PROVE  RecordIn(doc, n) \in Sent'
  <2>1. n \in Nat
        BY <1>1 DEF StartsIn
  <2>2. CASE n < a
        BY <1>5, <2>2 DEF Reached
  <2>3. CASE n = a
        BY <1>5, <2>3
  <2>4. CASE a < n
    <3>1. n \in a + 1 .. lineNumber
          BY <1>1, <1>6, <2>1, <2>4
    <3> QED BY <3>1 DEF Reached
  <2> QED BY <2>1, <2>2, <2>3, <2>4
<1> QED BY <1>2, <1>5, <1>6

LEMMA CompleteInitial == Init => CompleteInv
<1> SUFFICES ASSUME Init
             PROVE  RegularOK
    BY LinesInitial DEF CompleteInv
<1>1. Sent = {} /\ message = "queued"
      BY DEF Init, Sent
<1> QED BY <1>1 DEF RegularOK

LEMMA CompleteInductive == CompleteInv /\ [Next]_vars => CompleteInv'
<1> SUFFICES ASSUME CompleteInv, [Next]_vars, RegularIn(doc')
             PROVE  RegularOK'
    BY LinesInductive DEF CompleteInv
<1>0. doc' = doc
      BY DEF Next, Deliver, EndOfDocument, DeleteMessage, StartRecord, ContinueRecord, NoRecordToContinue,
         SettingMissingRaises, InvocationDies, Redeliver, Terminated, vars
<1>1. LinesOK /\ RegularIn(doc) /\ RegularOK
      BY <1>0 DEF CompleteInv
<1>2. /\ doc \in Seq(LineKinds) /\ lineNumber \in Nat /\ DOMAIN doc = 1 .. Len(doc) /\ Len(doc) \in Nat
      /\ message = "processing" => lineNumber <= Len(doc)
      BY <1>1 DEF LinesOK
<1>3. CASE Deliver
  <2>1. message' = "processing" /\ lineNumber' = 0 /\ record' = <<>> /\ Sent' = Sent
        BY <1>3 DEF Deliver, Sent
  <2> QED BY <1>0, <1>1, <2>1 DEF RegularOK
<1>4. CASE EndOfDocument
  <2>1. message = "processing" /\ message' = "processed" /\ SendLogs /\ AtEnd(lineNumber + 1)
        BY <1>4 DEF EndOfDocument, NextLine
  <2>2. lineNumber = Len(doc)
    <3>1. lineNumber + 1 \notin DOMAIN doc
          BY <1>1, <2>1 DEF AtEnd, RegularIn
    <3>2. lineNumber + 1 \notin 1 .. Len(doc)
          BY <1>2, <3>1
    <3>3. lineNumber \in Nat /\ Len(doc) \in Nat /\ lineNumber <= Len(doc)
          BY <1>2, <2>1
    <3> QED BY <3>2, <3>3
  <2>3. Sent' \subseteq RecordsIn(doc) /\ RecordsIn(doc) \subseteq Sent'
    <3>1. CASE lineNumber = 0
      <4>1. record = <<>> /\ StartsIn(doc) = {}
            BY <1>1, <1>2, <2>1, <2>2, <3>1 DEF RegularOK, StartsIn
      <4>2. Sent' = Sent
            BY <1>1, <2>1, <4>1, SendLogsSends
      <4> QED BY <1>1, <4>1, <4>2 DEF RegularOK, RecordsIn
    <3>2. CASE lineNumber # 0
      <4>1. PICK a \in Nat : Reached(a)
            BY <1>1, <2>1, <3>2 DEF RegularOK
      <4>2. /\ Sent' = Sent \cup {RecordIn(doc, a)} /\ a \in StartsIn(doc)
            /\ \A n \in StartsIn(doc) : n <= lineNumber => RecordIn(doc, n) \in Sent'
            BY <1>1, <2>1, <2>2, <4>1, RecordCompleted
      <4>3. \A n \in StartsIn(doc) : n <= lineNumber
            BY <1>2, <2>2 DEF StartsIn
      <4> QED BY <1>1, <4>2, <4>3 DEF RegularOK, RecordsIn
    <3> QED BY <3>1, <3>2
  <2> QED BY <1>0, <2>1, <2>3 DEF RegularOK
<1>5. CASE StartRecord
  <2>1. /\ message = "processing" /\ message' = message /\ SendLogs
        /\ lineNumber' = lineNumber + 1 /\ record' = <<lineNumber + 1>>
        /\ lineNumber + 1 \in DOMAIN doc /\ doc[lineNumber + 1] \in {"stamp", "mention"}
        BY <1>5 DEF StartRecord, NextLine, AtEnd, HasStamp
  <2>2. lineNumber' \in StartsIn(doc) /\ lineNumber' \in Nat /\ lineNumber' # 0
        BY <1>1, <1>2, <2>1 DEF RegularIn, StartsIn
  <2>3. record' = Lines(lineNumber', lineNumber')
        BY <2>1, <2>2, OneLine
  <2>4. Sent' \subseteq RecordsIn(doc) /\ \A n \in StartsIn(doc) : n < lineNumber' => RecordIn(doc, n) \in Sent'
    <3>1. \A n \in StartsIn(doc) : n \in 1 .. Len(doc) /\ (n < lineNumber' => n <= lineNumber)
          BY <1>2, <2>1 DEF StartsIn
    <3>2. CASE lineNumber = 0
      <4>1. record = <<>>
            BY <1>1, <2>1, <3>2 DEF RegularOK
      <4>2. Sent' = Sent
            BY <1>1, <2>1, <4>1, SendLogsSends
      <4>3. \A n \in StartsIn(doc) : ~(n < lineNumber')
            BY <2>1, <3>1, <3>2
      <4> QED BY <1>1, <4>2, <4>3 DEF RegularOK
    <3>3. CASE lineNumber # 0
      <4>1. PICK a \in Nat : Reached(a)
            BY <1>1, <2>1, <3>3 DEF RegularOK
      <4>2. lineNumber + 1 \in StartsIn(doc)
            BY <2>1, <2>2
      <4>3. /\ Sent' = Sent \cup {RecordIn(doc, a)} /\ a \in StartsIn(doc)
            /\ \A n \in StartsIn(doc) : n <= lineNumber => RecordIn(doc, n) \in Sent'
            BY <1>1, <2>1, <4>1, <4>2, RecordCompleted
      <4> QED BY <1>1, <3>1, <4>3 DEF RegularOK, RecordsIn
    <3> QED BY <3>2, <3>3
  <2>5. PICK x \in Nat : x = lineNumber'
        BY <2>2
  <2>6. x <= x /\ \A k \in x + 1 .. x : FALSE
        OBVIOUS
  <2>7. Reached(x)'
        BY <1>0, <2>2, <2>3, <2>4, <2>5, <2>6 DEF Reached
  <2>8. \E a \in Nat : Reached(a)'
        BY <2>7
  <2> QED BY <1>0, <2>1, <2>2, <2>4, <2>8 DEF RegularOK
<1>6. CASE ContinueRecord
  <2>1. /\ message = "processing" /\ message' = message /\ Sent' = Sent
        /\ lineNumber' = lineNumber + 1 /\ record' = Append(record, lineNumber + 1)
        /\ record # <<>> /\ lineNumber + 1 \in DOMAIN doc /\ doc[lineNumber + 1] # "stamp"
        BY <1>6 DEF ContinueRecord, NextLine, AtEnd, HasStamp, Sent
  <2>2. lineNumber # 0 /\ lineNumber' # 0 /\ lineNumber + 1 \notin StartsIn(doc)
        BY <1>1, <1>2, <2>1 DEF RegularOK, StartsIn
  <2>3. PICK a \in Nat : Reached(a)
        BY <1>1, <2>1, <2>2 DEF RegularOK
  <2>4. a <= lineNumber /\ record = Lines(a, lineNumber)
        BY <2>3 DEF Reached
  <2>5. record' = Lines(a, lineNumber')
    <3>1. Append(Lines(a, lineNumber), lineNumber + 1) = Lines(a, lineNumber + 1)
          BY <1>2, <2>4, AppendLine
    <3> QED BY <2>1, <2>4, <3>1
  <2>6. \A k \in a + 1 .. lineNumber' : k \in a + 1 .. lineNumber \/ k = lineNumber + 1
        BY <1>2, <2>1
  <2>7. \A k \in a + 1 .. lineNumber' : k \notin StartsIn(doc)
        BY <2>2, <2>3, <2>6 DEF Reached
  <2>8. a <= lineNumber'
        BY <1>2, <2>1, <2>4
  <2>9. Reached(a)'
        BY <1>0, <2>1, <2>3, <2>5, <2>7, <2>8 DEF Reached
  <2> QED BY <1>0, <1>1, <2>1, <2>2, <2>9 DEF RegularOK
<1>7. CASE NoRecordToContinue \/ SettingMissingRaises \/ InvocationDies
  <2>1. message' \in {"queued", "poison"} /\ Sent' = Sent
        BY <1>7 DEF NoRecordToContinue, SettingMissingRaises, InvocationDies, Redeliver, Sent
  <2> QED BY <1>0, <1>1, <2>1 DEF RegularOK
<1>8. CASE DeleteMessage
  <2>1. message = "processed" /\ message' = "deleted" /\ Sent' = Sent
        BY <1>8 DEF DeleteMessage, Sent
  <2> QED BY <1>0, <1>1, <2>1 DEF RegularOK
<1>9. CASE UNCHANGED vars
  <2>1. UNCHANGED <<message, lineNumber, record>> /\ Sent' = Sent
        BY <1>9 DEF vars, Sent
  <2>2. \A a \in Nat : Reached(a) => Reached(a)'
        BY <1>0, <2>1 DEF Reached
  <2> QED BY <1>0, <1>1, <2>1, <2>2 DEF RegularOK
<1> QED BY <1>3, <1>4, <1>5, <1>6, <1>7, <1>8, <1>9 DEF Next, Terminated

\* The message of a regular log is deleted only when each of its records has arrived or
\* its post has failed, for logs of any length and any number of deliveries.
THEOREM RegularComplete == Spec => []RegularLogIsComplete
<1>1. RecordsOf = RecordsIn(doc)
      BY DEF RecordsOf, RecordAt, Starts, RecordsIn, RecordIn, LastIn, StartsIn, Lines
<1>2. Regular => RegularIn(doc)
      BY DEF Regular, RegularIn
<1>3. CompleteInv => RegularLogIsComplete
      BY <1>1, <1>2 DEF CompleteInv, RegularOK, RegularLogIsComplete, Sent
<1> QED BY <1>3, CompleteInitial, CompleteInductive, PTL DEF Spec

-----------------------------------------------------------------------------
(* copies come by redelivery *)

SetBacks == {j \in 2 .. Len(shipped) : Head(shipped[j]) <= Head(shipped[j - 1])}

\* What is sent next comes after what was sent last, or a delivery is still to be counted.
CountOK ==
  /\ dequeued \in Nat /\ IsFiniteSet(SetBacks)
  /\ message = "processing" => dequeued # 0
  /\ shipped # <<>> => Cardinality(SetBacks) < dequeued
  /\ message = "processing" /\ shipped # <<>> =>
       \/ Cardinality(SetBacks) + 1 < dequeued
       \/ record # <<>> /\ Head(shipped[Len(shipped)]) < Head(record)

CountInv == LinesOK /\ CountOK

\* The record under construction begins at a line that is read.
LEMMA RecordHead ==
  ASSUME LinesOK, message = "processing", record # <<>>
  PROVE  Head(record) \in 1 .. lineNumber /\ record \in Seq(Nat)
<1>1. PICK a \in 1 .. lineNumber : record = Lines(a, lineNumber)
      BY DEF LinesOK, RecordFrom
<1>2. a \in Nat /\ lineNumber \in Nat /\ a <= lineNumber
      BY <1>1 DEF LinesOK
<1> QED BY <1>1, <1>2, LinesAreLines

LEMMA LastHead ==
  ASSUME LinesOK, shipped # <<>>
  PROVE  Head(shipped[Len(shipped)]) \in Nat
<1>1. Len(shipped) \in 1 .. Len(shipped)
      BY DEF LinesOK
<1>2. PICK a, b \in Nat : a <= b /\ shipped[Len(shipped)] = Lines(a, b)
      BY <1>1 DEF LinesOK
<1> QED BY <1>2, LinesAreLines

\* Sending counts at most one set-back, and none when the record comes after the last.
LEMMA SendLogsCounts ==
  ASSUME CountInv, message = "processing", SendLogs, dequeued' = dequeued
  PROVE  /\ IsFiniteSet(SetBacks')
         /\ shipped' # <<>> => Cardinality(SetBacks)' < dequeued
         /\ shipped' # <<>> =>
              \/ Cardinality(SetBacks)' + 1 < dequeued
              \/ record # <<>> /\ Head(shipped'[Len(shipped')]) <= Head(record)
<1>1. CASE shipped' = shipped
  <2>1. SetBacks' = SetBacks
        BY <1>1 DEF SetBacks
  <2>2. shipped # <<>> /\ record # <<>> /\ Head(shipped[Len(shipped)]) < Head(record) =>
          Head(shipped[Len(shipped)]) <= Head(record)
    <3>1. shipped # <<>> => Head(shipped[Len(shipped)]) \in Nat
          BY LastHead DEF CountInv
    <3>2. record # <<>> => Head(record) \in Nat
          BY RecordHead DEF CountInv, LinesOK
    <3> QED BY <3>1, <3>2
  <2> QED BY <1>1, <2>1, <2>2 DEF CountInv, CountOK
<1>2. CASE record # <<>> /\ shipped' = Append(shipped, record)
  <2>1. shipped \in Seq(Seq(Nat)) /\ record \in Seq(Nat) /\ Head(record) \in Nat
        BY <1>2, RecordHead DEF CountInv, LinesOK
  <2>2. /\ shipped' # <<>> /\ Len(shipped') = Len(shipped) + 1 /\ Len(shipped) \in Nat
        /\ \A j \in 1 .. Len(shipped) : shipped'[j] = shipped[j]
        /\ shipped'[Len(shipped) + 1] = record
    <3>1. Len(shipped') = Len(shipped) + 1 /\ Len(shipped) \in Nat
          BY <1>2, <2>1
    <3>2. shipped' # <<>>
      <4>1. Len(shipped) + 1 # 0 /\ Len(<<>>) = 0
            BY <3>1
      <4> QED BY <3>1, <4>1
    <3>3. \A j \in 1 .. Len(shipped) : shipped'[j] = shipped[j]
          BY <1>2, <2>1
    <3>4. shipped'[Len(shipped) + 1] = record
          BY <1>2, <2>1
    <3> QED BY <3>1, <3>2, <3>3, <3>4
  <2>3. ASSUME NEW j \in SetBacks'
        PROVE  /\ j \in SetBacks \/ j = Len(shipped) + 1
               /\ j = Len(shipped) + 1 => Len(shipped) # 0 /\ Head(record) <= Head(shipped[Len(shipped)])
    <3>1. j \in 2 .. Len(shipped) + 1 /\ Head(shipped'[j]) <= Head(shipped'[j - 1])
          BY <2>2, <2>3 DEF SetBacks
    <3>2. CASE j = Len(shipped) + 1
      <4>1. j - 1 = Len(shipped) /\ Len(shipped) \in 1 .. Len(shipped)
            BY <2>2, <3>1, <3>2
      <4>2. shipped'[j] = record /\ shipped'[j - 1] = shipped[Len(shipped)]
            BY <2>2, <3>2, <4>1
      <4> QED BY <3>1, <3>2, <4>1, <4>2
    <3>3. CASE j # Len(shipped) + 1
      <4>1. j \in 2 .. Len(shipped) /\ j \in 1 .. Len(shipped) /\ j - 1 \in 1 .. Len(shipped)
            BY <2>2, <3>1, <3>3
      <4>2. shipped'[j] = shipped[j] /\ shipped'[j - 1] = shipped[j - 1]
            BY <2>2, <4>1
      <4> QED BY <3>1, <3>3, <4>1, <4>2 DEF SetBacks
    <3> QED BY <3>2, <3>3
  <2>4. IsFiniteSet(SetBacks) /\ dequeued \in Nat /\ dequeued # 0
        BY DEF CountInv, CountOK
  <2>5. /\ IsFiniteSet(SetBacks \cup {Len(shipped) + 1})
        /\ Cardinality(SetBacks \cup {Len(shipped) + 1}) <= Cardinality(SetBacks) + 1
        /\ Cardinality(SetBacks) \in Nat
    <3>1. Cardinality(SetBacks) \in Nat
          BY <2>4, FS_CardinalityType
    <3>2. /\ IsFiniteSet(SetBacks \cup {Len(shipped) + 1})
          /\ \/ Cardinality(SetBacks \cup {Len(shipped) + 1}) = Cardinality(SetBacks)
             \/ Cardinality(SetBacks \cup {Len(shipped) + 1}) = Cardinality(SetBacks) + 1
          BY <2>4, FS_AddElement
    <3> QED BY <3>1, <3>2
  <2>6. IsFiniteSet(SetBacks') /\ Cardinality(SetBacks') \in Nat /\ Cardinality(SetBacks') <= Cardinality(SetBacks) + 1
    <3>1. SetBacks' \subseteq SetBacks \cup {Len(shipped) + 1}
          BY <2>3
    <3>2. IsFiniteSet(SetBacks') /\ Cardinality(SetBacks') <= Cardinality(SetBacks \cup {Len(shipped) + 1})
          BY <2>5, <3>1, FS_Subset
    <3>3. Cardinality(SetBacks') \in Nat /\ Cardinality(SetBacks \cup {Len(shipped) + 1}) \in Nat
          BY <2>5, <3>2, FS_CardinalityType
    <3> QED BY <2>5, <3>2, <3>3
  <2>7. Cardinality(SetBacks') < dequeued
    <3>1. CASE shipped = <<>>
      <4>1. SetBacks' = {}
        <5>1. Len(shipped) = 0
              BY <3>1
        <5>2. SetBacks = {}
              BY <5>1 DEF SetBacks
        <5> QED BY <2>3, <5>1, <5>2
      <4>2. Cardinality(SetBacks') = 0
            BY <4>1, FS_EmptySet
      <4> QED BY <2>4, <4>2
    <3>2. CASE Cardinality(SetBacks) + 1 < dequeued
          BY <2>4, <2>5, <2>6, <3>2
    <3>3. CASE shipped # <<>> /\ Head(shipped[Len(shipped)]) < Head(record)
      <4>3. Head(shipped[Len(shipped)]) \in Nat
            BY <3>3, LastHead DEF CountInv
      <4>4. ~(Head(record) <= Head(shipped[Len(shipped)]))
            BY <2>1, <3>3, <4>3
      <4>5. SetBacks' \subseteq SetBacks
            BY <2>3, <4>4
      <4>6. Cardinality(SetBacks') <= Cardinality(SetBacks)
            BY <2>4, <4>5, FS_Subset
      <4>7. Cardinality(SetBacks) < dequeued
            BY <3>3 DEF CountInv, CountOK
      <4> QED BY <2>4, <2>5, <2>6, <4>6, <4>7
    <3> QED BY <3>1, <3>2, <3>3 DEF CountInv, CountOK
  <2>8. Head(shipped'[Len(shipped')]) <= Head(record)
    <3>1. shipped'[Len(shipped')] = record
          BY <2>2
    <3> QED BY <2>1, <3>1
  <2> QED BY <1>2, <2>6, <2>7, <2>8
<1> QED BY <1>1, <1>2 DEF SendLogs

LEMMA CountInitial == Init => CountInv
<1> SUFFICES ASSUME Init
             PROVE  CountOK
    BY LinesInitial DEF CountInv
<1>1. shipped = <<>> /\ dequeued = 0 /\ message = "queued" /\ Len(shipped) = 0
      BY DEF Init
<1>2. SetBacks = {}
      BY <1>1 DEF SetBacks
<1> QED BY <1>1, <1>2, FS_EmptySet DEF CountOK

LEMMA CountInductive == CountInv /\ [Next]_vars => CountInv'
<1> SUFFICES ASSUME CountInv, [Next]_vars
             PROVE  CountOK'
    BY LinesInductive DEF CountInv
<1>0. dequeued \in Nat /\ IsFiniteSet(SetBacks) /\ Cardinality(SetBacks) \in Nat /\ lineNumber \in Nat
      BY FS_CardinalityType DEF CountInv, CountOK, LinesOK
<1>1. CASE Deliver
  <2>1. /\ shipped' = shipped /\ SetBacks' = SetBacks /\ dequeued' = dequeued + 1
        /\ message' = "processing"
        BY <1>1 DEF Deliver, SetBacks
  <2>2. shipped # <<>> => Cardinality(SetBacks) < dequeued
        BY DEF CountInv, CountOK
  <2>3. dequeued' \in Nat /\ dequeued' # 0
        BY <1>0, <2>1
  <2>4. shipped # <<>> => Cardinality(SetBacks) < dequeued' /\ Cardinality(SetBacks) + 1 < dequeued'
        BY <1>0, <2>1, <2>2
  <2> QED BY <1>0, <2>1, <2>3, <2>4 DEF CountOK
<1>2. CASE EndOfDocument
  <2>1. message = "processing" /\ message' = "processed" /\ SendLogs /\ dequeued' = dequeued
        BY <1>2 DEF EndOfDocument
  <2> QED BY <1>0, <2>1, SendLogsCounts DEF CountOK
<1>3. CASE StartRecord
  <2>1. /\ message = "processing" /\ message' = message /\ SendLogs /\ dequeued' = dequeued
        /\ record' = <<lineNumber + 1>>
        BY <1>3 DEF StartRecord, NextLine
  <2>2. /\ IsFiniteSet(SetBacks')
        /\ shipped' # <<>> => Cardinality(SetBacks)' < dequeued
        /\ shipped' # <<>> =>
              \/ Cardinality(SetBacks)' + 1 < dequeued
              \/ record # <<>> /\ Head(shipped'[Len(shipped')]) <= Head(record)
        BY <2>1, SendLogsCounts
  <2>3. record' # <<>> /\ Head(record') = lineNumber + 1 /\ (record # <<>> => Head(record) \in 1 .. lineNumber)
        BY <1>0, <2>1, RecordHead DEF CountInv
  <2>4. shipped' # <<>> => Head(shipped'[Len(shipped')]) \in Nat
    <3>1. LinesOK'
          BY LinesInductive DEF CountInv
    <3>2. ASSUME shipped' # <<>>
          PROVE  Head(shipped'[Len(shipped')]) \in Nat
      <4>1. Len(shipped') \in 1 .. Len(shipped')
            BY <3>1, <3>2 DEF LinesOK
      <4>2. PICK a, b \in Nat : a <= b /\ shipped'[Len(shipped')] = Lines(a, b)
            BY <3>1, <4>1 DEF LinesOK
      <4> QED BY <4>2, LinesAreLines
    <3> QED BY <3>2
  <2>5. shipped' # <<>> =>
          \/ Cardinality(SetBacks)' + 1 < dequeued
          \/ Head(shipped'[Len(shipped')]) < Head(record')
        BY <1>0, <2>2, <2>3, <2>4
  <2>6. dequeued # 0
        BY <2>1 DEF CountInv, CountOK
  <2> QED BY <1>0, <2>1, <2>2, <2>3, <2>5, <2>6 DEF CountOK
<1>4. CASE ContinueRecord
  <2>1. /\ message = "processing" /\ message' = message /\ shipped' = shipped /\ dequeued' = dequeued
        /\ record # <<>> /\ record' = Append(record, lineNumber + 1) /\ SetBacks' = SetBacks
        BY <1>4 DEF ContinueRecord, NextLine, SetBacks
  <2>2. record \in Seq(Nat)
        BY <2>1, RecordHead DEF CountInv
  <2>3. record' # <<>> /\ Head(record') = Head(record)
        BY <1>0, <2>1, <2>2
  <2> QED BY <1>0, <2>1, <2>3 DEF CountInv, CountOK
<1>5. CASE DeleteMessage \/ NoRecordToContinue \/ SettingMissingRaises \/ InvocationDies
  <2>1. /\ message' \in {"deleted", "queued", "poison"}
        /\ shipped' = shipped /\ dequeued' = dequeued /\ SetBacks' = SetBacks
        BY <1>5 DEF DeleteMessage, NoRecordToContinue, SettingMissingRaises, InvocationDies, Redeliver, SetBacks
  <2> QED BY <1>0, <2>1 DEF CountInv, CountOK
<1>6. CASE UNCHANGED vars
  <2>1. /\ message' = message /\ shipped' = shipped /\ dequeued' = dequeued /\ record' = record /\ SetBacks' = SetBacks
        BY <1>6 DEF vars, SetBacks
  <2> QED BY <1>0, <2>1 DEF CountInv, CountOK
<1> QED BY <1>1, <1>2, <1>3, <1>4, <1>5, <1>6 DEF Next, Terminated

\* Records come in the order of the lines, and a record that does not begins a further
\* delivery, for logs of any length and any number of deliveries.
THEOREM CopiesByRedelivery == Spec => []CopiesOnlyByRedelivery
<1>1. CountInv => CopiesOnlyByRedelivery
      BY DEF CountInv, CountOK, CopiesOnlyByRedelivery, SetBacks
<1> QED BY <1>1, CountInitial, CountInductive, PTL DEF Spec

\* A line that is read exists, and a message that waits has a delivery left.
LogTypeInv ==
  /\ TypeOK
  /\ message = "processing" => lineNumber <= Len(doc)
  /\ message = "queued" => dequeued < MaxDequeue

\* The lines of a document are numbered from 1, and there are at most MaxLines.
LEMMA DocumentLength == TypeOK => Len(doc) \in 0 .. MaxLines /\ DOMAIN doc = 1 .. Len(doc)
<1> SUFFICES ASSUME TypeOK
             PROVE  Len(doc) \in 0 .. MaxLines /\ DOMAIN doc = 1 .. Len(doc)
    OBVIOUS
<1>1. PICK m \in 0 .. MaxLines : doc \in [1 .. m -> LineKinds]
      BY DEF TypeOK, SeqOf
<1>2. m \in Nat /\ Len(doc) = m
      BY <1>1, BoundsAssumption
<1> QED BY <1>1, <1>2

\* The types hold at the start, and every step keeps them.
LEMMA LogTypeInitial == Init => LogTypeInv
<1> SUFFICES ASSUME Init
             PROVE  LogTypeInv
    OBVIOUS
<1>1. record \in Seq(1 .. MaxLines) /\ shipped \in Seq(Seq(1 .. MaxLines)) /\ lost = {}
      BY DEF Init
<1>2. dequeued \in 0 .. MaxDequeue /\ dequeued < MaxDequeue /\ lineNumber \in 0 .. MaxLines + 1
      BY BoundsAssumption DEF Init
<1> QED BY <1>1, <1>2 DEF Init, LogTypeInv, TypeOK

\* What is sent is a record of the document's lines.
LEMMA SendLogsTyped ==
  ASSUME TypeOK, SendLogs
  PROVE  shipped' \in Seq(Seq(1 .. MaxLines)) /\ \A r \in lost' : r \in Seq(1 .. MaxLines)
<1>1. record \in Seq(1 .. MaxLines) /\ shipped \in Seq(Seq(1 .. MaxLines)) /\ \A r \in lost : r \in Seq(1 .. MaxLines)
      BY DEF TypeOK
<1>2. CASE shipped' = Append(shipped, record) /\ lost' = lost
      BY <1>1, <1>2
<1>3. CASE shipped' = shipped /\ lost' \subseteq lost \cup {record}
      BY <1>1, <1>3
<1> QED BY <1>2, <1>3 DEF SendLogs

LEMMA LogTypeInductive == LogTypeInv /\ [Next]_vars => LogTypeInv'
<1> SUFFICES ASSUME LogTypeInv, [Next]_vars
             PROVE  LogTypeInv'
    OBVIOUS
<1>1. Len(doc) \in 0 .. MaxLines /\ DOMAIN doc = 1 .. Len(doc) /\ MaxLines \in Nat /\ MaxDequeue \in Nat
      BY DocumentLength, BoundsAssumption DEF LogTypeInv
<1>2. CASE Deliver
  <2>1. record' \in Seq(1 .. MaxLines) /\ lineNumber' \in 0 .. MaxLines + 1 /\ lineNumber' <= Len(doc')
        BY <1>1, <1>2 DEF Deliver
  <2>2. dequeued' \in 0 .. MaxDequeue
        BY <1>1, <1>2 DEF Deliver, LogTypeInv, TypeOK
  <2> QED BY <1>2, <2>1, <2>2 DEF Deliver, LogTypeInv, TypeOK
<1>3. CASE EndOfDocument \/ StartRecord \/ ContinueRecord
  <2>1. /\ message = "processing" /\ message' \in {"processing", "processed"}
        /\ lineNumber' = lineNumber + 1 /\ UNCHANGED <<doc, analytics, dequeued>>
        /\ message' = "processing" => lineNumber + 1 \in DOMAIN doc
        BY <1>3 DEF EndOfDocument, StartRecord, ContinueRecord, NextLine, AtEnd
  <2>2. lineNumber' \in 0 .. MaxLines + 1 /\ (message' = "processing" => lineNumber' <= Len(doc'))
        BY <1>1, <2>1 DEF LogTypeInv, TypeOK
  <2>3. record' \in Seq(1 .. MaxLines)
    <3>1. record \in Seq(1 .. MaxLines)
          BY DEF LogTypeInv, TypeOK
    <3>2. CASE EndOfDocument
          BY <3>1, <3>2 DEF EndOfDocument
    <3>3. CASE StartRecord \/ ContinueRecord
      <4>1. PICK n \in 1 .. MaxLines : n = lineNumber + 1
            BY <1>1, <3>3 DEF StartRecord, ContinueRecord, NextLine, AtEnd
      <4>2. record' = <<n>> \/ record' = Append(record, n)
            BY <3>3, <4>1 DEF StartRecord, ContinueRecord, NextLine
      <4>3. <<n>> \in Seq(1 .. MaxLines)
            OBVIOUS
      <4>4. Append(record, n) \in Seq(1 .. MaxLines)
            BY <3>1
      <4> QED BY <4>2, <4>3, <4>4
    <3> QED BY <1>3, <3>2, <3>3
  <2>4. shipped' \in Seq(Seq(1 .. MaxLines)) /\ \A r \in lost' : r \in Seq(1 .. MaxLines)
    <3>1. SendLogs \/ UNCHANGED <<shipped, lost>>
          BY <1>3 DEF EndOfDocument, StartRecord, ContinueRecord
    <3> QED BY <3>1, SendLogsTyped DEF LogTypeInv, TypeOK
  <2> QED BY <2>1, <2>2, <2>3, <2>4 DEF LogTypeInv, TypeOK
<1>4. CASE DeleteMessage \/ NoRecordToContinue \/ SettingMissingRaises \/ InvocationDies
  <2>1. /\ message' \in {"deleted", "queued", "poison"} /\ (message' = "queued" => dequeued < MaxDequeue)
        /\ UNCHANGED <<doc, analytics, dequeued, lineNumber, record, shipped, lost>>
        BY <1>4 DEF DeleteMessage, NoRecordToContinue, SettingMissingRaises, InvocationDies, Redeliver
  <2> QED BY <2>1 DEF LogTypeInv, TypeOK
<1>5. CASE UNCHANGED vars
      BY <1>5 DEF vars, LogTypeInv, TypeOK
<1> QED BY <1>2, <1>3, <1>4, <1>5 DEF Next, Terminated

\* Every variable keeps its type: no delivery is beyond the limit, and no line beyond the
\* document's end is put into a record.
THEOREM LogTypeCorrect == Spec => []TypeOK
<1>1. LogTypeInv => TypeOK
      BY DEF LogTypeInv
<1> QED BY <1>1, LogTypeInitial, LogTypeInductive, PTL DEF Spec

\* How much of the work on a message is left, as deliveries and, of this delivery, steps.
DeliveriesLeft == MaxDequeue - dequeued
LinesLeft ==
  CASE message = "processing" -> MaxLines + 3 - lineNumber
    [] message = "processed"  -> 1
    [] OTHER                  -> 0

\* No message goes round for ever: with every step the work that is left gets less, first
\* by deliveries, of which only the allowed number begins, and then by lines.
THEOREM MessageWearsOut ==
  Spec => [][/\ DeliveriesLeft' \in Nat /\ LinesLeft' \in Nat
             /\ \/ DeliveriesLeft' < DeliveriesLeft
                \/ DeliveriesLeft' = DeliveriesLeft /\ LinesLeft' < LinesLeft]_vars
<1>1. ASSUME LogTypeInv, LogTypeInv', Next, vars' # vars
      PROVE  /\ DeliveriesLeft' \in Nat /\ LinesLeft' \in Nat
             /\ \/ DeliveriesLeft' < DeliveriesLeft
                \/ DeliveriesLeft' = DeliveriesLeft /\ LinesLeft' < LinesLeft
  <2>1. /\ MaxLines \in Nat /\ MaxDequeue \in Nat
        /\ dequeued \in 0 .. MaxDequeue /\ dequeued' \in 0 .. MaxDequeue
        /\ lineNumber \in 0 .. MaxLines + 1 /\ lineNumber' \in 0 .. MaxLines + 1
        BY <1>1, BoundsAssumption DEF LogTypeInv, TypeOK
  <2>2. DeliveriesLeft' \in Nat /\ LinesLeft' \in Nat
    <3>1. /\ DeliveriesLeft' = MaxDequeue - dequeued'
          /\ message' = "processing" => LinesLeft' = MaxLines + 3 - lineNumber'
          /\ message' # "processing" => LinesLeft' \in {0, 1}
          BY DEF DeliveriesLeft, LinesLeft
    <3>2. PICK d \in 0 .. MaxDequeue, l \in 0 .. MaxLines + 1 : d = dequeued' /\ l = lineNumber'
          BY <2>1
    <3>3. MaxDequeue - d \in Nat /\ MaxLines + 3 - l \in Nat /\ 0 \in Nat
          BY <2>1
    <3> QED BY <3>1, <3>2, <3>3
  <2>3. CASE Deliver
    <3>1. DeliveriesLeft' = MaxDequeue - (dequeued + 1) /\ DeliveriesLeft = MaxDequeue - dequeued
          BY <2>3 DEF Deliver, DeliveriesLeft
    <3> QED BY <2>1, <2>2, <3>1
  <2>4. CASE EndOfDocument \/ StartRecord \/ ContinueRecord
    <3>1. /\ message = "processing" /\ message' \in {"processing", "processed"}
          /\ lineNumber' = lineNumber + 1 /\ dequeued' = dequeued
          BY <2>4 DEF EndOfDocument, StartRecord, ContinueRecord, NextLine
    <3> QED BY <2>1, <3>1 DEF DeliveriesLeft, LinesLeft
  <2>5. CASE DeleteMessage \/ NoRecordToContinue \/ SettingMissingRaises \/ InvocationDies
    <3>1. /\ message \in {"processing", "processed"} /\ message' \notin {"processing", "processed"}
          /\ dequeued' = dequeued
          BY <2>5 DEF DeleteMessage, NoRecordToContinue, SettingMissingRaises, InvocationDies, Redeliver
    <3> QED BY <2>1, <3>1 DEF DeliveriesLeft, LinesLeft
  <2> QED BY <1>1, <2>2, <2>3, <2>4, <2>5 DEF Next, Terminated
<1>2. Spec => []LogTypeInv
      BY LogTypeInitial, LogTypeInductive, PTL DEF Spec
<1>3. LogTypeInv /\ LogTypeInv' /\ [Next]_vars =>
        [/\ DeliveriesLeft' \in Nat /\ LinesLeft' \in Nat
         /\ \/ DeliveriesLeft' < DeliveriesLeft
            \/ DeliveriesLeft' = DeliveriesLeft /\ LinesLeft' < LinesLeft]_vars
      BY <1>1
<1> QED BY <1>2, <1>3, PTL DEF Spec

=============================================================================
