SPECIFICATION Spec
CONSTANTS
  MaxLines = 4
  MaxDequeue = 3
INVARIANTS
  RecordsAreConsecutive
  RegularLogIsComplete
  CopiesOnlyByRedelivery
PROPERTY MessageIsSettled
