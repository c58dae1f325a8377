SPECIFICATION Spec
CONSTANTS
  MaxLines = 3
  MaxDequeue = 1
INVARIANT WholeDocumentIsRead
