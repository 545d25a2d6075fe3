\* Upload of a 0-byte file (spec.md E1).  Deadlock checking is off so
\* that the hang is reported against the stream's liveness.
CONSTANTS
  NumClouds = 5
  KMCount = 1
  KEYEX_NUM_THREADS = 2
  NUM_THREADS = 2
  MaxLines = 3
  FileSizes <- EmptyFile
  TraceMode = FALSE
  OversizeChoices <- AnyLines
  KMChoices <- MCKMChoices
  MaxSegChunks = 31
SPECIFICATION Spec
PROPERTY StreamSpec
CHECK_DEADLOCK FALSE
