\* Trace-driven FSL mode (TRACE_DRIVEN_FSL_ENABLED = 1).
CONSTANTS
  NumClouds = 5
  KMCount = 1
  KEYEX_NUM_THREADS = 2
  NUM_THREADS = 2
  MaxLines = 3
  FileSizes <- TraceSizes
  TraceMode = TRUE
  OversizeChoices <- AnyLines
  KMChoices <- MCKMChoices
  MaxSegChunks = 31
SPECIFICATION Spec
PROPERTY StreamSpec
