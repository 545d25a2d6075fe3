\* Trace-driven FSL mode, files of 1-3 lines of which any but the last may
\* be over-size; with no line skipped this is also the chunk loop of main.
CONSTANTS
  NumClouds = 5
  KMCount = 1
  KEYEX_NUM_THREADS = 2
  NUM_THREADS = 2
  MaxLines = 3
  FileSizes <- MCFileSizes
  TraceMode = TRUE
  OversizeChoices <- LastLineFits
  KMChoices <- MCKMChoices
  MaxSegChunks = 31
SPECIFICATION Spec
INVARIANT TypeOK
INVARIANT FlushedBeforeDone
PROPERTY StreamSpec
