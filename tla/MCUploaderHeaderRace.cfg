\* Cloud 0's metadata and data uploader threads (cloudIndex 0 and 5),
\* streams of up to 3 chunks, a container that holds two data shares, two
\* one-node metadata chunks or one three-node one; collect_header racing the pipeline.
CONSTANTS
  NumClouds = 5
  KMCount = 1
  UPLOAD_BUFFER_SIZE = 165
  DataShareSize = 60
  Observed = {0, 5}
  MaxChunks = 3
  HeaderBeforeData = FALSE
SPECIFICATION Spec
INVARIANT NoHeaderUseBeforeSet
