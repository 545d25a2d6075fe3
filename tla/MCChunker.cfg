\* Chunker scaled to files of up to 9 bytes read in buffers of 6; the data codec of four shares
\* (n = 4, m = 1, r = 2) with a one-byte secret word and cipher block.
CONSTANTS
  minChunkSize = 3
  avgChunkSize = 4
  maxChunkSize = 5
  slidingWinSize = 3
  bufferSize = 6
  Bytes = {0, 1, 255}
  MaxFileLen = 9
  Files <- FilesUpTo
  n = 4
  m = 1
  r = 2
  W = 1
  BlockSize = 1
  MAX_SECRET_SIZE = 5
  SegmentKeys = {7}
  AONTKeys <- MCAONTKeys
  CDTypes <- CDTypeSet
  Chunks <- ChunkContents
SPECIFICATION Spec
INVARIANTS TypeOK ChunkBoundaries ChunkRestoredFromAnyKShares
