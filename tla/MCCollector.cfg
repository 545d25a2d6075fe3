CONSTANTS
  NumClouds = 5
  KMCount = 1
  MaxChunks = 4
  FpByte0 = {0, 2, 3}
  FpByte1 = {0, 1}
  ItemSize = 2
  MIN_SEGMENT_SIZE = 3
  MAX_SEGMENT_SIZE = 5
  DIVISOR = 2
  ServerCount = 5
  RSA_N = 899
  RSA_E = 11
  RSA_D = 611
  BlindFactors = {2, 3}
  SegmentKeyOf <- MCSegmentKeyOf
SPECIFICATION Spec
INVARIANT TypeOK
INVARIANT ShareRotation
INVARIANT MetaDescribesData
INVARIANT NoCollectorExit
INVARIANT EndMarkersLast
INVARIANT SegmentsRoutedByOwnMin
CHECK_DEADLOCK FALSE
