\* The header codec of the default setting (n + 1 = 5 clouds, m = 1,
\* r + 1 = 3): k = 4 shares of 32-byte secret words, AES blocks of 16.
\* MAX_SECRET_SIZE is not defined in the repository; the 16 KB of
\* SECRET_SIZE is taken.  Names of 1 to 7 characters (namesize 2 to 8).
CONSTANTS
  n = 5
  m = 1
  r = 3
  W = 32
  BlockSize = 16
  MAX_SECRET_SIZE = 16384
  NameSizes = {2, 3, 4, 5, 6, 7, 8}
  DownServer = 0
SPECIFICATION Spec
INVARIANT NameSharesFitTmp
