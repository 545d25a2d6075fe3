CONSTANTS
  DECODE_NUM_THREADS = 2
  DECODE_QUEUE_SIZE = 1
  FWRITE_BUFFER_SIZE = 2
  DOWNLOAD_SERVER_NUMBER = 5
  NumRestore = 3
  DownNum = 1
  DownChoices = {3}
  DOWNLOAD_QUEUE_SIZE = 1
  Layouts <- AllLayouts
  WaitBeforeNotify = TRUE
  MaxSecrets = 3
SPECIFICATION Spec
INVARIANTS TypeOK DecodeInputsValid FileRestored
PROPERTY DownloadTerminates
