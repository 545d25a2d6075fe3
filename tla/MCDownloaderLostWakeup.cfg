CONSTANTS
  DECODE_NUM_THREADS = 2
  DECODE_QUEUE_SIZE = 1
  FWRITE_BUFFER_SIZE = 2
  DOWNLOAD_SERVER_NUMBER = 5
  NumRestore = 3
  DownNum = 1
  DownChoices = {3}
  DOWNLOAD_QUEUE_SIZE = 1
  Layouts <- AllLayouts
  WaitBeforeNotify = FALSE
  MaxSecrets = 1
SPECIFICATION Spec
PROPERTY DownloadTerminates
CHECK_DEADLOCK FALSE
