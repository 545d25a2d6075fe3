CONSTANTS
  NumServers = 3
  DownNum = 1
  Sessions <- TwoDownloads
  NumItems = 3
  StreamCap = 1
SPECIFICATION ServerSpec
PROPERTY SessionsFinish
CHECK_DEADLOCK FALSE
