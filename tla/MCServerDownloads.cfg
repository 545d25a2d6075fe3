CONSTANTS
  NumServers = 3
  DownNum = 1
  Sessions <- DownloadsInTurn
  NumItems = 2
  StreamCap = 1
SPECIFICATION ServerSpec
PROPERTY SessionsFinish
