CONSTANTS
  NumServers = 2
  DownNum = 1
  Sessions <- UploadWithDownload
  NumItems = 2
  StreamCap = 1
SPECIFICATION ServerSpec
INVARIANT TypeOK
PROPERTY SessionsFinish
