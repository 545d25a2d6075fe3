---------------------------- MODULE NameEncoding ----------------------------
(* The file name's encoding into one name share per cloud, on upload       *)
(* (Encoder::collect_header, encoder.cc) and on download                   *)
(* (Downloader::preDownloadFile, downloader.cc).  Both encode the name of  *)
(* namesize bytes (main.cc: strlen(argv[1]) + 1) with the header codec,    *)
(* CDCodec(type, n + 1, m, r + 1), into a stack buffer                     *)
(* tmp[nameSize * 32], and then copy share i from tmp + i * tmp_s.  The    *)
(* codec is the CDCodec module; of its output only the sizes matter here:  *)
(* how many bytes caontRSEncoding stores into the share buffer and how     *)
(* many are read back from it.                                             *)
EXTENDS CDCodec

CONSTANTS
  NameSizes,   \* the namesize values main can pass (strlen + 1 >= 2)
  DownServer   \* down_server_index_ of the download

\* Names whose aligned size exceeds the codec's buffer make caontRSEncoding
\* return 0 with tmp_s unset; the names checked here all fit.
ASSUME \A s \in NameSizes : s >= 2 /\ AlignedSecretSize(s) <= alignedSecretBufferSize
ASSUME DownServer \in 0 .. n - 1

VARIABLES
  op,        \* "none", or the handler that ran: "upload" or "download"
  tmpSize,   \* size of the stack buffer tmp
  written,   \* bytes caontRSEncoding stored into tmp
  read,      \* end of the furthest byte read back from tmp
  sent       \* cloud -> size of the name share passed on for it (0: none)

vars == <<op, tmpSize, written, read, sent>>

Clouds == 0 .. n - 1

\* caontRSEncoding(name, nameSize, tmp, &tmp_s, key, true): tmp_s is the
\* share size; it copies the CAONT package (alignedSecretSize + W bytes, the
\* first k shares) to the share buffer and writes m parity shares after it.
NameShareSize(nameSize) == ShareSizeOf(AlignedSecretSize(nameSize))

NameBytesWritten(nameSize) ==
  AlignedSecretSize(nameSize) + W + m * NameShareSize(nameSize)

Init ==
  /\ op = "none"
  /\ tmpSize = 0
  /\ written = 0
  /\ read = 0
  /\ sent = [i \in Clouds |-> 0]

\* Encoder::collect_header: encode the name, set fullNameSize = tmp_s, and
\* for each of the n_ clouds memcpy share i into header.encoded_file_name
\* and hand the header to the uploader's data and meta queues.
collect_header(nameSize) ==
  LET tmp_s == NameShareSize(nameSize)
  IN /\ op = "none"
     /\ op' = "upload"
     /\ tmpSize' = nameSize * 32
     /\ written' = NameBytesWritten(nameSize)
     /\ read' = n * tmp_s
     /\ sent' = [i \in Clouds |-> tmp_s]

\* Downloader::preDownloadFile(filename, nameSize, numOfCloud = n + 1 of
\* main, the codec's n): encode the name, print numOfCloud * 32 bytes of
\* tmp as hex, and push share i to signalBuffer_[i] for every cloud but the
\* down one.
preDownloadFile(nameSize) ==
  LET tmp_s == NameShareSize(nameSize)
      pushed == Clouds \ {DownServer}
      ends == {n * 32} \cup {(i + 1) * tmp_s : i \in pushed}
  IN /\ op = "none"
     /\ op' = "download"
     /\ tmpSize' = nameSize * 32
     /\ written' = NameBytesWritten(nameSize)
     /\ read' = CHOOSE e \in ends : \A f \in ends : f <= e
     /\ sent' = [i \in Clouds |-> IF i \in pushed THEN tmp_s ELSE 0]

Done == op # "none" /\ UNCHANGED vars

Next ==
  \/ \E s \in NameSizes : collect_header(s) \/ preDownloadFile(s)
  \/ Done

Spec == Init /\ [][Next]_vars

-----------------------------------------------------------------------------
TypeOK ==
  /\ op \in {"none", "upload", "download"}
  /\ {tmpSize, written, read} \subseteq Nat
  /\ sent \in [Clouds -> Nat]

\* encoder.cc:552 and downloader.cc:616 size tmp as nameSize * 32 bytes,
\* "at least make sure it could fit encoded file name length": every byte
\* caontRSEncoding writes into tmp, and every byte read back from it by the
\* share copies and the hex dump, lies inside tmp.
NameSharesFitTmp == written <= tmpSize /\ read <= tmpSize
====
