---------------------------- MODULE MCDownloader ----------------------------
(***************************************************************************)
(* Model-checking instance of Downloader: every file of up to MaxSecrets  *)
(* secrets, with every segmentation and every KM cloud per segment.        *)
(***************************************************************************)
EXTENDS Downloader

CONSTANTS MaxSecrets

\* Files of n secrets: segment ids start at 0 and grow by at most one per
\* secret, and all secrets of a segment share its KM cloud.
LayoutsOf(n) ==
  {l \in [1 .. n -> [segID : 0 .. n - 1, km : DClouds]] :
     /\ l[1].segID = 0
     /\ \A s \in 1 .. n - 1 :
          \/ l[s + 1].segID = l[s].segID /\ l[s + 1].km = l[s].km
          \/ l[s + 1].segID = l[s].segID + 1}

AllLayouts == UNION {LayoutsOf(n) : n \in 1 .. MaxSecrets}

Init == DecoderInit /\ DownloaderInit(Layouts)

\* Every thread has returned; main is in indicateEnd.
Finished ==
  /\ mainPc = "done" /\ colExit
  /\ \A c \in Live : metaPc[c] = "done" /\ dataPc[c] = "done"
  /\ UNCHANGED vars

Next == DownloaderNext \/ Finished

Spec == Init /\ [][Next]_vars /\ DownloaderFairness

TypeOK ==
  /\ mainPc \in {"pre", "download", "waiting", "signal", "headers", "assemble", "done"}
  /\ metaPc \in [DClouds -> {"wait", "listed", "done"}]
  /\ dataPc \in [DClouds -> {"wait", "run", "done"}]
  /\ server_mutex_num \in 0 .. DOWNLOAD_SERVER_NUMBER - DownNum
  /\ mi \in 0 .. DOWNLOAD_SERVER_NUMBER
  /\ \A c \in DClouds : Len(ringBuffer[c]) <= DOWNLOAD_QUEUE_SIZE
  /\ \A i \in DLanes : Len(inputbuffer[i]) <= DECODE_QUEUE_SIZE
                       /\ Len(outputbuffer[i]) <= DECODE_QUEUE_SIZE
  /\ Len(held) <= DOWNLOAD_SERVER_NUMBER
  /\ decPc \in [DLanes -> {"loop", "sawDone", "exit"}]
====
