----------------------------- MODULE Downloader -----------------------------
(***************************************************************************)
(* The download path of the client (src/client/main.cc -d,                *)
(* src/client/comm/downloader.cc): one metadata thread and one data       *)
(* thread per available cloud, and main, which runs preDownloadFile and   *)
(* downloadFile: it waits on cv_mutex for the metadata threads, starts    *)
(* the data threads, takes the file header from every cloud, and then     *)
(* assembles each secret from the clouds' queues, guided by the MetaLists,*)
(* handing it to the Decoder.                                              *)
(*                                                                         *)
(* The server side of a restore lives in DedupCore, whose implementation   *)
(* is not in the repository; what a server returns (ServedShares,         *)
(* ServedMetaList) is modelled from spec.md 4.6-4.7: cloud c holds share  *)
(* (c - km - 1) mod N of every secret of a segment whose KM cloud km is   *)
(* not c, and a server told it is the last-share server replaces its     *)
(* "4-th" share (share id NumRestore) by a placeholder with share id -1.  *)
(* A secret is one byte (secretSize 1), so fileSize is the secret count.  *)
(***************************************************************************)
EXTENDS Decoder

CONSTANTS
  DOWNLOAD_SERVER_NUMBER, \* downloader.hh: 5 clouds (total = n + 1)
  NumRestore,             \* numOfRestoreServer = k (NUM_OF_SHARES_NEEDED 3)
  DownNum,                \* down_server_num (main.cc: 1)
  DownChoices,            \* down_server_index values main may be built with
  DOWNLOAD_QUEUE_SIZE,    \* capacity of ringBuffer_[i]
  Layouts,                \* files: Seq of [segID, km] per secret
  WaitBeforeNotify        \* the meta threads finish only once main waits

DClouds == 0 .. DOWNLOAD_SERVER_NUMBER - 1

ASSUME DownChoices \subseteq DClouds /\ NumRestore \in 1 .. DOWNLOAD_SERVER_NUMBER

\* indicators of the meta reply and of the header item
FakeHeader == -1
Placeholder == -1

VARIABLES
  layout,          \* the stored file (fixed)
  down,            \* down_server_index_ (fixed)
  serverSpecial,   \* DedupCore::last_share_on_server_ of each server
  metaSig,         \* signalBuffer_[c] of the meta thread of c holds a signal
  metaPc,          \* meta thread of c: "wait", "listed", "done"
  metaList,        \* meta_list_buffer_[c] as received
  server_mutex_num,
  dataSig,         \* signalBuffer_[c + N] holds a signal
  dataPc,          \* data thread of c: "wait", "run", "done"
  stream,          \* items the server returns to the data thread of c
  sent,            \* items of stream[c] pushed so far (count)
  ringBuffer,      \* ringBuffer_[c]
  mainPc,          \* "pre", "download", "waiting", "signal", "headers",
                   \* "assemble", "done"
  mi,              \* the loop index i of downloadFile's current loop
  fakeIndex, fileSize,
  secretID, countSize, dcount,      \* downloadFile's secretID, countSize, count
  segID, loopNum, cur,             \* segID[], meta_list_loop_num[], meta_list_array[]
  kShareIDList,                    \* kept across secrets, as in the code
  held,            \* share ids copied into shareBuffer for this secret
  secretSize,
  added            \* history: every package downloadFile added to the Decoder

downloaderVars == <<layout, down, serverSpecial, metaSig, metaPc, metaList,
                    server_mutex_num, dataSig, dataPc, stream, sent, ringBuffer,
                    mainPc, mi, fakeIndex, fileSize, secretID, countSize, dcount,
                    segID, loopNum, cur, kShareIDList, held, secretSize, added>>
vars == <<downloaderVars, decoderVars>>

Live == DClouds \ {down}
NumSecrets == Len(layout)

-----------------------------------------------------------------------------
(***************************************************************************)
(* What a server returns for the file (spec.md 4.6, 4.7).                 *)
(***************************************************************************)
ShareOf(c, km) == (c - km - 1) % DOWNLOAD_SERVER_NUMBER

\* The recipe entries of cloud c, in secret order, as shareEntry_t.
ServedShares(c, special) ==
  LET S == SelectSeq([s \in 1 .. NumSecrets |-> s], LAMBDA s : layout[s].km # c)
      id(s) == IF special /\ ShareOf(c, layout[s].km) = NumRestore
               THEN Placeholder ELSE ShareOf(c, layout[s].km)
  IN [j \in 1 .. Len(S) |-> [secretID |-> S[j] - 1, segID |-> layout[S[j]].segID,
                            shareID |-> id(S[j])]]

\* The MetaList: one {id, shareID, end_secretID} per run of equal
\* (segID, shareID) in the served entries.
ServedMetaList(c, special) ==
  LET E == ServedShares(c, special)
      ends == SelectSeq([j \in 1 .. Len(E) |-> j],
                LAMBDA j : j = Len(E) \/ E[j + 1].segID # E[j].segID
                                      \/ E[j + 1].shareID # E[j].shareID)
  IN [r \in 1 .. Len(ends) |-> [id |-> E[ends[r]].segID, shareID |-> E[ends[r]].shareID,
                               end_secretID |-> E[ends[r]].secretID]]

\* A MetaList entry read past the received ones: the buffer is zeroed.
ZeroMetaList == [id |-> 0, shareID |-> 0, end_secretID |-> 0]

-----------------------------------------------------------------------------
DownloaderInit(lays) ==
  /\ layout \in lays
  /\ down \in DownChoices
  /\ serverSpecial = [c \in DClouds |-> FALSE]
  /\ metaSig = [c \in DClouds |-> FALSE]
  /\ metaPc = [c \in DClouds |-> "wait"]
  /\ metaList = [c \in DClouds |-> <<>>]
  /\ server_mutex_num = DOWNLOAD_SERVER_NUMBER - DownNum
  /\ dataSig = [c \in DClouds |-> FALSE]
  /\ dataPc = [c \in DClouds |-> "wait"]
  /\ stream = [c \in DClouds |-> <<>>]
  /\ sent = [c \in DClouds |-> 0]
  /\ ringBuffer = [c \in DClouds |-> <<>>]
  /\ mainPc = "pre"
  /\ mi = 0
  /\ fakeIndex = -1
  /\ fileSize = 0
  /\ secretID = 0
  /\ countSize = 0
  /\ dcount = 0
  /\ segID = [c \in DClouds |-> -1]
  /\ loopNum = [c \in DClouds |-> 0]
  /\ cur = [c \in DClouds |-> ZeroMetaList]
  /\ kShareIDList = [j \in 0 .. NumRestore - 1 |-> 0]
  /\ held = <<>>
  /\ secretSize = 0
  /\ added = <<>>

-----------------------------------------------------------------------------
(***************************************************************************)
(* The metadata thread of cloud c (thread_handler_meta).                   *)
(***************************************************************************)
\* Fault variant: the down server's index itself is named.
LastShareServerIDNoShift == down % DOWNLOAD_SERVER_NUMBER

\* last_share_server_ID: the cloud holding the share a k-th helper would
\* otherwise add when the down server was the segment's KM cloud.
LastShareServerID ==
  (down - DownNum + DOWNLOAD_SERVER_NUMBER) % DOWNLOAD_SERVER_NUMBER

\* Pop the signal, send INIT_REQUEST with the special indicator (the
\* server sets, never clears, its flag: server.cc), and receive the
\* MetaList (download_meta_list) and the recipe indicator.
MetaStart(c) ==
  LET special == serverSpecial[c] \/ LastShareServerID = c IN
  /\ c \in Live
  /\ metaPc[c] = "wait"
  /\ metaSig[c]
  /\ metaSig' = [metaSig EXCEPT ![c] = FALSE]
  /\ serverSpecial' = [serverSpecial EXCEPT ![c] = special]
  /\ metaList' = [metaList EXCEPT ![c] = ServedMetaList(c, special)]
  /\ metaPc' = [metaPc EXCEPT ![c] = "listed"]
  /\ UNCHANGED <<layout, down, server_mutex_num, dataSig, dataPc, stream, sent,
                 ringBuffer, mainPc, mi, fakeIndex, fileSize, secretID, countSize,
                 dcount, segID, loopNum, cur, kShareIDList, held, secretSize,
                 added, decoderVars>>

\* Under count_mutex: --server_mutex_num, and notify_one at zero.  The
\* notification wakes main only if main is already in cv_mutex.wait.
MetaFinish(c) ==
  /\ metaPc[c] = "listed"
  /\ WaitBeforeNotify => mainPc = "waiting"
  /\ server_mutex_num' = server_mutex_num - 1
  /\ mainPc' = IF server_mutex_num' = 0 /\ mainPc = "waiting" THEN "signal" ELSE mainPc
  /\ metaPc' = [metaPc EXCEPT ![c] = "done"]
  /\ UNCHANGED <<layout, down, serverSpecial, metaSig, metaList, dataSig, dataPc,
                 stream, sent, ringBuffer, mi, fakeIndex, fileSize, secretID,
                 countSize, dcount, segID, loopNum, cur, kShareIDList, held,
                 secretSize, added, decoderVars>>

-----------------------------------------------------------------------------
(***************************************************************************)
(* The data thread of cloud c (thread_handler).  Container framing is     *)
(* abstracted: the thread pushes the items the server returns, one by one.*)
(***************************************************************************)
Item(type, fs, e) ==
  [type |-> type, fileSize |-> fs, secretID |-> e.secretID, segID |-> e.segID,
   shareID |-> e.shareID]
NoEntry == [secretID |-> -1, segID |-> -1, shareID |-> -1]

\* initDownload and the first downloadChunk: retSize 0 (no data chunks
\* found) pushes a fake header (type -1); otherwise the file header.
DataStart(c) ==
  LET S == ServedShares(c, serverSpecial[c]) IN
  /\ c \in Live
  /\ dataPc[c] = "wait"
  /\ dataSig[c]
  /\ Len(ringBuffer[c]) < DOWNLOAD_QUEUE_SIZE
  /\ dataSig' = [dataSig EXCEPT ![c] = FALSE]
  /\ ringBuffer' = [ringBuffer EXCEPT ![c] =
                      Append(@, IF S = <<>> THEN Item(FakeHeader, 0, NoEntry)
                                            ELSE Item(0, NumSecrets, NoEntry))]
  /\ stream' = [stream EXCEPT ![c] = S]
  /\ dataPc' = [dataPc EXCEPT ![c] = IF S = <<>> THEN "done" ELSE "run"]
  /\ UNCHANGED <<layout, down, serverSpecial, metaSig, metaPc, metaList,
                 server_mutex_num, sent, mainPc, mi, fakeIndex, fileSize, secretID,
                 countSize, dcount, segID, loopNum, cur, kShareIDList, held,
                 secretSize, added, decoderVars>>

\* Fault variant: the item is appended without waiting for room.
DataPushNoSpaceCheck(c) ==
  /\ dataPc[c] = "run"
  /\ ringBuffer' = [ringBuffer EXCEPT ![c] = Append(@, Item(1, 0, stream[c][sent[c] + 1]))]
  /\ sent' = [sent EXCEPT ![c] = @ + 1]
  /\ dataPc' = [dataPc EXCEPT ![c] = IF sent'[c] = Len(stream[c]) THEN "done" ELSE "run"]
  /\ UNCHANGED <<layout, down, serverSpecial, metaSig, metaPc, metaList,
                 server_mutex_num, dataSig, stream, mainPc, mi, fakeIndex, fileSize,
                 secretID, countSize, dcount, segID, loopNum, cur, kShareIDList,
                 held, secretSize, added, decoderVars>>

\* Push the next share (push spins while the queue is full); stop when
\* count == numOfChunk.
DataPush(c) ==
  /\ dataPc[c] = "run"
  /\ Len(ringBuffer[c]) < DOWNLOAD_QUEUE_SIZE
  /\ ringBuffer' = [ringBuffer EXCEPT ![c] = Append(@, Item(1, 0, stream[c][sent[c] + 1]))]
  /\ sent' = [sent EXCEPT ![c] = @ + 1]
  /\ dataPc' = [dataPc EXCEPT ![c] = IF sent'[c] = Len(stream[c]) THEN "done" ELSE "run"]
  /\ UNCHANGED <<layout, down, serverSpecial, metaSig, metaPc, metaList,
                 server_mutex_num, dataSig, stream, mainPc, mi, fakeIndex, fileSize,
                 secretID, countSize, dcount, segID, loopNum, cur, kShareIDList,
                 held, secretSize, added, decoderVars>>

-----------------------------------------------------------------------------
(***************************************************************************)
(* main: preDownloadFile, then downloadFile.                               *)
(***************************************************************************)
mainLocals == <<mi, fakeIndex, fileSize, secretID, countSize, dcount, segID, loopNum,
                cur, kShareIDList, held, secretSize, added>>

\* preDownloadFile: a signal for the meta thread of every live cloud.
PreDownload ==
  /\ mainPc = "pre"
  /\ metaSig' = [c \in DClouds |-> c \in Live]
  /\ mainPc' = "download"
  /\ UNCHANGED <<layout, down, serverSpecial, metaPc, metaList, server_mutex_num,
                 dataSig, dataPc, stream, sent, ringBuffer, mainLocals, decoderVars>>

\* downloadFile: lock m_mutex and cv_mutex.wait(locker), with no predicate.
EnterWait ==
  /\ mainPc = "download"
  /\ mainPc' = "waiting"
  /\ UNCHANGED <<layout, down, serverSpecial, metaSig, metaPc, metaList,
                 server_mutex_num, dataSig, dataPc, stream, sent, ringBuffer,
                 mainLocals, decoderVars>>

\* Woken: a signal for the data thread of every live cloud.
SignalData ==
  /\ mainPc = "signal"
  /\ dataSig' = [c \in DClouds |-> c \in Live]
  /\ mainPc' = "headers"
  /\ mi' = 0
  /\ UNCHANGED <<layout, down, serverSpecial, metaSig, metaPc, metaList,
                 server_mutex_num, dataPc, stream, sent, ringBuffer, fakeIndex,
                 fileSize, secretID, countSize, dcount, segID, loopNum, cur,
                 kShareIDList, held, secretSize, added, decoderVars>>

\* Pop the header of cloud mi (spinning on is_empty); a fake one sets
\* fakeIndex.  Every real header carries the same fileSize.
PopHeader ==
  /\ mainPc = "headers"
  /\ mi \in DClouds
  /\ mi # down => ringBuffer[mi] # <<>>
  /\ IF mi = down
     THEN UNCHANGED <<ringBuffer, fakeIndex, fileSize>>
     ELSE LET h == Head(ringBuffer[mi]) IN
          /\ ringBuffer' = [ringBuffer EXCEPT ![mi] = Tail(@)]
          /\ fakeIndex' = IF h.type = FakeHeader THEN mi ELSE fakeIndex
          /\ fileSize' = IF h.type = FakeHeader THEN fileSize ELSE h.fileSize
  /\ mi' = mi + 1
  /\ UNCHANGED <<layout, down, serverSpecial, metaSig, metaPc, metaList,
                 server_mutex_num, dataSig, dataPc, stream, sent, mainPc, secretID,
                 countSize, dcount, segID, loopNum, cur, kShareIDList, held,
                 secretSize, added, decoderVars>>

\* setFileSize, then the while (countSize < fileSize) test.
HeadersDone ==
  /\ mainPc = "headers"
  /\ mi = DOWNLOAD_SERVER_NUMBER
  /\ totalFileSize' = fileSize
  /\ mi' = 0
  /\ IF countSize < fileSize
     THEN mainPc' = "assemble" /\ UNCHANGED inDone
     ELSE mainPc' = "done" /\ inDone' = [i \in DLanes |-> TRUE]
  /\ UNCHANGED <<layout, down, serverSpecial, metaSig, metaPc, metaList,
                 server_mutex_num, dataSig, dataPc, stream, sent, ringBuffer,
                 fakeIndex, fileSize, secretID, countSize, dcount, segID, loopNum,
                 cur, kShareIDList, held, secretSize, added, inputbuffer,
                 outputbuffer, outDone, decPc, jobDone, loopIndex, wbuf, colCount,
                 colExit, written>>

\* The cloud is not read for this secret: the down cloud, the cloud with
\* the fake header, or a cloud whose MetaLists are all extracted and whose
\* last one ends before secretID.
Exhausted(i) == loopNum[i] = Len(metaList[i]) /\ secretID > cur[i].end_secretID

\* Fault variant: the exhausted-MetaList test is left out.
SkipCloudNoMetaTest == mi = down \/ mi = fakeIndex

SkipCloud ==
  mi = down \/ mi = fakeIndex \/ Exhausted(mi)

AssembleSkip ==
  /\ mainPc = "assemble"
  /\ mi \in DClouds
  /\ SkipCloud
  /\ mi' = mi + 1
  /\ UNCHANGED <<layout, down, serverSpecial, metaSig, metaPc, metaList,
                 server_mutex_num, dataSig, dataPc, stream, sent, ringBuffer, mainPc,
                 fakeIndex, fileSize, secretID, countSize, dcount, segID, loopNum,
                 cur, kShareIDList, held, secretSize, added, decoderVars>>

\* read() (spinning until the queue is not empty) the head item of cloud
\* mi.  Another secret's share: skip.  Otherwise extract the next MetaList
\* when the segment changed, pop it, drop a placeholder, and copy a share
\* into shareBuffer with its MetaList shareID in kShareIDList (a write at
\* index >= k is out of the vector's bounds and is not represented).
AssembleRead ==
  LET i == mi
      h == Head(ringBuffer[i])
      newSeg == h.segID # segID[i]
      ml == IF loopNum[i] < Len(metaList[i]) THEN metaList[i][loopNum[i] + 1]
            ELSE ZeroMetaList
      c2 == IF newSeg THEN ml ELSE cur[i]
      idx == Len(held)
  IN
  /\ mainPc = "assemble"
  /\ i \in DClouds
  /\ ~SkipCloud
  /\ ringBuffer[i] # <<>>
  /\ mi' = mi + 1
  /\ IF h.secretID # secretID
     THEN UNCHANGED <<ringBuffer, segID, loopNum, cur, kShareIDList, held, secretSize>>
     ELSE /\ cur' = [cur EXCEPT ![i] = c2]
          /\ loopNum' = [loopNum EXCEPT ![i] = IF newSeg THEN @ + 1 ELSE @]
          /\ segID' = [segID EXCEPT ![i] = c2.id]
          /\ ringBuffer' = [ringBuffer EXCEPT ![i] = Tail(@)]
          /\ IF h.shareID = Placeholder
             THEN UNCHANGED <<kShareIDList, held, secretSize>>
             ELSE /\ kShareIDList' = IF c2.shareID # -1 /\ idx < NumRestore
                                     THEN [kShareIDList EXCEPT ![idx] = c2.shareID]
                                     ELSE kShareIDList
                  /\ held' = Append(held, h.shareID)
                  /\ secretSize' = 1
  /\ UNCHANGED <<layout, down, serverSpecial, metaSig, metaPc, metaList,
                 server_mutex_num, dataSig, dataPc, stream, sent, mainPc, fakeIndex,
                 fileSize, secretID, countSize, dcount, added, decoderVars>>

\* After the last cloud: decodeObj_->add(package, count % DECODE_NUM_THREADS),
\* ++secretID, ++count, and the loop test; leaving the loop calls
\* set_job_done on every decoder lane.
AssembleEnd ==
  LET lane == dcount % DECODE_NUM_THREADS
      pkg == [secretID |-> secretID, secretSize |-> secretSize,
              kShareIDList |-> kShareIDList, shares |-> held]
      cs == countSize + secretSize
  IN
  /\ mainPc = "assemble"
  /\ mi = DOWNLOAD_SERVER_NUMBER
  /\ Len(inputbuffer[lane]) < DECODE_QUEUE_SIZE
  /\ inputbuffer' = [inputbuffer EXCEPT ![lane] = Append(@, pkg)]
  /\ added' = Append(added, pkg)
  /\ countSize' = cs
  /\ secretID' = secretID + 1
  /\ dcount' = dcount + 1
  /\ mi' = 0
  /\ held' = <<>>
  /\ secretSize' = 0
  /\ IF cs < fileSize
     THEN UNCHANGED <<mainPc, inDone>>
     ELSE mainPc' = "done" /\ inDone' = [i \in DLanes |-> TRUE]
  /\ UNCHANGED <<layout, down, serverSpecial, metaSig, metaPc, metaList,
                 server_mutex_num, dataSig, dataPc, stream, sent, ringBuffer,
                 fakeIndex, fileSize, segID, loopNum, cur, kShareIDList,
                 outputbuffer, outDone, decPc, totalFileSize, jobDone, loopIndex,
                 wbuf, colCount, colExit, written>>

MainThread ==
  PreDownload \/ EnterWait \/ SignalData \/ PopHeader \/ HeadersDone
    \/ AssembleSkip \/ AssembleRead \/ AssembleEnd

DownloaderNext ==
  \/ MainThread
  \/ \E c \in DClouds : MetaStart(c) \/ MetaFinish(c) \/ DataStart(c) \/ DataPush(c)
  \/ \E i \in DLanes : DecoderThread(i) /\ UNCHANGED downloaderVars
  \/ CollectThread /\ UNCHANGED downloaderVars

DownloaderFairness ==
  /\ WF_vars(MainThread)
  /\ \A c \in DClouds : WF_vars(MetaStart(c) \/ MetaFinish(c))
                          /\ WF_vars(DataStart(c) \/ DataPush(c))
  /\ \A i \in DLanes : WF_vars(DecoderThread(i) /\ UNCHANGED downloaderVars)
  /\ WF_vars(CollectThread /\ UNCHANGED downloaderVars)

-----------------------------------------------------------------------------
(***************************************************************************)
(* Properties.                                                             *)
(***************************************************************************)
\* Every package downloadFile hands to the Decoder is the next secret, made
\* of exactly k real shares, and its kShareIDList (taken from the MetaLists)
\* names the shares in shareBuffer in the order they were copied.  This
\* needs the last-share server to drop exactly the share a k+1-th cloud
\* would add, the data to be requested only after every server got its
\* special flag, and the read/skip logic of downloadFile to pick each
\* cloud's share of the right secret.
DecodeInputsValid ==
  \A j \in 1 .. Len(added) :
    LET p == added[j] IN
    /\ p.secretID = j - 1
    /\ Len(p.shares) = NumRestore
    /\ \A x \in 0 .. NumRestore - 1 : p.kShareIDList[x] = p.shares[x + 1]

\* Decoder::collect writes the secrets in the order downloadFile produced
\* them, and when it leaves its loop the output file holds every secret.
FileRestored ==
  /\ IsPrefix(written, added)
  /\ colExit => written = added /\ Len(added) = NumSecrets

\* The download finishes: downloadFile returns and Decoder::collect, which
\* main joins in Decoder::indicateEnd, leaves its loop.
DownloadTerminates == <>(mainPc = "done" /\ colExit)

====
