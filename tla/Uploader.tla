------------------------------ MODULE Uploader ------------------------------
(***************************************************************************)
(* The Uploader (src/client/comm/uploader.cc) behind Encoder::collect.    *)
(* Uploader thread cloudIndex < n_ uploads metadata chunks from            *)
(* ringBufferMeta_[cloudIndex]; thread cloudIndex >= n_ uploads data      *)
(* shares from ringBuffer_[cloudIndex - UPLOAD_SERVER_NUMBER].  Each one   *)
(* batches items in its uploadMetaBuffer_ (a file header followed by one  *)
(* share entry per item) and its uploadContainer_, and sends a batch       *)
(* (performUpload) when the container would overflow, on the last share   *)
(* of the file and on the end indicator.  The file header is written into *)
(* every buffer by Encoder::collect_header, which main runs in a detached  *)
(* thread; headerArray_[cloudIndex] points at it.                          *)
(* A share's bytes are tagged with its ids and their offset in it; the   *)
(* server's status list (true = duplicate) is a choice made per share.    *)
(***************************************************************************)
EXTENDS Collector

CONSTANTS
  UPLOAD_BUFFER_SIZE,  \* uploader.hh: bytes of one uploadContainer_
  DataShareSize,       \* share_size of a data share, in bytes
  Observed             \* cloudIndex of the uploader threads whose steps are modelled

\* uploader.hh; the data threads index ringBuffer_ with it.
UPLOAD_SERVER_NUMBER == 5

ASSUME NumClouds = UPLOAD_SERVER_NUMBER

\* Uploader::total_: metadata threads 0 .. n-1, data threads n .. 2n-1.
Slots == 0 .. 2 * NumClouds - 1
IsMeta(s) == s < NumClouds
CloudOf(s) == IF IsMeta(s) THEN s ELSE s - UPLOAD_SERVER_NUMBER

ASSUME Observed \subseteq Slots

VARIABLES
  up,          \* up[s]: the state of uploader thread s (see UploaderInit)
  hIdx,        \* collect_header: uploader buffers it has written
  uploadDone,  \* done_ of every ringBuffer_ / ringBufferMeta_
  headerUB     \* some thread dereferenced an unset headerArray_ entry

uploaderVars == <<up, hIdx, uploadDone, headerUB>>

\* The queue thread s pops.
QueueOf(s) == IF IsMeta(s) THEN ringBufferMeta[s] ELSE ringBuffer[s - UPLOAD_SERVER_NUMBER]

\* fileShareMDHead_t as collect_header writes it.
NewHeader == [kind |-> "header", past |-> 0, coming |-> 0]

\* The state of one uploader thread:
\*   pc:   "loop", "sawDone" (read done_ = true), "exit"
\*   buf:  uploadMetaBuffer_ up to metaWP_
\*   hdr:  headerArray_[s] as a position in buf; 0 while never assigned
\*   wp:   containerWP_
\*   cont: the shares in uploadContainer_, in order: their ids, their size
\*         (shareSizeArray_, numOfShares_ = Len(cont)) and the duplicate
\*         bit the server will return for them
\*   sent: the batches performUpload sent
\*   accuData, accuUnique: container bytes submitted and bytes sent
\*   taken: the items popped (history)
UploaderInit(headerDone) ==
  /\ up = [s \in Slots |->
            [pc |-> "loop",
             buf |-> IF headerDone THEN <<NewHeader>> ELSE <<>>,
             hdr |-> IF headerDone THEN 1 ELSE 0,
             wp |-> 0, cont |-> <<>>, sent |-> <<>>, taken |-> <<>>,
             accuData |-> 0, accuUnique |-> 0]]
  /\ hIdx = IF headerDone THEN 2 * NumClouds ELSE 0
  /\ uploadDone = FALSE
  /\ headerUB = FALSE

(***************************************************************************)
(* Encoder::collect_header + Uploader::collect_header: for i in 0..n-1 the *)
(* header goes to data thread i + n, then to metadata thread i, at        *)
(* metaWP_, and headerArray_ is pointed at it.                             *)
(***************************************************************************)
HeaderOrder(k) == IF k % 2 = 0 THEN k \div 2 + NumClouds ELSE k \div 2

CollectHeader ==
  /\ hIdx < 2 * NumClouds
  /\ ~headerUB
  /\ LET s == HeaderOrder(hIdx) IN
       up' = [up EXCEPT ![s].buf = Append(@, NewHeader),
                        ![s].hdr = Len(up[s].buf) + 1]
  /\ hIdx' = hIdx + 1
  /\ UNCHANGED <<uploadDone, headerUB>>

(***************************************************************************)
(* What thread s sees of a popped item: copy_Chunk_to_Item for data, the  *)
(* ItemMeta_t itself for metadata (shareSize from assignMetaShareHeader). *)
(***************************************************************************)
ItemOf(s, x) ==
  IF IsMeta(s)
  THEN [type |-> x.type, secretID |-> x.secretID, shareID |-> x.shareID,
        km |-> x.kmCloudIndex, size |-> SizeofInt + Len(x.nodes) * SizeofMetaNode]
  ELSE [type |-> IF x.end = 1 THEN SHARE_END ELSE SHARE_OBJECT,
        secretID |-> x.chunk_id, shareID |-> x.share_id,
        km |-> x.kmCloudIndex, size |-> DataShareSize]

EndIndicator(s) ==
  IF IsMeta(s) THEN META_SECRET_ID_END_INDICATOR ELSE DATA_SECRET_ID_END_INDICATOR

\* "fake data -> exit thread" (pthread_exit without an upload)
IsFake(s, it) == it.km = CloudOf(s) /\ it.type = SHARE_END /\ it.secretID = 0

\* uploadContainer_ up to containerWP_: the shares' bytes as memcpy put
\* them there, byte j of share x being <<x's ids, j>>.
ContainerBytes(cont) ==
  FlattenSeq([k \in 1 .. Len(cont) |-> [j \in 1 .. cont[k].size |-> <<cont[k].id, j>>]])

\* memcpy(temp, c + from, n); memcpy(c + to, temp, n)
MoveBytes(c, from, to, n) ==
  [k \in DOMAIN c |-> IF to < k /\ k <= to + n THEN c[from + k - to] ELSE c[k]]

\* Fault variant: containerIndex advances only past the shares kept.
RECURSIVE CompactNoSkip(_, _, _, _, _, _)
CompactNoSkip(c, sizes, statusList, i, containerIndex, indexCount) ==
  IF i > Len(sizes) THEN [c |-> c, containerIndex |-> containerIndex, indexCount |-> indexCount]
  ELSE IF ~statusList[i]
       THEN CompactNoSkip(MoveBytes(c, containerIndex, indexCount, sizes[i]), sizes, statusList,
                          i + 1, containerIndex + sizes[i], indexCount + sizes[i])
       ELSE CompactNoSkip(c, sizes, statusList, i + 1, containerIndex, indexCount)

\* The loop of performUpload step 3, from share i on: a share whose status
\* is 0 is moved down to indexCount; containerIndex passes every share.
RECURSIVE Compact(_, _, _, _, _, _)
Compact(c, sizes, statusList, i, containerIndex, indexCount) ==
  IF i > Len(sizes) THEN [c |-> c, containerIndex |-> containerIndex, indexCount |-> indexCount]
  ELSE IF ~statusList[i]
       THEN Compact(MoveBytes(c, containerIndex, indexCount, sizes[i]), sizes, statusList,
                    i + 1, containerIndex + sizes[i], indexCount + sizes[i])
       ELSE Compact(c, sizes, statusList, i + 1, containerIndex + sizes[i], indexCount)

\* performUpload: send the metadata buffer, get the status list back,
\* compact the container by it, add to accuData_ and accuUnique_, and
\* send the first indexCount bytes of the container.  The container's
\* buffers and counters are left as they are (updateHeader resets them).
performUpload(u) ==
  LET r == Compact(ContainerBytes(u.cont), [k \in 1 .. Len(u.cont) |-> u.cont[k].size],
                   [k \in 1 .. Len(u.cont) |-> u.cont[k].dup], 1, 0, 0)
  IN [u EXCEPT !.sent = Append(@, [meta |-> u.buf,
                                   shares |-> u.cont,
                                   data |-> SubSeq(r.c, 1, r.indexCount)]),
               !.accuData = @ + r.containerIndex,
               !.accuUnique = @ + r.indexCount]

\* Fault variant: the coming counts are cleared without being added to the
\* past ones.
updateHeaderKeepPast(u) ==
  LET h == [u.buf[u.hdr] EXCEPT !.coming = 0]
  IN [u EXCEPT !.buf = <<h>>, !.wp = 0, !.cont = <<>>]

\* updateHeader: fold the coming counts into the past ones, empty both
\* buffers and copy the header to the front of the metadata buffer.
updateHeader(u) ==
  LET h == [u.buf[u.hdr] EXCEPT !.past = @ + u.buf[u.hdr].coming, !.coming = 0]
  IN [u EXCEPT !.buf = <<h>>, !.wp = 0, !.cont = <<>>]

\* Fault variant: no overflow check before the copy into the container.
AddShareNoFlush(u, it, dup) ==
  LET u2 == [u EXCEPT !.buf  = Append(@, [kind |-> "entry", secretID |-> it.secretID,
                                            shareID |-> it.shareID]),
                      !.cont = Append(@, [id |-> <<it.secretID, it.shareID>>,
                                                size |-> it.size, dup |-> dup]),
                      !.wp   = @ + it.size]
      u3 == [u2 EXCEPT !.buf[u2.hdr].coming = @ + 1]
  IN IF it.type = SHARE_END THEN performUpload(u3) ELSE u3

\* Fault variant: the last share of the file is buffered but not uploaded.
AddShareNoFinalUpload(u, it, dup) ==
  LET u1 == IF it.size + u.wp > UPLOAD_BUFFER_SIZE THEN updateHeader(performUpload(u)) ELSE u
      u2 == [u1 EXCEPT !.buf  = Append(@, [kind |-> "entry", secretID |-> it.secretID,
                                             shareID |-> it.shareID]),
                       !.cont = Append(@, [id |-> <<it.secretID, it.shareID>>,
                                                size |-> it.size, dup |-> dup]),
                       !.wp   = @ + it.size]
  IN [u2 EXCEPT !.buf[u2.hdr].coming = @ + 1]

\* One share item: flush first if it does not fit, copy its entry and its
\* data, count it in the header, upload if it is the file's last share.
AddShare(u, it, dup) ==
  LET u1 == IF it.size + u.wp > UPLOAD_BUFFER_SIZE THEN updateHeader(performUpload(u)) ELSE u
      u2 == [u1 EXCEPT !.buf  = Append(@, [kind |-> "entry", secretID |-> it.secretID,
                                             shareID |-> it.shareID]),
                       !.cont = Append(@, [id |-> <<it.secretID, it.shareID>>,
                                                size |-> it.size, dup |-> dup]),
                       !.wp   = @ + it.size]
      u3 == [u2 EXCEPT !.buf[u2.hdr].coming = @ + 1]
  IN IF it.type = SHARE_END THEN performUpload(u3) ELSE u3

\* Pop from thread s's queue: ringBufferMeta_[s] or ringBuffer_[s - 5].
PopQueue(s) ==
  IF IsMeta(s)
  THEN /\ ringBufferMeta' = [ringBufferMeta EXCEPT ![s] = Tail(@)]
       /\ UNCHANGED ringBuffer
  ELSE /\ ringBuffer' = [ringBuffer EXCEPT ![s - UPLOAD_SERVER_NUMBER] = Tail(@)]
       /\ UNCHANGED ringBufferMeta

(***************************************************************************)
(* thread_handler (data) and thread_handler_meta: the loop body after a   *)
(* successful pop.  The two handlers differ only in their queue, their end *)
(* indicator, the shareSize of an item and performUpload's end flag.      *)
(***************************************************************************)
UploaderPop(s) ==
  LET it == ItemOf(s, Head(QueueOf(s)))
      u0 == [up[s] EXCEPT !.pc = "loop", !.taken = Append(@, it)]
  IN
  /\ s \in Observed
  /\ ~headerUB
  /\ up[s].pc \in {"loop", "sawDone"}
  /\ QueueOf(s) # <<>>
  /\ PopQueue(s)
     \* fake data, or the end indicator after a last performUpload: leave
  /\ \/ /\ IsFake(s, it) \/ it.secretID = EndIndicator(s)
        /\ up' = [up EXCEPT ![s] = [IF IsFake(s, it) THEN u0 ELSE performUpload(u0)
                                    EXCEPT !.pc = "exit"]]
        /\ UNCHANGED headerUB
     \* a share; if headerArray_[s] was never assigned, its use is
     \* undefined behaviour and the thread goes no further (after a
     \* performUpload if the container was full)
     \/ /\ ~IsFake(s, it)
        /\ it.secretID # EndIndicator(s)
        /\ headerUB' = (up[s].hdr = 0)
        /\ \E dup \in BOOLEAN :
           up' = [up EXCEPT ![s] =
                    IF up[s].hdr # 0 THEN AddShare(u0, it, dup)
                      ELSE IF it.size + u0.wp > UPLOAD_BUFFER_SIZE THEN performUpload(u0)
                      ELSE u0]
  /\ UNCHANGED <<hIdx, uploadDone>>

\* The exit test done_ && is_empty(), read in that order.
UploaderReadDone(s) ==
  /\ s \in Observed
  /\ ~headerUB
  /\ up[s].pc = "loop"
  /\ uploadDone
  /\ up' = [up EXCEPT ![s].pc = "sawDone"]
  /\ UNCHANGED <<ringBuffer, ringBufferMeta, hIdx, uploadDone, headerUB>>

UploaderReadEmpty(s) ==
  /\ s \in Observed
  /\ ~headerUB
  /\ up[s].pc = "sawDone"
  /\ QueueOf(s) = <<>>
  /\ up' = [up EXCEPT ![s].pc = "exit"]
  /\ UNCHANGED <<ringBuffer, ringBufferMeta, hIdx, uploadDone, headerUB>>

UploaderThread(s) == UploaderPop(s) \/ UploaderReadDone(s) \/ UploaderReadEmpty(s)

-----------------------------------------------------------------------------
Entries(b) == SelectSeq(b.meta, LAMBDA e : e.kind = "entry")
EntryIds(es) == [k \in 1 .. Len(es) |-> <<es[k].secretID, es[k].shareID>>]
\* Entries of the first n batches thread s sent.
SentEntries(s, n) == FlattenSeq([j \in 1 .. n |-> Entries(up[s].sent[j])])
\* The items thread s popped that are shares (neither end indicator nor fake).
RealTaken(s) ==
  SelectSeq(up[s].taken, LAMBDA it : it.secretID # EndIndicator(s) /\ ~IsFake(s, it))

\* Every batch an uploader thread sends starts with the file header and
\* then lists only share entries; the header's numOfComingSecrets counts
\* this batch's entries and numOfPastSecrets those of all earlier batches
\* (updateHeader); the container holds exactly the listed shares.
BatchHeaders ==
  \A s \in Observed : \A i \in 1 .. Len(up[s].sent) :
    LET b == up[s].sent[i] IN
    /\ b.meta # <<>>
    /\ b.meta[1].kind = "header"
    /\ Entries(b) = Tail(b.meta)
    /\ b.meta[1].coming = Len(Entries(b))
    /\ b.meta[1].past = Len(SentEntries(s, i - 1))
    /\ [k \in 1 .. Len(b.shares) |-> b.shares[k].id] = EntryIds(Entries(b))

\* performUpload's compaction: every batch sends exactly the bytes of the
\* shares the server did not mark duplicate, each share whole and in
\* entry order, and accuData_ / accuUnique_ count all the container bytes
\* and all the bytes sent, over every batch of the thread.
UniqueDataSent ==
  \A s \in Observed :
    LET B == up[s].sent
        Total(f(_)) == FoldLeft(LAMBDA acc, b : acc + f(b), 0, B)
    IN
    /\ \A i \in 1 .. Len(B) :
         B[i].data = ContainerBytes(SelectSeq(B[i].shares, LAMBDA x : ~x.dup))
    /\ up[s].accuUnique = Total(LAMBDA b : Len(b.data))
    /\ up[s].accuData = Total(LAMBDA b : Len(ContainerBytes(b.shares)))

\* An uploader thread that has left its loop has drained its queue and
\* sent every share it popped, once, in the order it popped them: no
\* share waits in the buffers when the thread ends.
UploadedOnExit ==
  \A s \in Observed :
    up[s].pc = "exit" =>
      /\ QueueOf(s) = <<>>
      /\ EntryIds(SentEntries(s, Len(up[s].sent))) =
           [k \in 1 .. Len(RealTaken(s)) |-> <<RealTaken(s)[k].secretID, RealTaken(s)[k].shareID>>]

\* No uploader thread uses headerArray_[cloudIndex] before collect_header
\* has set it.
NoHeaderUseBeforeSet == ~headerUB
====
