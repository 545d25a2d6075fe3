----------------------------- MODULE Collector -----------------------------
(***************************************************************************)
(* The dispatching half of Encoder::collect (src/client/coding/encoder.cc).*)
(* For each encoded chunk, in chunk order, the collector                   *)
(*   - closes the metadata chunks of the previous segment when the        *)
(*     segment id changes,                                                 *)
(*   - walks the N clouds starting after the chunk's key-manager cloud,   *)
(*     handing share i to the i-th non-KM cloud (Uploader::add) and        *)
(*     recording a metaNode for it in that cloud's pending buffer,         *)
(*   - on the terminal chunk closes every pending metadata chunk as a     *)
(*     SHARE_END chunk and gives the KM cloud a fake data and a fake meta  *)
(*     item so its uploader threads drain.                                 *)
(* Share bodies and fingerprints are abstracted away: a share is           *)
(* identified by (chunk_id, share_id).  exit(-2), exit(-4) and exit(-5)   *)
(* are recorded in exitCode.                                               *)
(***************************************************************************)
EXTENDS Integers, Sequences, SequencesExt, FiniteSets

CONSTANTS
  NumClouds,   \* n_ (conf.hh: n_ = 4 + 1 clouds)
  KMCount      \* kmServerCount_ (one KM cloud per segment)

ASSUME NumClouds \in Nat \ {0, 1} /\ KMCount \in 1..NumClouds - 1

Clouds == 0 .. NumClouds - 1

\* uploader.hh / encoder.hh item types and end indicators
SHARE_OBJECT == "SHARE_OBJECT"
SHARE_END    == "SHARE_END"
DATA_SECRET_ID_END_INDICATOR == -202
META_SECRET_ID_END_INDICATOR == 202
\* the fields of the on-stack fakeInput/fakeInputMeta the code never sets
Uninit == -1
\* sizes in bytes behind metaSize[] and its overflow check (exit(-5)):
\* sizeof(int), sizeof(metaNode) = HASH_SIZE + 5 ints, SECRET_SIZE_META
SizeofInt      == 4
SizeofMetaNode == 52
SECRET_SIZE_META == 1250 * 1024

VARIABLES
  previousSegID,    \* segment whose metaNodes are pending
  shareIndex,       \* shareIndex[c]: share id the rotation gave cloud c
  metaChunkID,      \* next (negative) secret id of a metadata chunk of c
  metaNodes,        \* metaChunkBuffer[c]; metaChunkCounter[c] = Len(...)
  metaSize,         \* metaSize[c]: bytes counted against SECRET_SIZE_META
  ringBuffer,       \* Uploader::ringBuffer_[c]: data items for cloud c
  ringBufferMeta,   \* Uploader::ringBufferMeta_[c]: metadata items
  exitCode          \* 0, or the code the collector called exit() with

collectorVars == <<previousSegID, shareIndex, metaChunkID, metaNodes, metaSize,
                   ringBuffer, ringBufferMeta, exitCode>>

\* A chunk as the collector pops it from calc_outputbuffer_.
ChunkRec(ids, segs) ==
  [chunk_id : ids, seg_id : segs, kmCloudIndex : Clouds, end : {0, 1}]

\* Encoder::getNextStreamIndex
getNextStreamIndex(i) == (i + 1) % NumClouds

\* The setup at the top of Encoder::collect.
CollectorInit ==
  /\ previousSegID  = 0
  /\ shareIndex     = [c \in Clouds |-> 0]
  /\ metaChunkID    = [c \in Clouds |-> -1]
  /\ metaNodes      = [c \in Clouds |-> <<>>]
  /\ metaSize       = [c \in Clouds |-> SizeofInt]
  /\ ringBuffer     = [c \in Clouds |-> <<>>]
  /\ ringBufferMeta = [c \in Clouds |-> <<>>]
  /\ exitCode       = 0

(***************************************************************************)
(* assignMetaShareHeader + assembleMetadataChunks: a metadata chunk whose *)
(* body is the cloud's pending metaNodes.                                  *)
(***************************************************************************)
MetaChunk(type, id, segID, shareID, km, nodes) ==
  [type |-> type, secretID |-> id, segID |-> segID, shareID |-> shareID,
   kmCloudIndex |-> km, nodes |-> nodes]

(***************************************************************************)
(* The collector's local state while it walks one chunk, as a record, so  *)
(* that the rotation loop can be written as a recursive operator.         *)
(***************************************************************************)
Local == [si |-> shareIndex, mid |-> metaChunkID, mn |-> metaNodes, ms |-> metaSize,
          rb |-> ringBuffer, rbm |-> ringBufferMeta, code |-> exitCode]

\* Fault variant: the flush skips the cloud that is KM of the new segment.
FlushSegmentSkipNewKM(temp, st) ==
  LET flushed == {c \in Clouds : st.mn[c] # <<>> /\ c # temp.kmCloudIndex}
  IN [st EXCEPT
        !.rbm = [c \in Clouds |->
                   IF c \in flushed
                   THEN Append(st.rbm[c],
                               MetaChunk(SHARE_OBJECT, st.mid[c], previousSegID,
                                         st.si[c], temp.kmCloudIndex, st.mn[c]))
                   ELSE st.rbm[c]],
        !.mid = [c \in Clouds |-> IF c \in flushed THEN st.mid[c] - 1 ELSE st.mid[c]],
        !.mn  = [c \in Clouds |-> IF c \in flushed THEN <<>> ELSE st.mn[c]],
        !.ms  = [c \in Clouds |-> IF c \in flushed THEN 0 ELSE st.ms[c]]]

\* Segment change: every cloud with pending metaNodes gets a SHARE_OBJECT
\* metadata chunk for previousSegID, whose header carries the NEW chunk's
\* kmCloudIndex (as the code passes temp.kmCloudIndex).
FlushSegment(temp, st) ==
  LET flushed == {c \in Clouds : st.mn[c] # <<>>}
  IN [st EXCEPT
        !.rbm = [c \in Clouds |->
                   IF c \in flushed
                   THEN Append(st.rbm[c],
                               MetaChunk(SHARE_OBJECT, st.mid[c], previousSegID,
                                         st.si[c], temp.kmCloudIndex, st.mn[c]))
                   ELSE st.rbm[c]],
        !.mid = [c \in Clouds |-> IF c \in flushed THEN st.mid[c] - 1 ELSE st.mid[c]],
        !.mn  = [c \in Clouds |-> IF c \in flushed THEN <<>> ELSE st.mn[c]],
        !.ms  = [c \in Clouds |-> IF c \in flushed THEN 0 ELSE st.ms[c]]]

\* Fault variant: the KM cloud is skipped without its end-of-stream items.
KMStepNoFake(temp, st) ==
  IF temp.end = 1 /\ st.mn[temp.kmCloudIndex] # <<>> THEN [st EXCEPT !.code = -4] ELSE st

\* The loop body for the KM cloud: nothing, except on the terminal chunk,
\* where it checks that no metaNode is pending (exit(-4)) and adds the fake
\* items that tell the KM cloud's uploader threads to stop.
KMStep(temp, st) ==
  LET km == temp.kmCloudIndex IN
  CASE temp.end = 0 -> st
    [] st.mn[km] # <<>> -> [st EXCEPT !.code = -4]
    [] OTHER -> [st EXCEPT
                   !.rb[km]  = Append(@, [chunk_id |-> DATA_SECRET_ID_END_INDICATOR,
                                          seg_id |-> Uninit, share_id |-> Uninit,
                                          kmCloudIndex |-> km, end |-> 1]),
                   !.rbm[km] = Append(@, MetaChunk(SHARE_END, META_SECRET_ID_END_INDICATOR,
                                                   Uninit, Uninit, km, <<>>))]

\* Fault variant: the next cloud inherits the share index without the + 1.
ShareStepNoIncrement(temp, li, st) ==
  LET item == [chunk_id |-> temp.chunk_id, seg_id |-> temp.seg_id,
               share_id |-> st.si[li], kmCloudIndex |-> temp.kmCloudIndex,
               end |-> temp.end]
  IN
  CASE st.si[li] >= NumClouds -> [st EXCEPT !.code = -2]
    [] st.ms[li] + SizeofMetaNode >= SECRET_SIZE_META ->
         [st EXCEPT !.rb[li] = Append(@, item), !.code = -5]
    [] OTHER -> [st EXCEPT
          !.rb[li] = Append(@, item),
          !.mn[li] = Append(@, [secretID |-> temp.chunk_id, segID |-> temp.seg_id,
                                shareID |-> st.si[li]]),
          !.ms[li] = @ + SizeofMetaNode,
          !.si[getNextStreamIndex(li)] = st.si[li]]

\* The loop body for a non-KM cloud li: share shareIndex[li] goes to cloud
\* li (before the exit(-5) check on the metadata buffer), its metaNode is
\* buffered, the terminal chunk closes the metadata chunk as SHARE_END,
\* and the next cloud's share index is this one's + 1.
ShareStep(temp, li, st) ==
  LET shareID == st.si[li]
      node    == [secretID |-> temp.chunk_id, segID |-> temp.seg_id, shareID |-> shareID]
      nodes   == Append(st.mn[li], node)
      item    == [chunk_id |-> temp.chunk_id, seg_id |-> temp.seg_id, share_id |-> shareID,
                  kmCloudIndex |-> temp.kmCloudIndex, end |-> temp.end]
  IN
  CASE shareID >= NumClouds -> [st EXCEPT !.code = -2]
    [] st.ms[li] + SizeofMetaNode >= SECRET_SIZE_META ->
         [st EXCEPT !.rb[li] = Append(@, item), !.code = -5]
    [] OTHER -> [st EXCEPT
          !.rb[li]  = Append(@, item),
          !.mn[li]  = nodes,
          !.ms[li]  = @ + SizeofMetaNode,
          !.rbm[li] = IF temp.end = 1
                      THEN Append(@, MetaChunk(SHARE_END, st.mid[li], temp.seg_id,
                                               shareID, temp.kmCloudIndex, nodes))
                      ELSE @,
          !.mid[li] = IF temp.end = 1 THEN @ - 1 ELSE @,
          !.si[getNextStreamIndex(li)] = shareID + 1]

\* One iteration of the rotation loop.  The loop state is bound to a value
\* (s \in {st}) before the body uses it, so that TLC, which passes operator
\* arguments unevaluated, does not recompute earlier iterations.
LoopBody(temp, li, st) ==
  CHOOSE r \in {IF li = temp.kmCloudIndex THEN KMStep(temp, s) ELSE ShareStep(temp, li, s)
                : s \in {st}} : TRUE

\* while (loop_count < n_) { ... loop_index = getNextStreamIndex(loop_index) }
RECURSIVE RotationLoop(_, _, _, _)
RotationLoop(temp, li, count, st) ==
  IF count >= NumClouds \/ st.code # 0 THEN st
  ELSE RotationLoop(temp, getNextStreamIndex(li), count + 1, LoopBody(temp, li, st))

\* Fault variant: the chunk is rotated before the previous segment is flushed.
DispatchFlushAfter(temp) ==
  LET first == getNextStreamIndex(temp.kmCloudIndex)
      st0   == RotationLoop(temp, first, 0, [Local EXCEPT !.si[first] = 0])
      st1   == IF previousSegID # temp.seg_id THEN FlushSegment(temp, st0) ELSE st0
  IN
  /\ previousSegID'  = temp.seg_id
  /\ shareIndex'     = st1.si
  /\ metaChunkID'    = st1.mid
  /\ metaNodes'      = st1.mn
  /\ metaSize'       = st1.ms
  /\ ringBuffer'     = st1.rb
  /\ ringBufferMeta' = st1.rbm
  /\ exitCode'       = st1.code

\* Fault variant: the rotation starts without shareIndex[loop_index] = 0.
DispatchNoReset(temp) ==
  LET st0   == IF previousSegID # temp.seg_id THEN FlushSegment(temp, Local) ELSE Local
      st1   == RotationLoop(temp, getNextStreamIndex(temp.kmCloudIndex), 0, st0)
  IN
  /\ previousSegID'  = temp.seg_id
  /\ shareIndex'     = st1.si
  /\ metaChunkID'    = st1.mid
  /\ metaNodes'      = st1.mn
  /\ metaSize'       = st1.ms
  /\ ringBuffer'     = st1.rb
  /\ ringBufferMeta' = st1.rbm
  /\ exitCode'       = st1.code

\* The whole per-chunk body of the collect loop, after the pop.
Dispatch(temp) ==
  LET st0   == IF previousSegID # temp.seg_id THEN FlushSegment(temp, Local) ELSE Local
      first == getNextStreamIndex(temp.kmCloudIndex)
      st1   == RotationLoop(temp, first, 0, [st0 EXCEPT !.si[first] = 0])
  IN
  /\ previousSegID'  = temp.seg_id
  /\ shareIndex'     = st1.si
  /\ metaChunkID'    = st1.mid
  /\ metaNodes'      = st1.mn
  /\ metaSize'       = st1.ms
  /\ ringBuffer'     = st1.rb
  /\ ringBufferMeta' = st1.rbm
  /\ exitCode'       = st1.code

(***************************************************************************)
(* The chunk streams KeyEx::threadHandlerMinHash hands to the encoder for *)
(* a file of 1..MaxChunks chunks, as collect pops them.                   *)
(***************************************************************************)
\* seg_id of chunk i when the segments end after the chunks in B
SegOf(B, i) == Cardinality({b \in B : b < i})

\* threadHandlerMinHash: a boundary may fall after any chunk (pattern,
\* size or unknownCodeRet) and always falls after the end chunk; every
\* chunk of a segment carries that segment's KM cloud.
MinHashStreams(maxChunks) ==
  UNION { UNION {
    { [i \in 1 .. L |-> [chunk_id |-> i - 1, seg_id |-> SegOf(B, i - 1),
                         kmCloudIndex |-> km[SegOf(B, i - 1)],
                         end |-> IF i = L THEN 1 ELSE 0]]
      : km \in [0 .. Cardinality(B) -> Clouds] }
    : B \in SUBSET (0 .. L - 2) } : L \in 1 .. maxChunks }

-----------------------------------------------------------------------------
(***************************************************************************)
(* Properties of the dispatch, over the items the collector has handed to *)
(* the uploader queues.                                                    *)
(***************************************************************************)
Shares(c) == SelectSeq(ringBuffer[c], LAMBDA x : x.chunk_id >= 0)
RealMeta(c) == SelectSeq(ringBufferMeta[c], LAMBDA m : m.secretID < 0)
AsNode(x) == [secretID |-> x.chunk_id, segID |-> x.seg_id, shareID |-> x.share_id]

\* Min-hash routing and the rotation rule the downloader relies on
\* (Encoder::collect rotation loop): a cloud never receives a share of a
\* chunk whose segment it is the key manager of, and the share it receives
\* is the one its distance from the KM cloud determines.
ShareRotation ==
  \A c \in Clouds : \A i \in 1 .. Len(Shares(c)) :
    LET x == Shares(c)[i] IN
    /\ x.kmCloudIndex # c
    /\ x.share_id = (c - x.kmCloudIndex - 1) % NumClouds

\* Metadata chunks describe the data stream exactly (segment-change flush
\* and SHARE_END in Encoder::collect): the metaNodes of cloud c's metadata
\* chunks, followed by its still pending ones, list the shares handed to
\* c's data queue, in order; every metadata chunk covers one segment and
\* one share id, both equal to its header's; and the chunks carry the ids
\* -1, -2, ... in order.
MetaDescribesData ==
  \A c \in Clouds :
    LET closed  == FlattenSeq([i \in 1 .. Len(RealMeta(c)) |-> RealMeta(c)[i].nodes])
        ended   == RealMeta(c) # <<>> /\ Last(RealMeta(c)).type = SHARE_END
        pending == IF ended THEN <<>> ELSE metaNodes[c]
    IN
    /\ closed \o pending = [i \in 1 .. Len(Shares(c)) |-> AsNode(Shares(c)[i])]
    /\ \A i \in 1 .. Len(RealMeta(c)) :
         LET m == RealMeta(c)[i] IN
         /\ m.secretID = -i
         /\ m.nodes # <<>>
         /\ \A j \in 1 .. Len(m.nodes) :
              m.nodes[j].segID = m.segID /\ m.nodes[j].shareID = m.shareID

\* The collector never calls exit(-2) (share count) or exit(-4) (metaNodes
\* pending on the KM cloud at the terminal chunk).
NoCollectorExit == exitCode = 0

\* Each uploader thread gets exactly one end-of-stream item, as the last
\* item of its queue (the terminal share, type SHARE_END, or the fake
\* DATA/META end indicator given to the KM cloud), and once any cloud has
\* one every cloud has one on both its data and its metadata queue.
IsDataEnd(x) == x.end = 1
IsMetaEnd(m) == m.type = SHARE_END
Ended(q, IsEnd(_)) == q # <<>> /\ IsEnd(Last(q))
EndMarkersLast ==
  /\ \A c \in Clouds :
       /\ \A i \in 1 .. Len(ringBuffer[c]) - 1 : ~IsDataEnd(ringBuffer[c][i])
       /\ \A i \in 1 .. Len(ringBufferMeta[c]) - 1 : ~IsMetaEnd(ringBufferMeta[c][i])
  /\ (\E c \in Clouds : Ended(ringBuffer[c], IsDataEnd)) =>
       \A c \in Clouds : Ended(ringBuffer[c], IsDataEnd) /\ Ended(ringBufferMeta[c], IsMetaEnd)

=============================================================================
