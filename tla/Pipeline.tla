------------------------------ MODULE Pipeline ------------------------------
(***************************************************************************)
(* The upload half of the client (src/client/main.cc -u): the chunking    *)
(* loop of main, the KeyEx hash threads, the KeyEx min-hash thread, the    *)
(* Encoder encode and share-hash threads and Encoder::collect, connected  *)
(* by MessageQueues.  Each thread is the loop                              *)
(*     if (in->done_ && in->is_empty()) { close outputs; break; }          *)
(*     if (!in->pop(temp)) continue;  work; push                          *)
(* whose exit test reads done_ and is_empty() as two separate atomic       *)
(* loads; the model keeps them as two steps.  Chunk contents, hashes,      *)
(* keys and shares are abstracted away; a chunk is its chunk_id, its end  *)
(* flag and, after the min-hash thread, its seg_id and kmCloudIndex.       *)
(***************************************************************************)
EXTENDS Collector, FiniteSets

CONSTANTS
  KEYEX_NUM_THREADS,  \* exchange.hh: 2 hash threads
  NUM_THREADS,        \* encoder.hh: 2 encode / share-hash threads
  MaxLines,           \* largest file (in chunks, or trace lines) checked
  FileSizes,          \* the file lengths main may be given, in 0..MaxLines
  TraceMode,          \* TRACE_DRIVEN_FSL_ENABLED (conf.hh)
  OversizeChoices(_), \* sets of trace lines with size > maxChunkSize_
  KMChoices,          \* clouds the min fingerprint may select as KM
  MaxSegChunks        \* chunks after which segSizeTemp > MAX_SEGMENT_SIZE

ASSUME FileSizes \subseteq 0 .. MaxLines /\ KMChoices \subseteq Clouds

KLanes == 0 .. KEYEX_NUM_THREADS - 1
ELanes == 0 .. NUM_THREADS - 1

\* The MessageQueues: KeyEx inputbuffer_/outputbuffer_, Encoder
\* inputbuffer_/calc_inputbuffer_/calc_outputbuffer_.
QueueNames ==
  ({"kin", "kout"} \X KLanes) \cup ({"ein", "cin", "cout"} \X ELanes)

\* Worker threads that move a chunk from one queue to the next.
Workers == ({"keyHash"} \X KLanes) \cup ({"encode", "shareHash"} \X ELanes)
InQ(t)  == CASE t[1] = "keyHash" -> <<"kin", t[2]>>
             [] t[1] = "encode"  -> <<"ein", t[2]>>
             [] t[1] = "shareHash" -> <<"cin", t[2]>>
OutQ(t) == CASE t[1] = "keyHash" -> <<"kout", t[2]>>
             [] t[1] = "encode"  -> <<"cin", t[2]>>
             [] t[1] = "shareHash" -> <<"cout", t[2]>>

\* The min-hash thread and the collect thread.
MinHashThread == <<"minHash", 0>>
CollectThread == <<"collect", 0>>
Threads == Workers \cup {MinHashThread, CollectThread}

VARIABLES
  fileLines,    \* chunks of the file / lines of the trace (fixed)
  skipped,      \* trace lines whose size exceeds maxChunkSize_ (fixed)
  line,         \* next chunk / trace line main handles
  produced,     \* chunk ids main has added (totalChunks, chunk_id_counter)
  mainDone,     \* main has called set_job_done on KeyEx inputbuffer_
  keyAddIndex,  \* KeyEx::nextAddIndex_
  queue,        \* queue[q]: contents of MessageQueue q
  done,         \* done[q]: its done_ flag
  pc,           \* pc[t] \in {"loop", "sawDone", "exit"}
  bufferIndex,  \* threadHandlerMinHash: buffer_index
  segBuffer,    \* threadHandlerMinHash: chunks of the open segment
  segID,        \* threadHandlerMinHash: segID
  encAddIndex,  \* Encoder::nextAddIndex_
  nextBufferIndex, \* Encoder::collect: nextBufferIndex
  popped,       \* history: chunk ids collect has popped, in order
  uploadDone    \* done_ of every Uploader ringBuffer_ / ringBufferMeta_

mainVars == <<fileLines, skipped, line, produced, mainDone, keyAddIndex>>
mhVars   == <<bufferIndex, segBuffer, segID, encAddIndex>>
vars == <<mainVars, queue, done, pc, mhVars, nextBufferIndex, popped,
          uploadDone, collectorVars>>

-----------------------------------------------------------------------------
(***************************************************************************)
(* The exit test of every stage loop, in the order the code evaluates its *)
(* two operands: done_ first, then is_empty().                            *)
(***************************************************************************)
\* Fault variant: is_empty() read before done_.
ExitTestSwapped(q, d) == <<q = <<>>, d>>

ExitTest(q, d) == <<d, q = <<>>>>

\* First operand of the exit test read true: remember it.
ReadFirst(t, q) ==
  /\ pc[t] = "loop"
  /\ ExitTest(queue[q], done[q])[1]
  /\ pc' = [pc EXCEPT ![t] = "sawDone"]

\* Second operand read true after the first: the thread leaves its loop.
ReadSecond(t, q) ==
  /\ pc[t] = "sawDone"
  /\ ExitTest(queue[q], done[q])[2]
  /\ pc' = [pc EXCEPT ![t] = "exit"]

\* pop succeeded (the thread is in its loop, whichever operand it has read).
CanPop(t, q) == pc[t] \in {"loop", "sawDone"} /\ queue[q] # <<>>

-----------------------------------------------------------------------------
(***************************************************************************)
(* main: the chunking loop (file mode) or trace_driven_FSL_chunking.      *)
(***************************************************************************)
\* Fault variant: nextAddIndex_ wraps one lane too late.
AddChunkLateWrap ==
  /\ line <= fileLines
  /\ line \notin skipped
  /\ queue' = [queue EXCEPT ![<<"kin", keyAddIndex>>] =
                 Append(@, [chunk_id |-> produced,
                            end |-> IF line = fileLines THEN 1 ELSE 0])]
  /\ keyAddIndex' = (keyAddIndex + 1) % (KEYEX_NUM_THREADS + 1)
  /\ produced' = produced + 1
  /\ line' = line + 1
  /\ UNCHANGED <<fileLines, skipped, mainDone, done, pc, mhVars,
                 nextBufferIndex, popped, uploadDone, collectorVars>>

\* keyObj->add(input): round-robin into KeyEx::inputbuffer_.
AddChunk ==
  /\ line <= fileLines
  /\ line \notin skipped
  /\ queue' = [queue EXCEPT ![<<"kin", keyAddIndex>>] =
                 Append(@, [chunk_id |-> produced,
                            end |-> IF line = fileLines THEN 1 ELSE 0])]
  /\ keyAddIndex' = (keyAddIndex + 1) % KEYEX_NUM_THREADS
  /\ produced' = produced + 1
  /\ line' = line + 1
  /\ UNCHANGED <<fileLines, skipped, mainDone, done, pc, mhVars,
                 nextBufferIndex, popped, uploadDone, collectorVars>>

\* Fault variant: the skipped line still consumes a chunk id.
SkipLineConsumesId ==
  /\ line <= fileLines
  /\ line \in skipped
  /\ line' = line + 1
  /\ produced' = produced + 1
  /\ UNCHANGED <<fileLines, skipped, mainDone, keyAddIndex, queue,
                 done, pc, mhVars, nextBufferIndex, popped, uploadDone,
                 collectorVars>>

\* trace mode: a line with size > maxChunkSize_ is skipped (continue).
SkipLine ==
  /\ line <= fileLines
  /\ line \in skipped
  /\ line' = line + 1
  /\ UNCHANGED <<fileLines, skipped, produced, mainDone, keyAddIndex, queue,
                 done, pc, mhVars, nextBufferIndex, popped, uploadDone,
                 collectorVars>>

\* set_job_done on every KeyEx input queue: in file mode right after the
\* chunk with end = 1 was added (job_done), in trace mode after the loop.
SetJobDone ==
  /\ ~mainDone
  /\ line > fileLines
  /\ TraceMode \/ fileLines > 0
  /\ mainDone' = TRUE
  /\ done' = [q \in QueueNames |-> IF q[1] = "kin" THEN TRUE ELSE done[q]]
  /\ UNCHANGED <<fileLines, skipped, line, produced, keyAddIndex, queue, pc,
                 mhVars, nextBufferIndex, popped, uploadDone, collectorVars>>

Main == AddChunk \/ SkipLine \/ SetJobDone

-----------------------------------------------------------------------------
(***************************************************************************)
(* KeyEx::thread_handler_hash, Encoder::thread_handler and                 *)
(* Encoder::thread_handler_hash: pop, transform, push to the same lane of *)
(* the next queue; on exit set done_ of that queue.                        *)
(***************************************************************************)
StageLoop(t) ==
  \/ /\ ReadFirst(t, InQ(t))
     /\ UNCHANGED <<queue, done>>
  \/ /\ ReadSecond(t, InQ(t))
     /\ done' = [done EXCEPT ![OutQ(t)] = TRUE]
     /\ UNCHANGED queue
  \/ /\ CanPop(t, InQ(t))
     /\ queue' = [queue EXCEPT ![InQ(t)] = Tail(@),
                               ![OutQ(t)] = Append(@, Head(queue[InQ(t)]))]
     /\ pc' = [pc EXCEPT ![t] = "loop"]
     /\ UNCHANGED done

KeyExHash(i)     == StageLoop(<<"keyHash", i>>)
EncodeThread(j)  == StageLoop(<<"encode", j>>)
EncodeHash(j)    == StageLoop(<<"shareHash", j>>)

WorkerStep(t) ==
  /\ StageLoop(t)
  /\ UNCHANGED <<mainVars, mhVars, nextBufferIndex, popped, uploadDone,
                 collectorVars>>

-----------------------------------------------------------------------------
(***************************************************************************)
(* KeyEx::threadHandlerMinHash.                                           *)
(***************************************************************************)
\* Encoder::add for each chunk of the closed segment, in order, round-robin.
RECURSIVE EncoderAdd(_, _, _)
EncoderAdd(q, chunks, idx) ==
  IF chunks = <<>> THEN [q |-> q, idx |-> idx]
  ELSE EncoderAdd([q EXCEPT ![<<"ein", idx>>] = Append(@, Head(chunks))],
                  Tail(chunks), (idx + 1) % NUM_THREADS)

\* On exit the encoder input queues are closed; chunks still in segBuffer
\* are left there.
MinHashExit ==
  /\ \/ /\ ReadFirst(MinHashThread, <<"kout", bufferIndex>>)
        /\ UNCHANGED done
     \/ /\ ReadSecond(MinHashThread, <<"kout", bufferIndex>>)
        /\ done' = [q \in QueueNames |-> IF q[1] = "ein" THEN TRUE ELSE done[q]]
  /\ UNCHANGED <<queue, mhVars>>

\* Fault variant: the end chunk does not force a segment boundary.
MinHashPopNoEndBoundary ==
  LET q     == <<"kout", bufferIndex>>
      temp  == Head(queue[q])
      chunk == [chunk_id |-> temp.chunk_id, seg_id |-> segID,
                kmCloudIndex |-> -1, end |-> temp.end]
      seg   == Append(segBuffer, chunk)
      rest  == [queue EXCEPT ![q] = Tail(@)]
  IN
  /\ CanPop(MinHashThread, q)
  /\ pc' = [pc EXCEPT ![MinHashThread] = "loop"]
  /\ bufferIndex' = (bufferIndex + 1) % KEYEX_NUM_THREADS
  /\ \/ /\ Len(seg) <= MaxSegChunks
        /\ segBuffer' = seg
        /\ queue' = rest
        /\ UNCHANGED <<segID, encAddIndex>>
     \/ \E km \in KMChoices :
          LET add == EncoderAdd(rest, [i \in 1 .. Len(seg) |->
                                         [seg[i] EXCEPT !.kmCloudIndex = km]],
                                encAddIndex)
          IN /\ queue' = add.q
             /\ encAddIndex' = add.idx
             /\ segID' = segID + 1
             /\ segBuffer' = <<>>
  /\ UNCHANGED done

\* Pop the next chunk in round-robin order and stamp it with the open
\* segment; on a boundary (the end chunk, the size limit, or the hash
\* conditions, which any chunk may meet) the KM cloud is chosen from the
\* segment's min fingerprint and the segment goes to the encoder.
MinHashPop ==
  LET q     == <<"kout", bufferIndex>>
      temp  == Head(queue[q])
      chunk == [chunk_id |-> temp.chunk_id, seg_id |-> segID,
                kmCloudIndex |-> -1, end |-> temp.end]
      seg   == Append(segBuffer, chunk)
      rest  == [queue EXCEPT ![q] = Tail(@)]
  IN
  /\ CanPop(MinHashThread, q)
  /\ pc' = [pc EXCEPT ![MinHashThread] = "loop"]
  /\ bufferIndex' = (bufferIndex + 1) % KEYEX_NUM_THREADS
  /\ \/ /\ temp.end = 0
        /\ Len(seg) <= MaxSegChunks   \* not segSizeTemp > MAX_SEGMENT_SIZE
        /\ segBuffer' = seg
        /\ queue' = rest
        /\ UNCHANGED <<segID, encAddIndex>>
     \/ \E km \in KMChoices :
          LET add == EncoderAdd(rest, [i \in 1 .. Len(seg) |->
                                         [seg[i] EXCEPT !.kmCloudIndex = km]],
                                encAddIndex)
          IN /\ queue' = add.q
             /\ encAddIndex' = add.idx
             /\ segID' = segID + 1
             /\ segBuffer' = <<>>
  /\ UNCHANGED done

MinHash ==
  /\ MinHashExit \/ MinHashPop
  /\ UNCHANGED <<mainVars, nextBufferIndex, popped, uploadDone, collectorVars>>

-----------------------------------------------------------------------------
(***************************************************************************)
(* Encoder::collect: the loop control; the body is Collector!Dispatch.    *)
(***************************************************************************)
CollectExit ==
  \/ /\ ReadFirst(CollectThread, <<"cout", nextBufferIndex>>)
     /\ UNCHANGED uploadDone
  \/ /\ ReadSecond(CollectThread, <<"cout", nextBufferIndex>>)
     /\ uploadDone' = TRUE

CollectPop ==
  LET q == <<"cout", nextBufferIndex>> IN
  /\ CanPop(CollectThread, q)
  /\ exitCode = 0
  /\ pc' = [pc EXCEPT ![CollectThread] = "loop"]
  /\ queue' = [queue EXCEPT ![q] = Tail(@)]
  /\ nextBufferIndex' = (nextBufferIndex + 1) % NUM_THREADS
  /\ popped' = Append(popped, Head(queue[q]).chunk_id)
  /\ Dispatch(Head(queue[q]))
  /\ UNCHANGED uploadDone

Collect ==
  /\ \/ CollectExit /\ UNCHANGED <<queue, nextBufferIndex, popped, collectorVars>>
     \/ CollectPop
  /\ UNCHANGED <<mainVars, done, mhVars>>

-----------------------------------------------------------------------------
Init ==
  /\ fileLines \in FileSizes
  /\ skipped \in (IF TraceMode THEN OversizeChoices(fileLines) ELSE {{}})
  /\ line = 1
  /\ produced = 0
  /\ mainDone = FALSE
  /\ keyAddIndex = 0
  /\ queue = [q \in QueueNames |-> <<>>]
  /\ done = [q \in QueueNames |-> FALSE]
  /\ pc = [t \in Threads |-> "loop"]
  /\ bufferIndex = 0
  /\ segBuffer = <<>>
  /\ segID = 0
  /\ encAddIndex = 0
  /\ nextBufferIndex = 0
  /\ popped = <<>>
  /\ uploadDone = FALSE
  /\ CollectorInit

\* Every thread has left its loop: the pipeline is finished (main then
\* joins the uploader threads).
Finished == \A t \in Threads : pc[t] = "exit"

Next ==
  \/ Main
  \/ \E t \in Workers : WorkerStep(t)
  \/ MinHash
  \/ Collect
  \/ Finished /\ UNCHANGED vars

\* Threads are OS threads spinning in their loops: each one that can take
\* a step keeps being scheduled.  main is a thread as well.
Fairness ==
  /\ WF_vars(Main)
  /\ \A t \in Workers : WF_vars(WorkerStep(t))
  /\ WF_vars(MinHash)
  /\ WF_vars(Collect)

Spec == Init /\ [][Next]_vars /\ Fairness

-----------------------------------------------------------------------------
TypeOK ==
  /\ produced \in 0 .. MaxLines
  /\ keyAddIndex \in KLanes /\ bufferIndex \in KLanes
  /\ encAddIndex \in ELanes /\ nextBufferIndex \in ELanes
  /\ pc \in [Threads -> {"loop", "sawDone", "exit"}]
  /\ done \in [QueueNames -> BOOLEAN]
  /\ Len(segBuffer) <= MaxSegChunks

(***************************************************************************)
(* Refinement: the pipeline implements OrderedStream.  main's chunks are  *)
(* the stream; what Encoder::collect pops is what is received; main's    *)
(* set_job_done closes it; collect leaving its loop is finishing.  This   *)
(* says the round-robin queues deliver every chunk to collect in chunk    *)
(* order exactly once, that collect stops only after it has seen every    *)
(* chunk, and that it does stop once main has closed the stream.         *)
(***************************************************************************)
Stream == INSTANCE OrderedStream WITH
            sent     <- [i \in 1 .. produced |-> i - 1],
            received <- popped,
            closed   <- mainDone,
            finished <- (pc[CollectThread] = "exit")

StreamSpec == Stream!Spec

\* When collect closes the uploader queues, every cloud's data and
\* metadata queue already ends with its end-of-stream item, so each
\* uploader thread uploads its last batch before it sees done_.
FlushedBeforeDone ==
  uploadDone =>
    \A c \in Clouds : Ended(ringBuffer[c], IsDataEnd) /\ Ended(ringBufferMeta[c], IsMetaEnd)
=============================================================================
