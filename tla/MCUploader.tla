---------------------------- MODULE MCUploader -----------------------------
(***************************************************************************)
(* Encoder::collect feeding the Uploader: collect dispatches every chunk  *)
(* of a min-hash stream into ringBuffer_ / ringBufferMeta_ and then sets   *)
(* done_ on all of them; the uploader threads in Observed drain their     *)
(* queues concurrently; collect_header runs in its detached thread.        *)
(* The other uploader threads only read their own queue and buffers, so   *)
(* leaving their steps out does not change what the observed ones do.    *)
(***************************************************************************)
EXTENDS Uploader

CONSTANTS
  MaxChunks,        \* longest min-hash stream
  HeaderBeforeData  \* collect_header finishes before collect pops a chunk

VARIABLES
  input,   \* the chunk stream, in the order collect pops it
  pos      \* index of the next chunk collect pops

vars == <<collectorVars, uploaderVars, input, pos>>

Init ==
  /\ CollectorInit
  /\ UploaderInit(FALSE)
  /\ input \in MinHashStreams(MaxChunks)
  /\ pos = 1

\* One iteration of the collect loop that pops a chunk.
Collect ==
  /\ pos <= Len(input)
  /\ exitCode = 0
  /\ ~headerUB
  /\ HeaderBeforeData => hIdx = 2 * NumClouds
  /\ Dispatch(input[pos])
  /\ pos' = pos + 1
  /\ UNCHANGED <<input, up, hIdx, uploadDone, headerUB>>

\* collect's input is done and empty: set_job_done on every uploader queue.
CollectDone ==
  /\ pos > Len(input)
  /\ ~uploadDone
  /\ ~headerUB
  /\ uploadDone' = TRUE
  /\ UNCHANGED <<collectorVars, input, pos, up, hIdx, headerUB>>

\* Collect and collect_header are done and every observed thread has left
\* its loop (main then returns from indicateEnd).
Finished ==
  /\ pos > Len(input) /\ uploadDone /\ hIdx = 2 * NumClouds
  /\ \A s \in Observed : up[s].pc = "exit"

Next ==
  \/ Collect
  \/ CollectDone
  \/ CollectHeader /\ UNCHANGED <<collectorVars, input, pos>>
  \/ \E s \in Observed : UploaderThread(s) /\ UNCHANGED <<previousSegID, shareIndex,
                              metaChunkID, metaNodes, metaSize, exitCode, input, pos>>
  \/ Finished /\ UNCHANGED vars

Spec == Init /\ [][Next]_vars

TypeOK ==
  /\ hIdx \in 0 .. 2 * NumClouds
  /\ \A s \in Slots : up[s].pc \in {"loop", "sawDone", "exit"}
                      /\ up[s].wp \in 0 .. UPLOAD_BUFFER_SIZE
  /\ pos \in 1 .. MaxChunks + 1

====
