------------------------------ MODULE Decoder ------------------------------
(***************************************************************************)
(* The Decoder of the download path (src/client/coding/decoder.cc): the   *)
(* DECODE_NUM_THREADS decode threads (Decoder::thread_handler), each       *)
(* moving ShareChunk_t packages from inputbuffer_[i] to outputbuffer_[i],  *)
(* and the collect thread (Decoder::collect), which pops the output lanes  *)
(* round robin and writes the secrets through a FWRITE_BUFFER_SIZE buffer. *)
(* A package is its secretID, secretSize, the kShareIDList it carries and  *)
(* the share ids actually in its data; decoding is abstracted to passing   *)
(* the package on.  decoder.hh is not in the repository, so its sizes are  *)
(* CONSTANTS.                                                              *)
(***************************************************************************)
EXTENDS Integers, Sequences, SequencesExt

CONSTANTS
  DECODE_NUM_THREADS,  \* decode threads / lanes
  DECODE_QUEUE_SIZE,   \* capacity of inputbuffer_[i] and outputbuffer_[i]
  FWRITE_BUFFER_SIZE   \* bytes collect buffers before fwrite

DLanes == 0 .. DECODE_NUM_THREADS - 1

VARIABLES
  inputbuffer,    \* inputbuffer_[i]: packages Downloader::downloadFile added
  inDone,         \* inputbuffer_[i]->done_
  outputbuffer,   \* outputbuffer_[i]: decoded secrets
  outDone,        \* outputbuffer_[i]->done_
  decPc,          \* decode thread i: "loop", "sawDone" (read done_), "exit"
  totalFileSize,  \* totalFileSize_, set by Downloader through setFileSize
  jobDone,        \* collect: job_done[]
  loopIndex,      \* collect: loop_index
  wbuf,           \* collect: the secrets in buf (out_wp = their size)
  colCount,       \* collect: countSize
  colExit,        \* collect has left its loop
  written         \* the secrets fwrite has put in the output file, in order

decoderVars == <<inputbuffer, inDone, outputbuffer, outDone, decPc, totalFileSize,
                 jobDone, loopIndex, wbuf, colCount, colExit, written>>

SizeOf(s) == FoldLeft(LAMBDA acc, x : acc + x.secretSize, 0, s)

DecoderInit ==
  /\ inputbuffer = [i \in DLanes |-> <<>>]
  /\ inDone = [i \in DLanes |-> FALSE]
  /\ outputbuffer = [i \in DLanes |-> <<>>]
  /\ outDone = [i \in DLanes |-> FALSE]
  /\ decPc = [i \in DLanes |-> "loop"]
  /\ totalFileSize = 0
  /\ jobDone = [i \in DLanes |-> FALSE]
  /\ loopIndex = 0
  /\ wbuf = <<>>
  /\ colCount = 0
  /\ colExit = FALSE
  /\ written = <<>>

-----------------------------------------------------------------------------
(***************************************************************************)
(* Decoder::thread_handler.  The exit test reads done_ and then            *)
(* is_empty(), as two steps.                                               *)
(***************************************************************************)
DecReadDone(i) ==
  /\ decPc[i] = "loop"
  /\ inDone[i]
  /\ decPc' = [decPc EXCEPT ![i] = "sawDone"]
  /\ UNCHANGED <<inputbuffer, inDone, outputbuffer, outDone, totalFileSize,
                 jobDone, loopIndex, wbuf, colCount, colExit, written>>

DecReadEmpty(i) ==
  /\ decPc[i] = "sawDone"
  /\ inputbuffer[i] = <<>>
  /\ decPc' = [decPc EXCEPT ![i] = "exit"]
  /\ outDone' = [outDone EXCEPT ![i] = TRUE]
  /\ UNCHANGED <<inputbuffer, inDone, outputbuffer, totalFileSize,
                 jobDone, loopIndex, wbuf, colCount, colExit, written>>

\* pop, decoding, and the push into outputbuffer_[i] (which spins while
\* the lane is full); the loop then starts over with a fresh exit test.
DecPop(i) ==
  /\ decPc[i] \in {"loop", "sawDone"}
  /\ inputbuffer[i] # <<>>
  /\ Len(outputbuffer[i]) < DECODE_QUEUE_SIZE
  /\ inputbuffer' = [inputbuffer EXCEPT ![i] = Tail(@)]
  /\ outputbuffer' = [outputbuffer EXCEPT ![i] = Append(@, Head(inputbuffer[i]))]
  /\ decPc' = [decPc EXCEPT ![i] = "loop"]
  /\ UNCHANGED <<inDone, outDone, totalFileSize, jobDone, loopIndex, wbuf,
                 colCount, colExit, written>>

DecoderThread(i) == DecReadDone(i) \/ DecReadEmpty(i) \/ DecPop(i)

-----------------------------------------------------------------------------
(***************************************************************************)
(* Decoder::collect, one iteration of its loop.  The lane's done_ is read  *)
(* before is_empty() and is set only after the lane's last push, so the    *)
(* pair of reads is taken as one step.                                     *)
(***************************************************************************)
\* The iteration's job_done[] after its first test.
JobDoneAfterTest ==
  [jobDone EXCEPT ![loopIndex] = @ \/ (outDone[loopIndex] /\ outputbuffer[loopIndex] = <<>>)]

\* All lanes done: leave the loop.
CollectExit ==
  /\ ~colExit
  /\ \A i \in DLanes : JobDoneAfterTest[i]
  /\ jobDone' = JobDoneAfterTest
  /\ colExit' = TRUE
  /\ UNCHANGED <<inputbuffer, inDone, outputbuffer, outDone, decPc, totalFileSize,
                 loopIndex, wbuf, colCount, written>>

\* Skip a done lane; then pop the lane at loop_index (or continue).
CollectLane == LET jd == JobDoneAfterTest IN
               IF jd[loopIndex] THEN (loopIndex + 1) % DECODE_NUM_THREADS ELSE loopIndex

\* Fault variant: the final flush is left to the next overflow.
CollectStoreNoFinalWrite(temp) ==
  LET flush == SizeOf(wbuf) + temp.secretSize > FWRITE_BUFFER_SIZE
      buf   == IF flush THEN <<temp>> ELSE Append(wbuf, temp)
  IN /\ wbuf' = buf
     /\ colCount' = colCount + temp.secretSize
     /\ written' = IF flush THEN written \o wbuf ELSE written

\* Flush buf when temp would overflow it, copy temp in, and write buf out
\* when countSize reaches totalFileSize_ (out_wp is not reset there).
CollectStore(temp) ==
  LET flush == SizeOf(wbuf) + temp.secretSize > FWRITE_BUFFER_SIZE
      buf   == IF flush THEN <<temp>> ELSE Append(wbuf, temp)
      pre   == IF flush THEN written \o wbuf ELSE written
      last  == colCount + temp.secretSize = totalFileSize
  IN /\ wbuf' = buf
     /\ colCount' = colCount + temp.secretSize
     /\ written' = IF last /\ SizeOf(buf) > 0 THEN pre \o buf ELSE pre

CollectPop ==
  /\ ~colExit
  /\ ~\A i \in DLanes : JobDoneAfterTest[i]
  /\ jobDone' = JobDoneAfterTest
  /\ LET li == CollectLane IN
       IF outputbuffer[li] = <<>>
       THEN /\ loopIndex' = li
            /\ UNCHANGED <<outputbuffer, wbuf, colCount, written>>
       ELSE /\ outputbuffer' = [outputbuffer EXCEPT ![li] = Tail(@)]
            /\ loopIndex' = (li + 1) % DECODE_NUM_THREADS
            /\ CollectStore(Head(outputbuffer[li]))
  /\ UNCHANGED <<inputbuffer, inDone, outDone, decPc, totalFileSize, colExit>>

CollectThread == CollectExit \/ CollectPop

====
