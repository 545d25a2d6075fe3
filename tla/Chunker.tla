------------------------------ MODULE Chunker ------------------------------
(***************************************************************************)
(* Content-defined chunking (src/client/chunking/chunker.cc, VAR_SIZE_TYPE) *)
(* and the upload loop of main.cc that feeds it one fread buffer at a     *)
(* time.  varSizeChunking is a RECURSIVE operator that follows the code   *)
(* step by step: the first-window fingerprint, the rolling update through *)
(* powerLUT_ and removeLUT_ in uint32_t arithmetic, the anchor test, the   *)
(* min/max limits and the tail chunk.  Buffers are 1-indexed sequences;   *)
(* At(b, i) is the C expression buffer[i].                                *)
(***************************************************************************)
EXTENDS Integers, Sequences, SequencesExt

CONSTANTS
  minChunkSize, avgChunkSize, maxChunkSize, slidingWinSize,
  bufferSize,   \* bytes main reads per fread
  Files         \* the input files, as sequences of byte values

ASSUME minChunkSize < avgChunkSize /\ avgChunkSize < maxChunkSize
ASSUME minChunkSize >= slidingWinSize   \* the first window never reads buffer[-1]

polyBase == 257
polyMOD  == 2^23
\* x & (m - 1), for m a power of two and x >= 0
AndMask(x, m) == x % m

(* The code computes in uint32_t and masks every fingerprint with          *)
(* polyMOD_ - 1.  As polyMOD_ divides 2^32, a uint32_t wrap-around never    *)
(* changes a masked value, so each expression is reduced mod polyMOD here;  *)
(* TLC's integers (32-bit signed) could not hold the uint32_t values.       *)
\* (x * polyBase_) mod polyMOD_, as x * 256 + x
TimesBase(x) == AndMask(AndMask(x, polyMOD \div 256) * 256 + x, polyMOD)

At(b, i) == b[i + 1]

\* powerLUT_[i] = (powerLUT_[i-1] * polyBase_) & (polyMOD_ - 1)
RECURSIVE powerLUT(_)
powerLUT(i) == IF i = 0 THEN 1 ELSE TimesBase(powerLUT(i - 1))

\* Fault variant: the table stores i * base^(W-1) instead of its negation.
removeLUTNoNegate(byte) == AndMask(byte * powerLUT(slidingWinSize - 1), polyMOD)

\* removeLUT_[i] = (- i * powerLUT_[W-1]) mod polyMOD_
removeLUT(byte) ==
  LET r == AndMask(byte * powerLUT(slidingWinSize - 1), polyMOD)
  IN IF r # 0 THEN polyMOD - r ELSE r

\* numOfMaskBits: the loop while((avgChunkSize_ >> bits) != 1) bits++
RECURSIVE MaskBitsFrom(_)
MaskBitsFrom(bits) == IF avgChunkSize \div 2^bits = 1 THEN bits ELSE MaskBitsFrom(bits + 1)
anchorMask  == 2^MaskBitsFrom(1)     \* (1 << numOfMaskBits) - 1, as a modulus
anchorValue == 0

-----------------------------------------------------------------------------
(* Chunker::varSizeChunking                                                *)

\* The fingerprint of the first window, ending at buffer[e].
RECURSIVE WinSum(_, _, _)
WinSum(b, e, i) ==
  IF i = slidingWinSize THEN 0
  ELSE AndMask(At(b, e - i) * powerLUT(i), polyMOD) + WinSum(b, e, i + 1)
FirstWinFp(b, e) == AndMask(WinSum(b, e, 0), polyMOD)

\* Move the window forward to end at buffer[e].
Roll(b, e, winFp) ==
  AndMask(TimesBase(winFp + removeLUT(At(b, e - slidingWinSize))) + At(b, e), polyMOD)

\* The inner while loop: roll until an anchor or chunkEndIndexLimit.
RECURSIVE Scan(_, _, _, _)
Scan(b, e, limit, winFp) ==
  IF AndMask(winFp, anchorMask) # anchorValue /\ e < limit
  THEN Scan(b, e + 1, limit, Roll(b, e + 1, winFp))
  ELSE e

RECURSIVE ChunkLoop(_, _, _, _)
\* The outer while loop, from chunkEndIndex = e and chunkEndIndexLimit = limit.
ChunkLoop(b, e, limit, ends) ==
  IF e >= Len(b) THEN ends
  ELSE LET lim == IF limit >= Len(b) THEN Len(b) - 1 ELSE limit
           end == Scan(b, e, lim, FirstWinFp(b, e))
       IN ChunkLoop(b, end + minChunkSize, end + maxChunkSize, Append(ends, end))

\* chunkEndIndexList for buffer b, tail chunk included.
varSizeChunking(b) ==
  LET ends == ChunkLoop(b, minChunkSize - 1, maxChunkSize - 1, <<>>)
  IN IF ends = <<>> \/ Last(ends) # Len(b) - 1 THEN Append(ends, Len(b) - 1) ELSE ends

\* The chunks main builds from one buffer's end index list (main.cc): chunk
\* count has size chunkEndIndexList[count] - preEnd, and end = 1 on the last
\* chunk of the buffer that completes the file.
ChunksOfBuffer(ends, last) ==
  [j \in 1 .. Len(ends) |->
     [chunk_size |-> ends[j] - (IF j = 1 THEN -1 ELSE ends[j - 1]),
      end        |-> IF last /\ j = Len(ends) THEN 1 ELSE 0]]

-----------------------------------------------------------------------------
(* Chunking as section 4.1 of the spec defines it, over the whole file:    *)
(* the window hash computed directly as a polynomial, a chunk ending at    *)
(* the first anchor at or after min_chunk_size bytes, or at max_chunk_size.*)

DirectFp(b, p) ==
  MapThenSumSet(LAMBDA i : At(b, p - i) * polyBase^i, 0 .. slidingWinSize - 1) % polyMOD

IsAnchor(b, p) == DirectFp(b, p) % avgChunkSize = 0

\* The end index of the chunk that starts at byte s.
RefEnd(b, s) ==
  LET lo == s + minChunkSize - 1
      hi == IF s + maxChunkSize - 1 < Len(b) - 1 THEN s + maxChunkSize - 1 ELSE Len(b) - 1
      anchors == {p \in lo .. hi : IsAnchor(b, p)}
  IN IF lo > Len(b) - 1 THEN Len(b) - 1
     ELSE IF anchors = {} THEN hi ELSE Min(anchors)

RECURSIVE RefEndsFrom(_, _)
RefEndsFrom(b, s) ==
  LET e == RefEnd(b, s)
  IN IF e >= Len(b) - 1 THEN <<e>> ELSE <<e>> \o RefEndsFrom(b, e + 1)

RefChunks(b) == ChunksOfBuffer(RefEndsFrom(b, 0), TRUE)

\* The file cut into fread buffers of bufferSize bytes, the last shorter.
FreadBuffers(f) ==
  [i \in 1 .. (Len(f) + bufferSize - 1) \div bufferSize |->
     SubSeq(f, bufferSize * (i - 1) + 1, IF bufferSize * i < Len(f) THEN bufferSize * i ELSE Len(f))]

\* Section 4.1's chunks of each buffer on its own, in order, end = 1 only
\* on the last chunk of the last buffer.
BufferRefChunks(f) ==
  LET bufs == FreadBuffers(f)
  IN FlattenSeq([i \in 1 .. Len(bufs) |-> ChunksOfBuffer(RefEndsFrom(bufs[i], 0), i = Len(bufs))])

-----------------------------------------------------------------------------
(* main.cc, upload: the fread loop that chunks the file buffer by buffer   *)
(* and passes every chunk to KeyEx::add.                                   *)

VARIABLES
  file,     \* the bytes of the input file (size = Len(file))
  total,    \* total: bytes read so far
  emitted   \* the chunks passed to keyObj->add, in order

chunkerVars == <<file, total, emitted>>

ChunkerInit ==
  /\ file \in Files
  /\ total = 0
  /\ emitted = <<>>

\* Fault variant: total advances by bufferSize, not by what fread returned.
ReadBufferFullRet ==
  /\ total < Len(file)
  /\ LET buf == SubSeq(file, total + 1, IF Len(file) - total < bufferSize THEN Len(file) ELSE total + bufferSize)
     IN /\ emitted' = emitted \o ChunksOfBuffer(varSizeChunking(buf), total + bufferSize = Len(file))
        /\ total' = total + bufferSize
  /\ UNCHANGED file

\* One iteration: fread, chunking, the inner loop over the chunks, total += ret.
ReadBuffer ==
  /\ total < Len(file)
  /\ LET ret == IF Len(file) - total < bufferSize THEN Len(file) - total ELSE bufferSize
         buf == SubSeq(file, total + 1, total + ret)
     IN /\ emitted' = emitted \o ChunksOfBuffer(varSizeChunking(buf), total + ret = Len(file))
        /\ total' = total + ret
  /\ UNCHANGED file

Finished == total = Len(file) /\ UNCHANGED chunkerVars

ChunkerNext == ReadBuffer \/ Finished

ChunkerSpec == ChunkerInit /\ [][ChunkerNext]_chunkerVars

-----------------------------------------------------------------------------
TypeOK ==
  /\ file \in Files
  /\ total \in 0 .. Len(file)
  /\ \A j \in 1 .. Len(emitted) : emitted[j].chunk_size \in Nat
                                 /\ emitted[j].end \in {0, 1}

\* Chunking per fread buffer (main.cc:161-199, varSizeChunking): once main
\* has read the whole file, the chunks it passed to KeyEx::add (sizes and
\* end flags) are, buffer after buffer, the chunks section 4.1 defines for
\* that buffer's bytes, with the window hash computed directly, whatever
\* the rolling update and its uint32 wrap-around did; each buffer's last
\* byte ends a chunk and only the file's last chunk has end = 1.  Spec 4.1
\* and 8.1 ask for the chunks of the whole file (RefChunks), independent of
\* the buffers; the code does not give that once a file spans two buffers.
ChunkBoundaries == total = Len(file) => emitted = BufferRefChunks(file)

====
