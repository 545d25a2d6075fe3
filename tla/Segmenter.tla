----------------------------- MODULE Segmenter -----------------------------
(***************************************************************************)
(* Min-hash segmentation and KM routing of KeyEx::threadHandlerMinHash     *)
(* (src/client/keyClient/exchange.cc).  The thread pops the hashed chunks *)
(* in order, buffers them in segBuffer, keeps the segment's minimum       *)
(* fingerprint in current, and on a segment boundary routes the segment   *)
(* to the key manager calculateKMServerIndex(current, serverCount_) and   *)
(* hands its chunks to the encoder with that kmCloudIndex.                 *)
(*                                                                         *)
(* A fingerprint is what the thread reads of it: its first two bytes      *)
(* b0, b1 (the bytes 2..7 of its uint64 prefix are taken as 0) and        *)
(* whether its last 9 bytes are ASCII '0'.  memcmp orders fingerprints by *)
(* their bytes; the uint64 and int prefixes read them little-endian.      *)
(***************************************************************************)
EXTENDS Integers, Sequences, KeyExchange

CONSTANTS
  ItemSize,          \* sizeof(Chunk_t): what segSizeTemp adds per chunk
  MIN_SEGMENT_SIZE,  \* exchange.hh
  MAX_SEGMENT_SIZE,  \* exchange.hh
  DIVISOR,           \* exchange.hh: (AVG - MIN) / (8 * (2 << 10)), a power of two
  ServerCount        \* serverCount_ = the encoder's n_

ASSUME ItemSize > 0 /\ MIN_SEGMENT_SIZE < MAX_SEGMENT_SIZE
ASSUME \E p \in 0 .. DIVISOR : DIVISOR = 2^p

PATTERN == DIVISOR - 1

\* The fingerprints a chunk can have, bytes b0 from B0 and b1 from B1.
Fingerprints(B0, B1) == [b0 : B0, b1 : B1, zeroTail : BOOLEAN]

\* memcmp(a, b, HASH_SIZE) < 0 on the bytes the model keeps.
FpLess(a, b) == a.b0 < b.b0 \/ (a.b0 = b.b0 /\ a.b1 < b.b1)

\* memset(current, 0xFF, HASH_SIZE)
AllOnes == [b0 |-> 255, b1 |-> 255, zeroTail |-> FALSE]

\* BN_bin2bn(hash_buf, HASH_SIZE): the fingerprint as a big-endian number.
FpNumber(fp) == 256 * fp.b0 + fp.b1

\* calculateKMServerIndex: *(uint64_t *) fingerprint % modulus
calculateKMServerIndex(fp) == (fp.b0 + 256 * fp.b1) % ServerCount

\* The boundary test of the loop, after segSizeTemp and current are updated:
\* remainder = *(int *) total_FP & (DIVISOR - 1) is the low bits of b0.
IsBoundary(fp, segSizeTemp, end) ==
  \/ fp.b0 % DIVISOR = PATTERN /\ segSizeTemp >= MIN_SEGMENT_SIZE
  \/ segSizeTemp > MAX_SEGMENT_SIZE
  \/ fp.zeroTail
  \/ end = 1

\* The chunks of a closed segment as Encoder::add receives them: the key
\* replaces total_FP and the KM index is set.
CloseSegment(ids, segID, km, key, last) ==
  [j \in 1 .. Len(ids) |-> [chunk_id |-> ids[j], seg_id |-> segID,
                            kmCloudIndex |-> km, key |-> key,
                            end |-> IF last /\ j = Len(ids) THEN 1 ELSE 0]]

\* The segment key: with ENABLE_LRU_CACHE a cached key of current is
\* reused, otherwise keyExchange runs (countChunkInSeg is never 0 here)
\* with the blinding factor drawn for this segment.
SegmentKey(st, cur) ==
  IF st.cacheOn /\ cur \in DOMAIN st.cache THEN st.cache[cur]
  ELSE SegmentKeyOf(FpNumber(cur), st.blind[st.segID])

\* keyCache.insert on a miss.
CacheAfter(st, cur, key) ==
  IF st.cacheOn /\ cur \notin DOMAIN st.cache
  THEN [f \in DOMAIN st.cache \cup {cur} |-> IF f = cur THEN key ELSE st.cache[f]]
  ELSE st.cache

\* After a boundary: segSizeTemp = 0, ++segID, current = 0xFF..FF,
\* countChunkInSeg = 0, the segment's chunks appended to the encoder input.
NextSegmentStateNoReset(st, cur, key, closed) ==
  [st EXCEPT !.ids = <<>>, !.size = 0, !.current = cur, !.segID = st.segID + 1,
             !.cache = CacheAfter(st, cur, key), !.out = st.out \o closed]

NextSegmentState(st, cur, key, closed) ==
  [st EXCEPT !.ids = <<>>, !.size = 0, !.current = AllOnes, !.segID = st.segID + 1,
             !.cache = CacheAfter(st, cur, key), !.out = st.out \o closed]

\* The main loop, from the chunk fps[i] on: st holds segBuffer (the chunk
\* ids, countChunkInSeg = Len(st.ids)), segSizeTemp, current and segID, and
\* the chunks already handed to the encoder.  Each popped chunk gets the
\* open segment's id, is buffered, updates current if memcmp finds it
\* smaller, and then the boundary test runs; a boundary routes the segment
\* to calculateKMServerIndex(current), gets its key and opens the next one.
RECURSIVE MinHashLoop(_, _, _)
MinHashLoop(fps, i, st) ==
  IF i > Len(fps) THEN st.out
  ELSE LET end  == IF i = Len(fps) THEN 1 ELSE 0
           ids  == Append(st.ids, i - 1)
           size == st.size + ItemSize
           cur  == IF FpLess(fps[i], st.current) THEN fps[i] ELSE st.current
       IN IF IsBoundary(fps[i], size, end)
          THEN Bind(SegmentKey(st, cur), LAMBDA key :
                 MinHashLoop(fps, i + 1,
                   NextSegmentState(st, cur, key,
                     CloseSegment(ids, st.segID, calculateKMServerIndex(cur), key, end = 1))))
          ELSE MinHashLoop(fps, i + 1, [st EXCEPT !.ids = ids, !.size = size,
                                                  !.current = cur])

\* The stream the encoder receives for a file whose chunks (chunk ids 0, 1,
\* ...; end = 1 on the last) have the fingerprints fps, when segment j is
\* blinded with blind[j] and cacheOn is cacheType_ == ENABLE_LRU_CACHE.
\* keyCache starts empty for every file; LRU_CACHE_SIZE (1000) entries
\* are never exceeded by the segments modelled, so nothing is evicted.
threadHandlerMinHash(fps, blind, cacheOn) ==
  MinHashLoop(fps, 1, [ids |-> <<>>, size |-> 0, current |-> AllOnes,
                       segID |-> 0, out |-> <<>>, blind |-> blind,
                       cacheOn |-> cacheOn, cache |-> <<>>])

-----------------------------------------------------------------------------
(***************************************************************************)
(* Segmentation as spec.md sections 3 and 4.2 define it, directly: a      *)
(* segment starting at chunk s ends at the first chunk e at which one of  *)
(* the four rules fires for the chunks s..e, and carries the minimum      *)
(* fingerprint of its chunks; km_cloud_index = u64_le(min_fp) mod N.     *)
(* The accumulated size is what the code accumulates, ItemSize per chunk; *)
(* the spec's MIN_SEG/MAX_SEG are payload sizes (see README).             *)
(***************************************************************************)
RefRule(fps, s, e) == IsBoundary(fps[e], (e - s + 1) * ItemSize, IF e = Len(fps) THEN 1 ELSE 0)

RefSegEnd(fps, s) == CHOOSE e \in s .. Len(fps) :
                       RefRule(fps, s, e) /\ \A j \in s .. e - 1 : ~RefRule(fps, s, j)

RefMinFp(fps, s, e) == CHOOSE f \in {fps[j] : j \in s .. e} :
                         \A j \in s .. e : ~FpLess(fps[j], f)

RECURSIVE RefSegments(_, _, _)
RefSegments(fps, s, segID) ==
  IF s > Len(fps) THEN <<>>
  ELSE LET e == RefSegEnd(fps, s)
       IN [j \in 1 .. e - s + 1 |->
             [chunk_id |-> s + j - 2, seg_id |-> segID,
              kmCloudIndex |-> calculateKMServerIndex(RefMinFp(fps, s, e)),
              key |-> ConvergentKey(FpNumber(RefMinFp(fps, s, e))),
              end |-> IF s + j - 1 = Len(fps) THEN 1 ELSE 0]]
          \o RefSegments(fps, e + 1, segID + 1)
====
