---------------------------- MODULE MCCollector ----------------------------
(***************************************************************************)
(* Drives the collector with the chunk stream KeyEx::threadHandlerMinHash *)
(* produces for every file of 1..MaxChunks chunks whose fingerprints are *)
(* drawn from Fingerprints(FpByte0, FpByte1): the segmenter cuts and     *)
(* routes them, and the collector pops the result.  The byte values      *)
(* reach every KM cloud and both sides of each boundary test.            *)
(***************************************************************************)
EXTENDS Collector, Segmenter

CONSTANTS MaxChunks, FpByte0, FpByte1

VARIABLES
  fps,     \* the fingerprints of the file's chunks, in chunk order
  input,   \* the chunk stream, in the order collect pops it
  pos      \* index of the next chunk collect pops

vars == <<collectorVars, fps, input, pos>>

Init ==
  /\ CollectorInit
  /\ fps \in UNION {[1 .. L -> Fingerprints(FpByte0, FpByte1)] : L \in 1 .. MaxChunks}
  /\ input \in {threadHandlerMinHash(fps, blind, cacheOn) :
                  blind \in [0 .. Len(fps) - 1 -> BlindFactors], cacheOn \in BOOLEAN}
  /\ pos = 1

\* One iteration of the collect loop that pops a chunk.
Collect ==
  /\ pos <= Len(input)
  /\ exitCode = 0
  /\ Dispatch(input[pos])
  /\ pos' = pos + 1
  /\ UNCHANGED <<fps, input>>

Next == Collect

\* keyExchange of every fingerprint the files can have, computed once;
\* SegmentKeyOf is replaced by MCSegmentKeyOf in the configuration.
KeyTable == [h \in {FpNumber(f) : f \in Fingerprints(FpByte0, FpByte1)} |->
               [r \in BlindFactors |-> keyExchange(h, r)]]
MCSegmentKeyOf(h, r) == KeyTable[h][r]

Spec == Init /\ [][Next]_vars

\* shareIndex[c] is a share id: the last non-KM cloud of a rotation leaves
\* NumClouds - 1 in the KM cloud's slot, and the reset bounds the rest.
TypeOK ==
  /\ previousSegID \in Nat
  /\ shareIndex \in [Clouds -> 0 .. NumClouds - 1]
  /\ metaChunkID \in [Clouds -> -MaxChunks - 1 .. -1]
  /\ exitCode \in {0, -2, -4, -5}
  /\ pos \in 1 .. MaxChunks + 1

\* Spec 4.2 and 8.6, min-hash routing and convergent keys: whatever
\* blinding factors keyExchange draws and whether the LRU cache is on, the
\* stream collect pops cuts the chunks into segments by the four rules,
\* counted from each segment's first chunk, numbers them 0, 1, ..., routes
\* every chunk of a segment to u64(min fingerprint of that segment) mod N
\* and gives it the key H(h^d mod n) of that minimum, whatever earlier
\* segments held (current is reset after every segment).
SegmentsRoutedByOwnMin == input = RefSegments(fps, 1, 0)
====
