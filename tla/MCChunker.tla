----------------------------- MODULE MCChunker -----------------------------
(* Chunker with scaled sizes: window 3, min 3, avg 4, max 5, so that       *)
(* anchors, max-size cuts and tail chunks all occur in files of <= 9 bytes.*)
(* Beside it, in the same state graph, a chunk goes through the data codec *)
(* the Encoder builds (encoder.cc:418, CDCodec(type, n_ - kmServerCount_,  *)
(* m, r): n = 4 shares of which any k = 3 restore a chunk) and the         *)
(* Decoder's, with the secret word scaled from 32 bytes to one.  The codec *)
(* takes every byte string of 1 to maxChunkSize bytes, i.e. every chunk    *)
(* the chunker can emit; it runs in the behaviours whose file is that     *)
(* string, once main has emitted it, and stays idle in the others.        *)
EXTENDS Chunker, ChunkCodec

CONSTANTS Bytes, MaxFileLen

FilesUpTo == UNION {[1 .. len -> Bytes] : len \in 1 .. MaxFileLen}

\* Two of the keys aontRSEncoding's lrand48() % 256 can draw, 0 among them.
MCAONTKeys == {<<0>>, <<200>>}

ChunkContents == UNION {[1 .. len -> Bytes] : len \in 1 .. maxChunkSize}

vars == <<chunkerVars, codecVars>>

Init ==
  /\ ChunkerInit
  /\ \/ CodecIdle
     \/ file \in Chunks /\ CodecInit /\ chunk = file

Next ==
  \/ ChunkerNext /\ UNCHANGED codecVars
  \/ total = Len(file) /\ CodecNext /\ UNCHANGED chunkerVars   \* the chunk exists once main emitted it

Spec == Init /\ [][Next]_vars
====
