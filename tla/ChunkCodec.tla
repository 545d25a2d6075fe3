----------------------------- MODULE ChunkCodec -----------------------------
(* One chunk's way through the data codec: Encoder::thread_handler encodes *)
(* it with the segment key into n shares (encoder.cc:48), downloadFile     *)
(* assembles k of them, in the order the restore servers' streams deliver  *)
(* them, with the kShareIDList that names them (downloader.cc:540-580),    *)
(* and Decoder::thread_handler decodes the package (decoder.cc:48).  The   *)
(* codec is CDCodec / CDCodecTypes, byte by byte, of the CDType both     *)
(* objects were constructed with (encoder.cc:418, decoder.cc:177).        *)
EXTENDS CDCodecTypes, FiniteSets

CONSTANTS
  Chunks,       \* the chunk contents the chunker can emit
  SegmentKeys,  \* the keys KeyEx can derive for a segment
  CDTypes       \* the CDType the Encoder and Decoder are constructed with

VARIABLES
  chunk,         \* the chunk in the codec (<<>>: none)
  encoded,       \* the encoding result, or NoResult before it
  kShareIDList,  \* the share ids of the assembled package, or <<>>
  decoded,       \* the decoding result, or NoResult before it
  cdType         \* CDType_ of the Encoder's and the Decoder's CDCodec

codecVars == <<chunk, encoded, kShareIDList, decoded, cdType>>

NoResult == [status |-> "none"]

\* Every kShareIDList downloadFile can assemble: k distinct share ids, in
\* the order the shares are read.
KShareIDLists ==
  {l \in [0 .. k - 1 -> 0 .. n - 1] : Cardinality({l[i] : i \in 0 .. k - 1}) = k}

CodecIdle ==
  /\ chunk = <<>>
  /\ encoded = NoResult
  /\ kShareIDList = <<>>
  /\ decoded = NoResult
  /\ cdType = CAONT_RS_TYPE

CodecInit ==
  /\ chunk \in Chunks
  /\ encoded = NoResult
  /\ kShareIDList = <<>>
  /\ decoded = NoResult
  /\ cdType \in CDTypes

\* Encoder::thread_handler: encoding(temp.content, temp.chunk_size, ...,
\* temp.total_FP, false), the key being the one KeyEx derived; AONT-RS
\* draws its own random key instead.
Encode ==
  /\ chunk # <<>>
  /\ encoded = NoResult
  /\ \E key \in SegmentKeys, randomKey \in AONTKeys :
       /\ cdType # AONT_RS_TYPE => randomKey = CHOOSE rk \in AONTKeys : TRUE
       /\ cdType # CAONT_RS_TYPE => key = CHOOSE sk \in SegmentKeys : TRUE
       /\ encoded' = encoding(cdType, chunk, <<key>>, randomKey, FALSE)
  /\ UNCHANGED <<chunk, kShareIDList, decoded, cdType>>

\* downloadFile: shareBuffer gets the k shares read, kShareIDList their ids.
Assemble ==
  /\ encoded # NoResult
  /\ encoded.ok
  /\ kShareIDList = <<>>
  /\ \E l \in KShareIDLists : kShareIDList' = l
  /\ UNCHANGED <<chunk, encoded, decoded, cdType>>

\* Decoder::thread_handler: decoding(temp.data, temp.kShareIDList,
\* temp.shareSize, temp.secretSize, ...).
Decode ==
  /\ kShareIDList # <<>>
  /\ decoded = NoResult
  /\ decoded' = decoding(cdType, [i \in 0 .. k - 1 |-> encoded.shares[kShareIDList[i]]],
                         kShareIDList, encoded.shareSize, Len(chunk))
  /\ UNCHANGED <<chunk, encoded, kShareIDList, cdType>>

CodecDone ==
  /\ decoded # NoResult \/ (encoded # NoResult /\ ~encoded.ok)
  /\ UNCHANGED codecVars

CodecNext == Encode \/ Assemble \/ Decode \/ CodecDone

-----------------------------------------------------------------------------
\* CDCodec.cc, restore from any k shares: a chunk main emits, encoded by
\* the codec of any CDType (CAONT-RS with the segment key: padding, AES
\* mask, hash tail, Cauchy parity; CRSSS: per-group hashes spread by
\* Rabin's IDA; AONT-RS with any random key; old CAONT-RS), encodes
\* without error, and decoding any k of its n shares in any order
\* (squareMatrixInverting of the rows kShareIDList names, then the
\* type's own integrity checks) gives back the chunk without error or exit.
ChunkRestoredFromAnyKShares ==
  /\ encoded # NoResult => encoded.ok
  /\ decoded # NoResult => decoded = [status |-> "ok", secret |-> chunk]
====
