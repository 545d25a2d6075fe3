---------------------------- MODULE CDCodecTypes ----------------------------
(***************************************************************************)
(* The other three convergent-dispersal types of CDCodec.cc and the       *)
(* encoding / decoding dispatchers that pick one by CDType_:              *)
(*   CRSSS      - each group of k - r secret words gets r keyed hashes,   *)
(*                and the k words of a group go to k data blocks that     *)
(*                Rabin's IDA (a non-systematic n x k Cauchy matrix)      *)
(*                spreads over n shares; decoding re-checks every hash;   *)
(*   AONT-RS    - the secret words are masked with AES(key, index) under  *)
(*                a random key, the tail word is hash(main) XOR key, and  *)
(*                the package is cut into shares as for CAONT-RS;         *)
(*   old CAONT-RS - AONT-RS with key = hash(aligned secret), and a final  *)
(*                check hash(secret) = key on decoding.                   *)
(* The secret word, the hash and the matrices are those of CDCodec.       *)
(***************************************************************************)
EXTENDS CDCodec

CONSTANT
  AONTKeys   \* the keys lrand48() % 256 can draw in aontRSEncoding, W bytes each

CRSSS_TYPE == "CRSSS"
AONT_RS_TYPE == "AONT_RS"
OLD_CAONT_RS_TYPE == "OLD_CAONT_RS"
CAONT_RS_TYPE == "CAONT_RS"

CDTypeSet == {CRSSS_TYPE, AONT_RS_TYPE, OLD_CAONT_RS_TYPE, CAONT_RS_TYPE}

\* CRSSS branch of the constructor: 0 < r < n - m (the CAONT branch's
\* r = n - m - 1 satisfies it), so a group holds k - r >= 1 secret words.
ASSUME 0 < r /\ r < n - m

-----------------------------------------------------------------------------
(* Constructor, CRSSS branch: group size, buffer sizes and the n x k      *)
(* Cauchy matrix 1 / (i ^ (n_ + j)) over all n rows.                      *)

secretWordsPerGroup == k - r
bytesPerGroup == W * secretWordsPerGroup

crsssAlignedSecretBufferSize == MAX_SECRET_SIZE + W * secretWordsPerGroup

crsssErasureCodingDataSize == (W * (crsssAlignedSecretBufferSize \div (W * secretWordsPerGroup))) * k

\* Mutant: the CAONT branch's Cauchy rows i ^ (m_ + j) used for CRSSS.
crsssDistributionMatrixM ==
  [row \in 0 .. n - 1 |-> [col \in 0 .. k - 1 |-> gfDivide(1, BitXor(row, m + col))]]

crsssDistributionMatrix ==
  [row \in 0 .. n - 1 |-> [col \in 0 .. k - 1 |-> gfDivide(1, BitXor(row, n + col))]]

\* hashInputBuffer_ = the group's bytes followed by the seed byte j.
RHash(group, j) == generateHash(group \o <<j>>)

\* crsssEncoding: [ok, shareSize, shares] with shares[0 .. n-1].  Word j
\* of group i lands at offset W * i of block j when j < k - r; block
\* k - r + j gets the group's hash j.
crsssEncoding(secret) ==
  LET aligned == IF Len(secret) % bytesPerGroup = 0 THEN Len(secret)
                 ELSE bytesPerGroup * ((Len(secret) \div bytesPerGroup) + 1)
      numOfGroups == aligned \div bytesPerGroup
      shareSize == W * numOfGroups
  IN IF crsssAlignedSecretBufferSize < aligned THEN [ok |-> FALSE]
     ELSE IF crsssErasureCodingDataSize < shareSize * k THEN [ok |-> FALSE]
     ELSE
     Bind(secret \o Zeros(aligned - Len(secret)), LAMBDA alignedSecret :
     Bind([i \in 0 .. numOfGroups - 1 |-> SubSeq(alignedSecret, bytesPerGroup * i + 1, bytesPerGroup * (i + 1))], LAMBDA group :
     Bind([j \in 0 .. k - 1 |->
             Concat([i \in 1 .. numOfGroups |->
               IF j < secretWordsPerGroup THEN SubSeq(group[i - 1], W * j + 1, W * (j + 1))
               ELSE RHash(group[i - 1], j - secretWordsPerGroup)])], LAMBDA blocks :
       [ok |-> TRUE, shareSize |-> shareSize,
        shares |-> [s \in 0 .. n - 1 |-> CodeRow(crsssDistributionMatrix[s], blocks, 0, Zeros(shareSize))]])))

\* crsssDecoding: status "ok" with the secret, or "fail" (return 0), also
\* when some group's recomputed hash differs from the stored one.
crsssDecoding(shares, kShareIDList, shareSize, secretSize) ==
  LET numOfGroups == shareSize \div W
      aligned == bytesPerGroup * numOfGroups
  IN IF shareSize % W # 0 THEN [status |-> "fail"]
     ELSE IF crsssErasureCodingDataSize < shareSize * k THEN [status |-> "fail"]
     ELSE IF crsssAlignedSecretBufferSize < aligned THEN [status |-> "fail"]
     ELSE IF secretSize > aligned THEN [status |-> "fail"]
     ELSE
     Bind(squareMatrixInverting([i \in 0 .. k - 1 |-> crsssDistributionMatrix[kShareIDList[i]]]), LAMBDA inverted :
       IF ~inverted.ok THEN [status |-> "fail"]
       ELSE
       Bind([i \in 0 .. k - 1 |-> CodeRow(inverted.inv[i], shares, 0, Zeros(shareSize))], LAMBDA blocks :
       Bind([g \in 0 .. numOfGroups - 1 |->
               Concat([j \in 1 .. secretWordsPerGroup |-> SubSeq(blocks[j - 1], W * g + 1, W * (g + 1))])], LAMBDA group :
         IF \E g \in 0 .. numOfGroups - 1, j \in 0 .. r - 1 :
              SubSeq(blocks[secretWordsPerGroup + j], W * g + 1, W * (g + 1)) # RHash(group[g], j)
         THEN [status |-> "fail"]
         ELSE [status |-> "ok",
               secret |-> SubSeq(Concat([g \in 1 .. numOfGroups |-> group[g - 1]]), 1, secretSize)])))

-----------------------------------------------------------------------------
(* AONT-RS and old CAONT-RS share the CAONT-RS constructor branch (sizes, *)
(* systematic matrix) and its alignment; they differ in the key and in    *)
(* masking word by word: word i is AES(key, wordForIndex_) with the index *)
(* i in the first four bytes (little-endian, the rest 0).                  *)

wordForIndex(i) == [b \in 1 .. W |-> IF b <= 4 THEN (i \div 2^(8 * (b - 1))) % 256 ELSE 0]

\* The loop of encryptWithKey calls over numOfSecretWords indices: [ok,
\* out]; one refused call returns 0 from the codec.
IndexMask(numOfSecretWords, key) ==
  Bind([i \in 1 .. numOfSecretWords |-> encryptWithKey(wordForIndex(i - 1), key)], LAMBDA enc :
    IF \E i \in 1 .. numOfSecretWords : ~enc[i].ok THEN [ok |-> FALSE]
    ELSE [ok |-> TRUE, out |-> Concat([i \in 1 .. numOfSecretWords |-> enc[i].out])])

\* Step 1 + 2 of both encoders once the key is fixed: the package (masked
\* words, then hash(main) XOR key), the first k shares copied from it and
\* the m parity shares from rows k .. n-1.
AONTShares(alignedSecret, key, shareSize) ==
  Bind(IndexMask(Len(alignedSecret) \div W, key), LAMBDA mask :
    IF ~mask.ok THEN [ok |-> FALSE]
    ELSE
    Bind(RegionMultiply(alignedSecret, mask.out, 1, TRUE), LAMBDA main :
    Bind(main \o RegionMultiply(key, generateHash(main), 1, TRUE), LAMBDA package :
    Bind([j \in 0 .. k - 1 |-> SubSeq(package, shareSize * j + 1, shareSize * (j + 1))], LAMBDA blocks :
      [ok |-> TRUE, shareSize |-> shareSize,
       shares |-> [s \in 0 .. n - 1 |->
                     IF s < k THEN blocks[s]
                     ELSE CodeRow(distributionMatrix[s], blocks, 0, Zeros(shareSize))]]))))

\* aontRSEncoding with randomKey the bytes lrand48() % 256 drew.
aontRSEncoding(secret, randomKey) ==
  LET aligned == AlignedSecretSize(Len(secret))
  IN IF alignedSecretBufferSize < aligned THEN [ok |-> FALSE]
     ELSE AONTShares(secret \o Zeros(aligned - Len(secret)), randomKey, ShareSizeOf(aligned))

\* caontRSOldEncoding: the key is the hash of the aligned secret.
caontRSOldEncoding(secret) ==
  LET aligned == AlignedSecretSize(Len(secret))
  IN IF alignedSecretBufferSize < aligned THEN [ok |-> FALSE]
     ELSE Bind(secret \o Zeros(aligned - Len(secret)), LAMBDA alignedSecret :
            AONTShares(alignedSecret, generateHash(alignedSecret), ShareSizeOf(aligned)))

\* The key the decoders recover: hash of the first numOfSecretWords words
\* (into key_), XORed with the last word of the package.  The mutant
\* reads the tail one byte early.
TailKeyOffByOne(package, aligned) ==
  RegionMultiply(SubSeq(package, aligned, aligned + W - 1), generateHash(SubSeq(package, 1, aligned)), 1, TRUE)
TailKey(package, aligned) ==
  RegionMultiply(SubSeq(package, aligned + 1, aligned + W), generateHash(SubSeq(package, 1, aligned)), 1, TRUE)

\* The decoders' common part: the size checks, the inversion, RS decoding
\* of the package, the key as hash(main) XOR tail, and the unmasked
\* aligned secret: [status "ok", key, alignedSecret] or status "fail".
AONTUnmask(shares, kShareIDList, shareSize, secretSize) ==
  LET aligned == shareSize * k - W
  IN IF shareSize % W # 0 THEN [status |-> "fail"]
     ELSE IF erasureCodingDataSize < shareSize * k THEN [status |-> "fail"]
     ELSE IF alignedSecretBufferSize < aligned THEN [status |-> "fail"]
     ELSE IF secretSize > aligned THEN [status |-> "fail"]
     ELSE
     Bind(squareMatrixInverting([i \in 0 .. k - 1 |-> distributionMatrix[kShareIDList[i]]]), LAMBDA inverted :
       IF ~inverted.ok THEN [status |-> "fail"]
       ELSE
       Bind(Concat([i \in 1 .. k |-> CodeRow(inverted.inv[i - 1], shares, 0, Zeros(shareSize))]), LAMBDA package :
       Bind(SubSeq(package, 1, aligned), LAMBDA main :
       Bind(TailKey(package, aligned), LAMBDA key :
       Bind(IndexMask(aligned \div W, key), LAMBDA mask :
         IF ~mask.ok THEN [status |-> "fail"]
         ELSE [status |-> "ok", key |-> key,
               alignedSecret |-> RegionMultiply(main, mask.out, 1, TRUE)])))))

\* aontRSDecoding: no integrity check.
aontRSDecoding(shares, kShareIDList, shareSize, secretSize) ==
  Bind(AONTUnmask(shares, kShareIDList, shareSize, secretSize), LAMBDA u :
    IF u.status # "ok" THEN u
    ELSE [status |-> "ok", secret |-> SubSeq(u.alignedSecret, 1, secretSize)])

\* caontRSOldDecoding: fails unless hash(aligned secret) is the key.
caontRSOldDecoding(shares, kShareIDList, shareSize, secretSize) ==
  Bind(AONTUnmask(shares, kShareIDList, shareSize, secretSize), LAMBDA u :
    IF u.status # "ok" THEN u
    ELSE IF generateHash(u.alignedSecret) # u.key THEN [status |-> "fail"]
    ELSE [status |-> "ok", secret |-> SubSeq(u.alignedSecret, 1, secretSize)])

-----------------------------------------------------------------------------
(* The dispatchers.  keyBuffer is used by CAONT-RS only, randomKey by     *)
(* AONT-RS only; caontRSDecoding's exit(-1) stays "exit".                  *)

encoding(CDType, secret, keyBuffer, randomKey, is_header) ==
  CASE CDType = CRSSS_TYPE        -> crsssEncoding(secret)
    [] CDType = AONT_RS_TYPE      -> aontRSEncoding(secret, randomKey)
    [] CDType = OLD_CAONT_RS_TYPE -> caontRSOldEncoding(secret)
    [] CDType = CAONT_RS_TYPE     -> caontRSEncoding(secret, keyBuffer, is_header)

decoding(CDType, shares, kShareIDList, shareSize, secretSize) ==
  CASE CDType = CRSSS_TYPE        -> crsssDecoding(shares, kShareIDList, shareSize, secretSize)
    [] CDType = AONT_RS_TYPE      -> aontRSDecoding(shares, kShareIDList, shareSize, secretSize)
    [] CDType = OLD_CAONT_RS_TYPE -> caontRSOldDecoding(shares, kShareIDList, shareSize, secretSize)
    [] CDType = CAONT_RS_TYPE     -> caontRSDecoding(shares, kShareIDList, shareSize, secretSize)
====
