------------------------------ MODULE CDCodec ------------------------------
(***************************************************************************)
(* The CAONT-RS codec of src/client/coding/CDCodec.cc (CAONT_RS_TYPE), the *)
(* one the encoder and decoder construct.  A secret is padded to an       *)
(* aligned size, masked with AES(key, alignedSizeConstant_), followed by a *)
(* tail hash(main) XOR key (the CAONT package), cut into k data shares,   *)
(* and m parity shares are added with a systematic Cauchy Reed-Solomon    *)
(* code over GF(2^8).  Decoding inverts the k x k submatrix named by      *)
(* kShareIDList by the code's own Gauss-Jordan loop, rebuilds the package *)
(* and recovers the key from the tail.                                    *)
(*                                                                         *)
(* Data: a buffer is a sequence of byte values (C index i is element i+1) *)
(* and a word is W bytes (bytesPerSecretWord_ = the hash size).  SHA-256  *)
(* and AES-256-CBC are abstracted to deterministic keyed byte functions:  *)
(* the codec only needs them to be functions, and the size checks that    *)
(* CryptoPrimitive makes (the block multiple) are kept.                   *)
(***************************************************************************)
EXTENDS Integers, Sequences, Bitwise

CONSTANTS
  n, m, r,          \* CDCodec(CAONT_RS_TYPE, n, m, r, cryptoObj)
  W,                \* bytesPerSecretWord_ = getHashSize() = getKeySize()
  BlockSize,        \* cryptoObj_->blockSize_, the AES block
  MAX_SECRET_SIZE   \* the compile-time bound of CDCodec.hh

k == n - m

\* The constructor's checks, each an exit(1) otherwise.
ASSUME n > 0 /\ m > 0 /\ m < n /\ n - m > 1 /\ r = n - m - 1

\* Bind(v, F) is F(v) with v computed once, as the code computes each
\* buffer once and then reads it: v is bound to a value by the set, where
\* a LET or an operator argument would be evaluated again at every use.
Bind(v, F(_)) == CHOOSE res \in {F(x) : x \in {v}} : TRUE

-----------------------------------------------------------------------------
(* GF(2^8) of gf-complete's gf_init_easy(&gfObj_, 8): the polynomial      *)
(* x^8+x^4+x^3+x^2+1 (0x11d), products through log and antilog tables of  *)
(* the generator 2.  The tables are sequences built by concatenation, 16   *)
(* entries at a time, so that TLC computes them once and within its stack;*)
(* the codec below uses them and not the recursive Bitwise operators.     *)

XTime(a) == IF a >= 128 THEN (2 * a - 256) ^^ 29 ELSE 2 * a

\* Shift-and-add product and square-and-multiply power, to fill the tables.
RECURSIVE MulSlow(_, _)
MulSlow(a, b) ==
  IF b = 0 THEN 0 ELSE (IF b % 2 = 1 THEN a ELSE 0) ^^ MulSlow(XTime(a), b \div 2)

RECURSIVE PowerOf2(_)
PowerOf2(i) ==
  IF i = 0 THEN 1
  ELSE LET half == PowerOf2(i \div 2)
       IN MulSlow(MulSlow(half, half), IF i % 2 = 1 THEN 2 ELSE 1)

\* <<F(1), ..., F(len)>>, built eagerly.
RECURSIVE TableRun(_, _, _)
TableRun(F(_), from, len) == IF len = 0 THEN <<>> ELSE <<F(from)>> \o TableRun(F, from + 1, len - 1)
RECURSIVE TableFrom(_, _, _)
TableFrom(F(_), acc, len) ==
  IF Len(acc) = len THEN acc
  ELSE TableFrom(F, CHOOSE t \in {acc \o TableRun(F, Len(acc) + 1, IF len - Len(acc) < 16 THEN len - Len(acc) ELSE 16)} : TRUE, len)

\* XorTable[a + 1][b + 1] = a XOR b on bytes.
XorTable == TableFrom(LAMBDA a : TableFrom(LAMBDA b : (a - 1) ^^ (b - 1), <<>>, 256), <<>>, 256)
BitXor(a, b) == XorTable[a + 1][b + 1]

GFExp == TableFrom(LAMBDA i : PowerOf2(i - 1), <<>>, 255)                   \* GFExp[i + 1] = 2^i
GFLog == LET exp == GFExp                                                  \* 2^GFLog[a] = a
         IN TableFrom(LAMBDA a : CHOOSE i \in 0 .. 254 : exp[i + 1] = a, <<>>, 255)

gfMultiply(a, b) ==
  IF a = 0 \/ b = 0 THEN 0 ELSE GFExp[((GFLog[a] + GFLog[b]) % 255) + 1]

\* a / b; gf-complete's log-table divide yields 0 when a or b is 0.
gfDivide(a, b) ==
  IF a = 0 \/ b = 0 THEN 0 ELSE GFExp[((GFLog[a] - GFLog[b] + 255) % 255) + 1]

\* gfObj_.multiply_region.w32(src, dest, coef, bytes, add): dest becomes
\* coef*src, XORed into dest when add = 1.
RegionMultiply(src, dest, coef, add) ==
  Bind(src, LAMBDA s : Bind(dest, LAMBDA d :
    [i \in 1 .. Len(s) |-> IF add THEN BitXor(d[i], gfMultiply(s[i], coef)) ELSE gfMultiply(s[i], coef)]))

Zeros(len) == [i \in 1 .. len |-> 0]

RECURSIVE Concat(_)
Concat(blocks) ==
  IF blocks = <<>> THEN <<>> ELSE Bind(Tail(blocks), LAMBDA rest : Head(blocks) \o Concat(rest))

-----------------------------------------------------------------------------
(* CryptoPrimitive, abstracted.  generateHash yields W bytes from a       *)
(* buffer; encryptWithKey refuses a size that is not a block multiple and *)
(* otherwise yields a buffer of the same size fixed by data and key.      *)

RECURSIVE HashWord(_, _, _)
HashWord(w, h, data) ==
  IF data = <<>> THEN h
  ELSE Bind(BitXor(gfMultiply(BitXor(h, Head(data)), w + 1), 1), LAMBDA h2 :
         Bind(Tail(data), LAMBDA rest : HashWord(w, h2, rest)))

generateHash(data) == Bind(data, LAMBDA d : [w \in 1 .. W |-> HashWord(w, w, d)])

encryptWithKey(data, key) ==
  Bind(data, LAMBDA d : Bind(key, LAMBDA kb :
    IF Len(d) % BlockSize # 0 THEN [ok |-> FALSE]
    ELSE [ok |-> TRUE,
          out |-> [i \in 1 .. Len(d) |-> BitXor(gfMultiply(BitXor(d[i], kb[((i - 1) % W) + 1]), 3), 90)]]))

-----------------------------------------------------------------------------
(* Constructor, CAONT-RS branch: buffer sizes, the size constant and the  *)
(* distribution matrix (identity on the first k rows, then the Cauchy     *)
(* rows 1 / (i ^ (m_ + j))).                                               *)

alignedSecretBufferSize == MAX_SECRET_SIZE + W * k

alignedSizeConstant == [i \in 1 .. alignedSecretBufferSize |-> (i - 1) % 256]   \* i & 0xff

erasureCodingDataSize == (W * (((alignedSecretBufferSize \div W) + 1) \div k)) * k

distributionMatrix ==
  [row \in 0 .. n - 1 |-> [col \in 0 .. k - 1 |->
     IF row < k THEN (IF row = col THEN 1 ELSE 0)
     ELSE gfDivide(1, BitXor(row - k, m + col))]]

-----------------------------------------------------------------------------
(* squareMatrixInverting: Gauss-Jordan elimination as the code does it.   *)
(* The state is [ok, sq, inv] (squareMatrix_, inverseMatrix_); rows and   *)
(* columns are 0 .. k-1.  The code's separate branch for a factor of 1 is *)
(* the multiply by 1 and needs no case of its own.                        *)

Identity == [i \in 0 .. k - 1 |-> [j \in 0 .. k - 1 |-> IF i = j THEN 1 ELSE 0]]

MinRow(S) == CHOOSE j \in S : \A j2 \in S : j <= j2

SwapRows(mat, a, b) == [mat EXCEPT ![a] = mat[b], ![b] = mat[a]]

ScaleRow(row, f) == [l \in 0 .. k - 1 |-> gfMultiply(row[l], f)]

AddScaledRow(row, src, f) == [l \in 0 .. k - 1 |-> BitXor(row[l], gfMultiply(src[l], f))]

\* Fault variant: a zero pivot is left in place (no row swap).
PivotSwapNoSwap(st, i) ==
  LET nonzero == {j \in i + 1 .. k - 1 : st.sq[j][i] # 0}
  IN IF st.sq[i][i] # 0 THEN st
     ELSE IF nonzero = {} THEN [st EXCEPT !.ok = FALSE]
     ELSE st

\* A zero pivot is swapped with the first row below with a nonzero entry
\* in column i, in both matrices; with none, the matrix is noninvertible.
PivotSwap(st, i) ==
  LET nonzero == {j \in i + 1 .. k - 1 : st.sq[j][i] # 0}
  IN IF st.sq[i][i] # 0 THEN st
     ELSE IF nonzero = {} THEN [st EXCEPT !.ok = FALSE]
     ELSE [st EXCEPT !.sq = SwapRows(@, i, MinRow(nonzero)), !.inv = SwapRows(@, i, MinRow(nonzero))]

\* Divide row i by its pivot when the pivot is not 1.
Normalize(st, i) ==
  LET f == gfDivide(1, st.sq[i][i])
  IN IF st.sq[i][i] = 1 THEN st
     ELSE [st EXCEPT !.sq[i] = ScaleRow(@, f), !.inv[i] = ScaleRow(@, f)]

\* Add multiples of row i to the rows below it to clear column i.
EliminateBelow(st, i) ==
  LET clear(j) == j > i /\ st.sq[j][i] # 0
  IN [st EXCEPT
        !.sq  = [j \in 0 .. k - 1 |-> IF clear(j) THEN AddScaledRow(st.sq[j], st.sq[i], st.sq[j][i]) ELSE st.sq[j]],
        !.inv = [j \in 0 .. k - 1 |-> IF clear(j) THEN AddScaledRow(st.inv[j], st.inv[i], st.sq[j][i]) ELSE st.inv[j]]]

RECURSIVE ToUpperTriangular(_, _)
ToUpperTriangular(st, i) ==
  IF i = k THEN st
  ELSE Bind(PivotSwap(st, i), LAMBDA swapped :
         IF ~swapped.ok THEN swapped
         ELSE Bind(Normalize(swapped, i), LAMBDA normal :
                Bind(EliminateBelow(normal, i), LAMBDA next : ToUpperTriangular(next, i + 1))))

\* Back substitution updates inverseMatrix_ only and zeroes squareMatrix_[h].
EliminateAbove(st, i) ==
  LET clear(j) == j < i /\ st.sq[j][i] # 0
  IN [st EXCEPT
        !.inv = [j \in 0 .. k - 1 |-> IF clear(j) THEN AddScaledRow(st.inv[j], st.inv[i], st.sq[j][i]) ELSE st.inv[j]],
        !.sq  = [j \in 0 .. k - 1 |-> IF clear(j) THEN [st.sq[j] EXCEPT ![i] = 0] ELSE st.sq[j]]]

RECURSIVE BackSubstitute(_, _)
BackSubstitute(st, i) ==
  IF i < 0 THEN st ELSE Bind(EliminateAbove(st, i), LAMBDA next : BackSubstitute(next, i - 1))

squareMatrixInverting(squareMatrix) ==
  Bind([ok |-> TRUE, sq |-> squareMatrix, inv |-> Identity], LAMBDA start :
    Bind(ToUpperTriangular(start, 0), LAMBDA upper :
      IF upper.ok THEN BackSubstitute(upper, k - 1) ELSE upper))

-----------------------------------------------------------------------------
(* One row of the RS code applied to k blocks: blocks[0]*coefs[0] written *)
(* (add = 0), the later products XORed in (add = 1).                      *)
RECURSIVE CodeRow(_, _, _, _)
CodeRow(coefs, blocks, j, acc) ==
  IF j = k THEN acc
  ELSE Bind(RegionMultiply(blocks[j], acc, coefs[j], j # 0), LAMBDA next : CodeRow(coefs, blocks, j + 1, next))

AlignedSecretSize(secretSize) ==
  IF (secretSize + W) % (W * k) = 0 THEN secretSize
  ELSE (W * k) * (((secretSize + W) \div (W * k)) + 1) - W

ShareSizeOf(alignedSecretSize) == W * (((alignedSecretSize \div W) + 1) \div k)

\* caontRSEncoding: [ok, shareSize, shares] with shares[0 .. n-1].
caontRSEncoding(secret, keyBuffer, is_header) ==
  LET aligned == AlignedSecretSize(Len(secret))
      shareSize == ShareSizeOf(aligned)
  IN IF alignedSecretBufferSize < aligned THEN [ok |-> FALSE]
     ELSE
     Bind(secret \o Zeros(aligned - Len(secret)), LAMBDA alignedSecret :
     Bind(IF ~is_header THEN keyBuffer ELSE generateHash(alignedSecret), LAMBDA key :
     Bind(encryptWithKey(SubSeq(alignedSizeConstant, 1, aligned), key), LAMBDA enc :
       IF ~enc.ok THEN [ok |-> FALSE]
       ELSE
       Bind(RegionMultiply(alignedSecret, enc.out, 1, TRUE), LAMBDA main :
       Bind(main \o RegionMultiply(key, generateHash(main), 1, TRUE), LAMBDA package :
       Bind([j \in 0 .. k - 1 |-> SubSeq(package, shareSize * j + 1, shareSize * (j + 1))], LAMBDA blocks :
         [ok |-> TRUE, shareSize |-> shareSize,
          shares |-> [s \in 0 .. n - 1 |->
                        IF s < k THEN blocks[s]
                        ELSE CodeRow(distributionMatrix[s], blocks, 0, Zeros(shareSize))]]))))))

\* caontRSDecoding: status "ok" with the secret, "fail" (return 0) or
\* "exit" (exit(-1)).  shares[0 .. k-1] are the shares kShareIDList names.
caontRSDecoding(shares, kShareIDList, shareSize, secretSize) ==
  LET aligned == shareSize * k - W
  IN IF shareSize % W # 0 THEN [status |-> "fail"]
     ELSE IF erasureCodingDataSize < shareSize * k THEN [status |-> "fail"]
     ELSE IF alignedSecretBufferSize < aligned THEN [status |-> "fail"]
     ELSE IF secretSize > aligned THEN [status |-> "exit"]
     ELSE
     Bind(squareMatrixInverting([i \in 0 .. k - 1 |-> distributionMatrix[kShareIDList[i]]]), LAMBDA inverted :
       IF ~inverted.ok THEN [status |-> "exit"]
       ELSE
       Bind(Concat([i \in 1 .. k |-> CodeRow(inverted.inv[i - 1], shares, 0, Zeros(shareSize))]), LAMBDA package :
       Bind(SubSeq(package, 1, aligned), LAMBDA main :
       Bind(RegionMultiply(SubSeq(package, aligned + 1, aligned + W), generateHash(main), 1, TRUE), LAMBDA key :
       Bind(encryptWithKey(SubSeq(alignedSizeConstant, 1, aligned), key), LAMBDA enc :
         IF ~enc.ok THEN [status |-> "fail"]
         \* the hash of the aligned secret computed last is not checked
         ELSE [status |-> "ok",
               secret |-> SubSeq(RegionMultiply(main, enc.out, 1, TRUE), 1, secretSize)])))))
====
