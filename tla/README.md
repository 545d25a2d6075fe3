# TLA+ models of the metadedup client and server

This directory models the parts of metadedup (`src/`) whose correctness
depends on concurrency and on protocol state. They are checked with TLC.

## The system

metadedup is a secure-deduplication storage client and server.

**Upload** (`src/client/main.cc`, `-u`) runs these threads, connected by
single-producer single-consumer `MessageQueue`s (`utils/MessageQueue.hh`):

1. **main** chunks the file (`chunking/chunker.cc`). It pushes every
   `Chunk_t` round robin into the `KEYEX_NUM_THREADS = 2` input queues of
   `KeyEx` (`KeyEx::add`). On the last chunk it sets `end = 1` and calls
   `set_job_done` on the queues. In trace mode this happens in
   `Chunker::trace_driven_FSL_chunking`.
2. **KeyEx hash threads** (`exchange.cc` `thread_handler_hash`). Each one
   pops a chunk from its lane, fingerprints it and pushes it on the same
   lane of the output queue.
3. **KeyEx min-hash thread** (`threadHandlerMinHash`).
   - It pops the output lanes round robin (`buffer_index`) and collects
     the chunks into a segment.
   - A segment closes at the end chunk, at `MAX_SEGMENT_SIZE`, or when a
     fingerprint condition holds. On a close it picks the key-manager (KM)
     cloud from the segment's minimum fingerprint, runs the key exchange,
     and hands every chunk to `Encoder::add`, round robin over
     `NUM_THREADS = 2` lanes.
4. **Encoder encode threads** (`encoder.cc` `thread_handler`) run the
   secret sharing (`CDCodec`). The **share-hash threads**
   (`thread_handler_hash`) fingerprint the shares. Both work lane by lane.
5. **Encoder::collect** does the following:
   - pops the share lanes round robin (`nextBufferIndex`);
   - sends the shares of each secret to the n clouds, rotating from the
     cloud after the KM cloud;
   - builds one metadata chunk per segment and cloud;
   - at the end, sends the fake end chunks that mark the end of the
     stream;
   - closes the Uploader's `ringBuffer_` / `ringBufferMeta_` queues.
6. **Uploader threads** (`comm/uploader.cc`). One data thread and one
   metadata thread per cloud batch the items and send them over SSL.

Every loop has the same exit test:
`if (in->done_ && in->is_empty()) {close outputs; break;}`.

**Download** (`-d`) runs the same structure in reverse:

- the Downloader's meta and data threads per cloud;
- the Decoder threads;
- a collect thread.

**The server** (`src/server`) has these parts:

- a front end (`comm/server.cc`). `runReceive` accepts one data, one
  metadata and one KM (SSL) connection, in that order, forever, and
  starts a detached handler thread for each. The metadata and data
  handlers serve `META` (first-stage dedup, status reply), `DATA`
  (second-stage dedup), `INIT_REQUEST` (metadata: special indicator,
  recipe and MetaList, under the server-wide `mutex`) and `DOWNLOAD`
  (data: `restoreShareFile`, under the same `mutex`). The KM handler
  answers blinded-hash batches until `EXIT_KM_THREAD` (-202) or close;
- the deduplication cores. Only their header `dedup/DedupCore.hh` is in
  the repository.

## Modules

| module | models | source |
|---|---|---|
| `Collector` | One iteration of the `Encoder::collect` loop body, as the operator `Dispatch(temp)`. Its parts are the segment-change flush (`FlushSegment`), the KM-cloud branch (`KMStep`), the share branch (`ShareStep`) and the rotation over the clouds (`RotationLoop`). Its state is collect's locals (`previousSegID`, `shareIndex`, `metaChunkID`, `metaChunkBuffer` as `metaNodes`), the Uploader queues `ringBuffer`/`ringBufferMeta`, and `exitCode` for the `exit(-2)`/`exit(-4)` paths. | `encoder.cc:134-371`, `503-535` |
| `Segmenter` | `KeyEx::threadHandlerMinHash` after the pop, as the RECURSIVE operator `MinHashLoop` over the file's fingerprints. It follows the code's order per chunk: set `seg_id`, buffer the chunk, add `sizeof(Chunk_t)` to `segSizeTemp`, update `current` by memcmp, then the boundary test `IsBoundary` (pattern and `MIN_SEGMENT_SIZE`, `> MAX_SEGMENT_SIZE`, zero tail, `end`). At a boundary it computes `calculateKMServerIndex(current)`, takes the key from the LRU cache or from `keyExchange` (`SegmentKey`, `CacheAfter`), resets (`NextSegmentState`) and hands the segment's chunks, keyed and routed, to the encoder (`CloseSegment`). A fingerprint is its first two bytes and whether its last 9 bytes are `'0'`. `RefSegments` is spec 4.2's segmentation, defined directly: each segment ends at the first chunk where a rule fires, and carries the minimum of its own chunks. | `exchange.cc:149-315`, `713-717`, `exchange.hh:65-66` |
| `KeyExchange` | The blinded RSA exchange of one segment over a small RSA key: `decoration` (h·r^e mod n), `KeyManagerSign` (the KM handler's `BN_mod_exp` with d), `elimination` (times `BN_mod_inverse(r)`, extended Euclid) and `generateHash`. `BN_mod_exp` is square-and-multiply. `ConvergentKey` is the reference: H(h^d mod n), with the power computed right to left. | `exchange.cc:526-667`, `server.cc:641-661`, `CryptoPrimitive.cc:301-313` |
| `MCCollector` | Drives `Dispatch` with the stream `Segmenter` produces for every file of up to `MaxChunks` chunks over a small fingerprint alphabet, every blinding factor per segment and the LRU cache on or off. The alphabet reaches every KM cloud and every boundary rule. `KeyTable` computes `keyExchange` once per fingerprint and factor; the cfg substitutes it for `SegmentKeyOf`. | `encoder.cc:172-190` |
| `Pipeline` | The threads of the upload pipeline up to the Uploader queues: main (`AddChunk`, `SkipLine`, `SetJobDone`), the three kinds of stage worker (`StageLoop`), the min-hash thread (`MinHashPop`, `MinHashExit`) and collect (`CollectPop`, `CollectExit`). `CollectPop` calls `Collector!Dispatch`. Each exit test is two steps, `ReadFirst` (done_) and `ReadSecond` (is_empty), as the code reads them. | `main.cc`, `chunker.cc`, `exchange.cc`, `encoder.cc`, `MessageQueue.hh` |
| `OrderedStream` | The abstract promise of the pipeline. Chunks are sent in order, closed, received in order exactly once, and then the receiver finishes. `Pipeline` instantiates it with a refinement mapping. | spec.md |
| `MCPipeline` | Constants for the pipeline runs, and `OversizeChoices`: which trace lines are over-size (any subset, or any subset but the last line). | |
| `Uploader` | The Uploader's metadata and data threads (`thread_handler_meta`, `thread_handler`), one per slot `s` (cloud `s % 5`, metadata if `s >= 5`). Each iteration pops an item (`UploaderPop`): the fake item or the end indicator ends the loop (uploading the buffer), a share goes through `AddShare` (overflow flush = `performUpload` + `updateHeader`, entry append, upload on `SHARE_END`). `performUpload` is modelled whole: the server's status list (true = duplicate) is a choice made per share as it is added; the container (`ContainerBytes`, byte j of a share tagged with its ids and j) is compacted by `Compact` as the loop does it, moving each kept share down to `indexCount` (`MoveBytes`); `accuData_`/`accuUnique_` are kept; the batch records the metadata buffer, the shares and the bytes sent. The detached `collect_header` thread is `CollectHeader`. An uploader that uses `headerArray_` before it is assigned sets `headerUB`, after which nothing is modelled. | `uploader.cc:24-259`, `389-564`, `encoder.cc:543-575` |
| `MCUploader` | Drives `Collector!Dispatch` as collect does and runs the Observed uploader slots against it. `HeaderBeforeData` says whether collect may start only after `collect_header` has finished. | `encoder.cc:172-195` |
| `Decoder` | The decode threads (`DecReadDone`, `DecReadEmpty`, `DecPop`) and `Decoder::collect` (`CollectPop`, `CollectExit`), with its `FWRITE_BUFFER_SIZE` write buffer (`CollectStore`). A package is its secret id, size, `kShareIDList` and the share ids actually in it; decoding passes it on. `decoder.hh` is not in the repository, so its sizes are constants. | `decoder.cc` |
| `Downloader` | A download (`main.cc -d`): `PreDownload`, `EnterWait` (`cv_mutex.wait`), the metadata threads (`MetaStart`: special indicator, MetaList; `MetaFinish`: `--server_mutex_num`, `notify_one`), `SignalData`, the data threads (`DataStart`: fake or real header; `DataPush`), the header loop (`PopHeader`, `HeadersDone`) and the assembly loop of `downloadFile` (`AssembleSkip`, `AssembleRead`, `AssembleEnd`). The server's replies (`ServedShares`, `ServedMetaList`) are modelled from spec.md 4.6-4.7, since `DedupCore` has no implementation here. | `downloader.cc`, `main.cc:230-262` |
| `Chunker` | `Chunker::varSizeChunking` as RECURSIVE operators that follow the code: `powerLUT`, `removeLUT` and `anchorMask` from the constructor, `FirstWinFp` (the first window), `Roll` (the rolling update), `Scan` (the inner loop), `ChunkLoop` (the outer loop with its min/max limits) and the tail chunk. Around them is main's fread loop (`ReadBuffer`), which chunks the file one buffer at a time and builds the chunks passed to `KeyEx::add`. `RefChunks` is section 4.1's definition over a byte string, with the window hash computed directly as a polynomial; `BufferRefChunks` applies it to each fread buffer of the file (`FreadBuffers`) in turn. | `chunker.cc:18-205`, `main.cc:128-199` |
| `CDCodec` | The CAONT-RS codec main builds (`CAONT_RS_TYPE`), as operators. It covers the constructor's checks, buffer sizes, `alignedSizeConstant_` and the systematic Cauchy `distributionMatrix`. `squareMatrixInverting` is Gauss-Jordan as the code does it: `PivotSwap`, `Normalize`, `EliminateBelow`, then `BackSubstitute`. `caontRSEncoding` pads, masks, appends the hash tail and computes the parity rows. `caontRSDecoding` returns `"ok"` with the secret, `"fail"` (return 0) or `"exit"` (`exit(-1)`), following the code's order of checks. GF(2^8) arithmetic uses gf-complete's log and antilog tables, precomputed as sequences (`GFExp`, `GFLog`, `XorTable`). OpenSSL's hash and AES are keyed byte functions with the same sizes and the same block-multiple check. | `CDCodec.cc:111-418, 1092-1373`, `CryptoPrimitive.cc:301-375` |
| `CDCodecTypes` | The other three `CDType`s and the dispatchers `encoding` / `decoding`, on top of `CDCodec`. CRSSS: the constructor's CRSSS branch (groups of k - r words, its buffer sizes, the non-systematic n x k Cauchy matrix `1 / (i ^ (n_ + j))`), `crsssEncoding` (r seeded hashes per group, `RHash`, spread over k blocks and IDA-coded into n shares) and `crsssDecoding` (inversion, IDA decoding, then every group's hashes re-checked; a mismatch is `return 0`). AONT-RS and old CAONT-RS: the mask is AES(key, `wordForIndex`) word by word (`IndexMask`); `AONTShares` builds the package and the systematic shares; `aontRSEncoding` takes the lrand48 key as input, `caontRSOldEncoding` hashes the aligned secret. `AONTUnmask` is the decoders' common part with the key recovered by `TailKey`; `caontRSOldDecoding` adds the final hash = key check. | `CDCodec.cc:28-109, 430-1079, 1315-1373` |
| `ChunkCodec` | One chunk's trip through the data codec of type `cdType` (a constant set `CDTypes`; behaviours with no chunk keep `CAONT_RS_TYPE`). `Encode` is `Encoder::thread_handler`'s `encoding` with a segment key (AONT-RS draws its key from `AONTKeys` instead). `Assemble` is `downloadFile` gathering k shares and their `kShareIDList`, in any arrival order. `Decode` is `Decoder::thread_handler`'s `decoding`. `CodecDone` is the stop once decoded, or after a failed encode. | `encoder.cc:26-58`, `downloader.cc:464-582`, `decoder.cc:24-60` |
| `MCChunker` | The composition: `Chunker`'s fread loop over every file of 1 to `MaxFileLen` bytes over `Bytes`, interleaved with `ChunkCodec` on every chunk content main can emit. | |
| `NameEncoding` | The file name's encoding into one share per cloud. On upload this is `Encoder::collect_header` (`collect_header`); on download it is `Downloader::preDownloadFile` (`preDownloadFile`). Each handler is one action. It records the size of the stack buffer `tmp`, the bytes the header codec writes into it (`CDCodec`'s size arithmetic), the furthest byte read back (share copies, hex dump), and the share size sent to each cloud. | `encoder.cc:542-574`, `downloader.cc:614-640`, `main.cc:88-93` |
| `Server` | Every cloud's front end and the client runs that drive it. Server side: `Accept` (the `runReceive` loop, `NextAccept` its fixed port order), `RecvClosed`, `FirstStage`, `SecondStage`, `InitRequest` (sets the sticky special flags), `DownloadRequest`/`RestoreShare`/`RestoreDone` (the restore under `mutexOwner`), `KeyBatch`, `KMExit`. Client side: `StartRun` (after the previous run has started, or with `after = "done"` has exited), `ConnectSocket` (`Socket::Socket`), `SslConnect`/`SslAccepted` (`Ssl::Ssl`, blocking until `SSL_accept`), `ConnectDone`, `ClientSend` (every request, guarded by `Ready`: keys before data, `getStatus` before `DATA`, `~Uploader` before `~KeyEx`), `UploadDone`, `KeyExDone` (`sendEndIndicator`), `MetaWaitDone` and `ConsumeShare` (`downloadFile`'s round robin over the live servers' streams). A request is a token; `chan` is the share stream of a restore, bounded by `StreamCap`. | `server.cc:183-765`, `socket.cc`, `ssl.cc`, `exchange.cc:390-453, 689-707`, `main.cc:101-262` |
| `MCServer` | The client sessions of the server runs. | |
| `MCDownloader` | Every file of up to `MaxSecrets` secrets with every segmentation and KM cloud per segment (`LayoutsOf`). | |

Data is abstracted:

- a chunk is its `chunk_id`, `end`, `seg_id` and `kmCloudIndex`;
- a share is its chunk id and `share_id`;
- a metadata chunk is its header plus the list of share nodes.

Hashing, encryption and the byte layout of buffers are not represented
there. The exceptions: `CDCodec` works on bytes, and `MCChunker` checks
it on the chunks main really emits; `Uploader`'s container is bytes;
`KeyExchange` does the RSA arithmetic on a small key.

## Runs

| run | cfg | expect | what it shows |
|---|---|---|---|
| `collector` | `MCCollector.cfg` | pass | For every file of up to 4 chunks over the fingerprint alphabet, every blinding draw and the cache on or off, these hold in every state. **SegmentsRoutedByOwnMin**: the stream collect pops is exactly spec 4.2's segmentation of the file, each chunk routed to u64(its segment's own minimum) mod 5 and keyed with H(min^d mod n), whatever the blinding factor and whether the key came from the cache. **ShareRotation**: cloud c gets share `(c-km-1) mod n` of each secret and never the KM cloud's. **MetaDescribesData**: the metadata chunks (closed and pending) list exactly the data shares of each cloud, with ids -1, -2, … and their segment's header. **NoCollectorExit**: no `exit()` is reached. **EndMarkersLast**: end items are only last, and once one queue has one, all have. |
| `pipeline` | `MCPipeline.cfg` | pass | 2+2 lanes, trace-mode files of 1–3 lines of which any but the last may be over-size (with none skipped, this is main's chunk loop on 1–3 chunks), every interleaving of 8 threads. **StreamSpec**: the pipeline refines `OrderedStream`, so collect pops every chunk once, in order, and eventually stops. **FlushedBeforeDone**: when collect closes the uploader queues, all of them end with their end item. Skipped lines consume no chunk id. |
| `uploader` | `MCUploader.cfg` | pass | Cloud 0's metadata and data threads against every collect stream of up to 3 chunks. **BatchHeaders**: every batch's header counts the batch's entries, and its past count is the sum of the earlier batches. **UploadedOnExit**: a thread leaves its loop only once every share it popped has been uploaded. **UniqueDataSent**: every duplicate answer of the server is tried; each batch sends exactly the bytes of its non-duplicate shares, whole and in entry order, and `accuData_`/`accuUnique_` add up the container bytes and the bytes sent. |
| `header_race` | `MCUploaderHeaderRace.cfg` | violation | Nothing orders the detached `collect_header` thread (`main.cc:149`) before the uploader threads: a share can reach an uploader while `headerArray_[cloudIndex]` is still unassigned (**NoHeaderUseBeforeSet**). |
| `downloader` | `MCDownloader.cfg` | pass | Cloud 3 down, files of up to 3 secrets, every segmentation and KM placement, every interleaving of main, 4 meta, 4 data, 2 decode and the collect thread. **DecodeInputsValid**: each package has exactly k = 3 real shares and a `kShareIDList` that names them in order. **FileRestored**: secrets are written in order, and all of them by the time collect exits. **DownloadTerminates**: the download finishes. |
| `lost_wakeup` | `MCDownloaderLostWakeup.cfg` | violation | Without assuming main waits first, all meta threads can `notify_one` before main calls `cv_mutex.wait` (no predicate): main sleeps forever (`downloader.cc:394`). |
| `chunker` | `MCChunker.cfg` | pass | All 29,523 files of 1–9 bytes over {0, 1, 255}, read in fread buffers of 6 bytes, so files of 7–9 bytes take two. Window 3, min 3, avg 4, max 5. **ChunkBoundaries**: the chunks main emits (sizes and end flags) are, buffer after buffer, section 4.1's chunks of each buffer, with end = 1 only on the file's last chunk. This checks the rolling update, the `removeLUT_` negation, the limits, the forced cut at each buffer end, the tail and the fread loop's `total` against a direct computation. It is stated per buffer because that is what the code does; spec 4.1 and 8.1 ask for the whole file's chunks, which the code does not give (see Bounds). **ChunkRestoredFromAnyKShares**: every chunk content main can emit (1–5 bytes over the same alphabet) is encoded with the data codec (n = 4, m = 1, r = 2, so k = 3) of each of the four types, AONT-RS with either of two random keys (0 and 200), and any 3 distinct shares in any order (all 24 `kShareIDList`s) decode it back without error. For CAONT-RS and its variants this checks the padding, the mask, the hash tail, the Cauchy parity and the matrix inversion, including its row swaps. For CRSSS it checks the grouping, the seeded hashes and their re-check, and the non-systematic matrix: every 3-row subset must invert. A chunk enters the codec once main has emitted it (the whole file read). The graph has 179,316 distinct states (under 3 minutes with coverage). |
| `server_concurrent` | `MCServerConcurrent.cfg` | pass | An upload (KM cloud 1) and a download (cloud 1 down) at the same time against two clouds. **SessionsFinish**: whatever the order of connects, accepts and requests, every handler is accepted and answers and both runs exit. |
| `server_downloads` | `MCServerDownloads.cfg` | pass | Two downloads in turn (the second starts once the first has exited), three clouds, cloud 1 down, 2 shares per stream, stream capacity 1. **SessionsFinish**: the second download's connections are accepted, which needs the first download's KeyEx to have taken the KM accept. |
| `restore_deadlock` | `MCServerRestoreDeadlock.cfg` | violation | Two concurrent downloads, three clouds, 3 shares per stream. Download 1 gets cloud 0's mutex and download 2 cloud 1's; each reads its first share from the other's stream while its own restore blocks on a full socket: neither finishes (`server.cc:543`). |
| `empty_file` | `MCPipelineEmptyFile.cfg` | violation | A 0-byte file: `set_job_done` is never called and no thread stops (`main.cc:161`). |
| `name_overflow` | `MCNameEncoding.cfg` | violation | The header codec of the default setting (5 clouds, k = 4, 32-byte words) with names of 1–7 characters. For a 1-character name, namesize is 2 and `tmp` is 64 bytes, but caontRSEncoding writes 5 shares of 32 bytes, 160 bytes in all (**NameSharesFitTmp**; `encoder.cc:552`, and likewise `downloader.cc:616`). Names of 1 to 3 characters overflow. |

`MCPipelineTrace.cfg` is kept as a reproduction of an earlier finding.
It runs trace mode with any subset of over-size lines, and TLC reports
**StreamSpec** violated: when the last line is skipped, no chunk has
`end = 1`. The min-hash thread then exits with its open segment unsent
(`chunker.cc:250`, `exchange.cc:187`). It is listed as a hazard.

Each property of the passing runs has a mutant in `PROJECT.json`: a
plausible bug in the mapped definition that TLC catches. The mutants are:

- `current` not reset to 0xFF… after a segment;
- `performUpload`'s `containerIndex` advanced only past kept shares;
- the share index not advanced;
- the segment flush done after the rotation instead of before;
- the flush skipping the new KM cloud's nodes;
- no fake end chunks;
- the exit test's operands swapped;
- the end chunk not closing its segment;
- the per-cloud share index not reset, and a lane index wrapping late;
- a skipped trace line consuming a chunk id;
- the uploader's overflow flush or final upload missing, and
  `updateHeader` not folding the coming count into the past count;
- the last-share server computed without `down_server_num`;
- collect's final write missing;
- the exhausted-MetaList skip missing;
- a data thread pushing into a full queue;
- `removeLUT_` not negated;
- the pivot search of `squareMatrixInverting` not swapping the rows;
- main advancing `total` by `bufferSize` instead of by what fread returned;
- a restore stream that never blocks on a full socket;
- `runReceive` never reaching the KM accept;
- the download not building the KeyEx that connects to every KM.

## Bounds

- **5 clouds** (`n_` of the shipped configuration), with `KMCount = 1`.
- **Collector streams of up to 4 chunks.** This covers a segment change
  that moves the KM cloud, a segment with several chunks, and end after a
  boundary.
- **Segmenter: scaled sizes.** `sizeof(Chunk_t)` is 65,684 bytes and
  `segSizeTemp` adds it for every chunk, whatever the chunk's payload.
  So the code's segments have 8 to 32 chunks (512 KiB / 65,684 rounds up
  to 8; 2 MiB / 65,684 = 31.9). The model keeps those ratios in small:
  `ItemSize = 2`, `MIN_SEGMENT_SIZE = 3` (pattern boundary from the 2nd
  chunk), `MAX_SEGMENT_SIZE = 5` (forced boundary at the 3rd), `DIVISOR =
  2`. Fingerprints have b0 in {0, 2, 3} and b1 in {0, 1}: b0 = 3 meets
  the pattern, the zero tail is free, and 256·b1 + b0 mod 5 reaches all
  five clouds. Spec 3 states the segment bounds as accumulated chunk
  *sizes*; the code counts descriptors, so a segment of 8 small chunks
  can close at a pattern hit and one of 32 large chunks is forced
  whatever their bytes. The model follows the code.
- **KeyExchange: a small RSA key.** n = 899 = 29·31, e = 11, d = 611 and
  blinding factors {2, 3}, so every product fits TLC's integers and the
  fingerprint numbers (at most 769) are below n, as a 256-bit hash is
  below a 1024-bit modulus. `BN_pseudo_rand` draws a 256-bit r; one that
  is not invertible mod n has probability about 2^-500 and is not drawn.
  The LRU cache (1000 entries) never evicts within a file of 4 chunks.
- **Pipeline files of up to 3 chunks.** With 2 lanes in each stage, this
  makes both round-robin indices wrap around.
- **`MaxSegChunks = 31`.** This is how many `Chunk_t` fit in
  `MAX_SEGMENT_SIZE` (2 MiB / ≈65.7 KB). With 3 chunks the size limit
  never fires, so the other boundary causes (the hash conditions, which
  any chunk may meet) are a nondeterministic choice.
- **KM choice fixed to cloud 1 in the pipeline run.** The KM choices
  themselves are covered in full by the `collector` run.
- **Collector: exit(-5) is checked with the real sizes.** `metaSize`
  counts `sizeof(int)` plus 52 bytes per `metaNode` against
  `SECRET_SIZE_META` (1,280,000 bytes). A segment holds at most 32 chunks,
  so the check never fires; **NoCollectorExit** confirms this.
- **Uploader: sizes scaled.** `UPLOAD_BUFFER_SIZE = 165` and a data share
  of 60 bytes, with the real metadata sizes: 4 + 52 bytes per node. The
  first flush happens on the third share, and a metadata chunk of 3 nodes
  (160 bytes) still fits. Every share may be answered duplicate or not,
  so a batch of two shares meets all four status lists.
- **Uploader: only slots {0, 5} observed.** These are cloud 0's metadata
  and data threads. Every uploader thread reads only its own queue and
  its own buffers, so the other slots' behaviour is the same, shifted by
  the rotation.
- **Uploader: `HeaderBeforeData`.** The passing run assumes
  `collect_header` finishes before collect dispatches; `header_race`
  drops this assumption.
- **Downloader: cloud 3 down** (`main.cc:236`), files of up to 3
  secrets, queue capacity 1, 2 decode lanes, a write buffer of 2 secrets.
  Every quantity is a function of `(c - km) mod 5` and `(c - down) mod 5`,
  so every KM placement relative to the down cloud is covered. A run over
  all five down indices passes too, in about 4 minutes.
- **Downloader: `WaitBeforeNotify`.** The passing run lets a meta thread
  finish only once main is in `cv_mutex.wait`. This reflects the meta
  threads' network round trips; `lost_wakeup` drops the assumption.
- **Server replies from the spec.** A live cloud returns the shares it
  holds. The last-share server returns a placeholder (share id -1) for
  share id k, the "4-th share" of `DedupCore.hh:492-497`. spec.md 4.7 says
  it rewrites *every* share id; read that way, a secret would get fewer
  than k shares whenever the KM cloud is not the down cloud.

- **Chunker: scaled sizes.** Window 3, min 3, avg 4 (2 mask bits), max
  5, byte values {0, 1, 255}, files of up to 9 bytes. This keeps the
  constructor's preconditions and `min >= window`. Every case of the
  code occurs: an anchor inside [min, max], a cut at max with no anchor,
  a tail shorter than min, and a file shorter than min. With window 3,
  `base^2 * 255` exceeds `2^23`, so `removeLUT_` really reduces mod
  `polyMOD_`. Zero bytes make a window of zeros an anchor, so a run of
  zeros is cut at every min. Spec scenario E2 expects one chunk for a
  128 KiB file of zeros; the code gives 64 chunks of 2 KiB.
- **Chunker: 6-byte fread buffers.** main chunks each buffer on its own
  and `varSizeChunking` ends a chunk at the buffer's last byte
  (`main.cc:165`, `chunker.cc:200-204`), so a file longer than 128 MiB
  gets a forced boundary at every multiple of it. Spec 4.1 and 8.1 say
  the boundaries do not depend on the buffers. **ChunkBoundaries** states
  the per-buffer chunking the code does. Stated against the whole file's
  chunks (`RefChunks`) it fails: the 7-byte file 0,0,0,0,0,1,0 is emitted
  as chunks of 3, 3 and 1 bytes, where section 4.1 gives 3 and 4. This is
  recorded as a hazard.
- **Chunker: uint32_t arithmetic.** The code masks every fingerprint with
  `polyMOD_ - 1`, and `2^23` divides `2^32`, so a uint32_t wrap cannot
  change a masked value. The model therefore reduces each expression mod
  `polyMOD_`; TLC's integers are 32-bit signed and could not hold a
  uint32_t.

- **CDCodec: evaluation.** The codec's buffers are bound once with `Bind`
  (a value put in a one-element set), where a LET or an operator
  argument would be evaluated again at every use. This is how the code
  computes each buffer once. Under TLC's coverage profiling, the nested
  re-evaluation would otherwise be exponential.

- **CDCodec: one-byte secret words in the chunker run.** The data codec
  keeps n = 4, m = 1, r = 2 and GF(2^8), but the secret word (hash and
  key size) is scaled from 32 bytes to 1, and so is the cipher block.
  The alignment still pads (a 3-byte chunk is padded to 5 bytes, so that
  5 + 1 is a multiple of k = 3), and the share size varies with the
  chunk. `kShareIDList`s in arrival order include ones whose first row
  has a zero on the diagonal, so the pivot search swaps rows. Its
  `return 0` (no pivot) is never reached: any 3 rows of the matrix
  invert. With r = 2 a CRSSS group is a single word, followed by its
  two hashes, so the integrity check covers every word. `wordForIndex`
  keeps the first W bytes of the 4-byte index; with W = 32 in the code,
  the index is never cut. The name run uses the real
  sizes: it only needs the size arithmetic. `MAX_SECRET_SIZE` is not
  defined in the repository; the runs take the chunk maximum (5) and
  `SECRET_SIZE` (16 KB).

- **Server: two clouds with an upload, three without.** An upload opens
  three connections per cloud and sends seven requests over them; with
  three clouds and a concurrent download the interleavings are out of
  reach. Two clouds still give the upload both accept orders and a
  download with a down cloud. Downloads need three clouds to have two
  live servers, which both the deadlock run and the downloads-in-turn run require.
- **Server: `NumItems = 2`, `StreamCap = 1`.** A stream of one more share
  than it can buffer makes a restore block on `send`. The deadlock needs
  one share more (`NumItems = 3`): each download takes one share from the
  server whose mutex it holds before it waits on the other. Real files
  have far more shares than the socket buffers and `ringBuffer_` hold.
- **Server: one `down_server_index` for every download.** main.cc
  hardcodes it (`down_server_index = 3`, `main.cc:236`). `INIT_REQUEST`
  (`server.cc:321`) sets `last_share_special_flag` and nothing clears it,
  but with the down cloud fixed every download marks the same server, so
  the sticky flag is never stale in the built client.
- **Server: requests are tokens.** Package contents, status lists, RSA
  values and MetaLists are not represented; each request has its reply
  count (`rep`) and each restore its stream (`chan`). The handlers'
  byte-count loops are taken as one receive.

## Fairness

Every thread is an OS thread busy-waiting in its loop: `pop` fails and
`continue`s, and nothing blocks. So every thread that can step keeps
being scheduled. Weak fairness is assumed for:

- main;
- each worker;
- the min-hash thread;
- collect;
- on the download side, main, each meta thread, each data thread, each
  decode thread and `Decoder::collect`.

In `Server`, every server's handler threads and every client process get
weak fairness: they are OS threads and processes, and a blocked one
(`accept`, `pthread_mutex_lock`, a full `send`, `SSL_connect`) can only
wait for a step of another.

`cv_mutex.wait` blocks; it is left only through the `notify_one` in
`MetaFinish`. Spurious wakeups are not modelled (see the `lost_wakeup`
finding).

## Not modelled, and why

1. **DedupCore.** Only `dedup/DedupCore.hh` is in the repository: class
   and record declarations, no function bodies. Its behaviour exists only
   as spec 4.7, which leaves open what a model would have to decide:
   whether two entries of one batch with the same fingerprint are both
   "expected from the client", whether a duplicate entry gets a recipe
   entry, and whether "append a user-ref {user_id, 1}" may count a user
   twice. A model would be the spec's words, not the program, so the
   index and container store are left out. The parts the client sees are
   modelled from the spec where a client module needs them: the restore
   streams (`Downloader`, `Server`) and, as a free choice, the status
   list (`Uploader`).
2. **Uploader, real sizes.** `uploadMetaBuffer_` has the size of the
   container but grows by 52 bytes per share, so shares under 52 bytes
   (tiny trace-mode chunks) overflow it before `containerWP_` reaches its
   limit; and the server's `META_LEN` (2 MB) is smaller than the 4 MB a
   client may send. Both are recorded as hazards; the uploader run's
   shares are larger than an entry.
3. **Server front end, faults.** A client dying in the middle of a
   package makes the recv loops spin on a return of 0 (`server.cc:244`),
   and a failed `SSL_accept` (`server.cc:750`) is not modelled: the runs
   model processes that finish.
4. **Key exchange verification.** spec.md (failure handling) says a
   failed blind verification makes the segment retry once. The code has
   `KeyEx::verify` but never calls it, and `keyExchange` has no retry;
   since the KM in the models always answers correctly, there is nothing
   for a retry to do.
5. **AONT-RS's randomness.** `aontRSEncoding` reseeds with
   `srand48(time(0))` on every call (`CDCodec.cc:670`), so chunks encoded
   in the same second share a "random" key. Decoding does not depend on
   the key, and the run checks it for two keys. What the reuse costs is
   confidentiality, which is not a property of states. main never
   constructs this type.
6. **Trace-driven chunking** (`chunker.cc:206-383`, `TRACE_DRIVEN_FSL_ENABLED`
   is 0 in `conf.hh`) and the deprecated per-chunk key path
   `threadHandlerChunk` (`CHARA_CHUNK_HASH`; main always passes
   `CHARA_MIN_HASH`). Neither runs in the built client. One hazard is
   recorded for the trace path: `get_trace_size` counts the over-size
   lines that chunking skips (`chunker.cc:250`), so `fileSize` exceeds
   the bytes uploaded.
7. **Out of reach.** OpenSSL hashing and encryption, sockets and logging.
   They are treated as opaque values and reliable ordered channels.
