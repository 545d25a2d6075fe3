------------------------------- MODULE Server -------------------------------
(***************************************************************************)
(* The server front end (src/server/comm/server.cc) of every cloud, with   *)
(* the clients that talk to it.  Each server runs Server::runReceive,      *)
(* which accepts one data, one metadata and one key-manager connection in  *)
(* that order, forever, and starts a detached handler thread per           *)
(* connection: SocketHandlerData, SocketHandlerMeta, and                   *)
(* SocketHandlerKeyManager.  The handlers share one global pthread mutex   *)
(* per server process, taken around the restore paths, and the            *)
(* last_share_special_flag of the two dedup objects.                       *)
(*                                                                         *)
(* A client run is an upload or a download (main.cc -u / -d) and opens its *)
(* connections in the order of its constructors: Uploader/Downloader       *)
(* (metadata sockets, then data sockets), then KeyEx (one SSL connection   *)
(* per server, each blocking until the server's SSL_accept).  Requests     *)
(* are tokens; DedupCore's deduplication and restore, whose implementation *)
(* is not in the repository, are abstracted to the replies they send and   *)
(* to the stream of NumItems shares a restore writes to the data socket.   *)
(***************************************************************************)
EXTENDS Integers, Sequences, SequencesExt

CONSTANTS
  NumServers,  \* n + 1 clouds, one server process each
  DownNum,     \* down_server_num (main.cc:237)
  Sessions,    \* client runs in start order: [kind |-> "upload"|"download", down |-> cloud,
               \* km |-> the KM cloud of the upload's one segment, after |-> "start" |
               \* "done": the run starts once the previous one has started / has exited]
  NumItems,    \* shares a restore streams from one server to one download
  StreamCap    \* shares in flight from a server to a client (socket buffers + ringBuffer_)

Servers == 0 .. NumServers - 1
Ports   == {"data", "meta", "km"}
Runs    == 1 .. Len(Sessions)
NoOwner == 0

\* Fault variant: the loop never reaches the key-manager accept.
NextAcceptNoKm == [p \in Ports |-> IF p = "data" THEN "meta" ELSE "data"]

\* runReceive: accept(dataHostSock_), accept(metaHostSock_), accept(kmHostSock_)
NextAccept ==
  [p \in Ports |-> CASE p = "data" -> "meta" [] p = "meta" -> "km" [] p = "km" -> "data"]

\* Downloader::thread_handler_meta: last_share_server_ID
LastShareServerID(i) == (Sessions[i].down - DownNum + NumServers) % NumServers

\* The servers a run connects to: a download skips down_server_index.
Contacted(i) ==
  IF Sessions[i].kind = "upload" THEN Servers ELSE Servers \ {Sessions[i].down}

ContactedSeq(i) == SetToSortSeq(Contacted(i), <)

\* Fault variant: the download path does not build the KeyEx that connects
\* to every live key manager.
ConnectOrderNoKeyEx(i) ==
  LET cs == ContactedSeq(i)
      ports == IF Sessions[i].kind = "upload" THEN <<"meta", "data", "km">> ELSE <<"meta", "data">>
  IN FlattenSeq([k \in 1 .. Len(ports) |-> [j \in 1 .. Len(cs) |-> <<cs[j], ports[k]>>]])

\* The connections a run opens, in order: Uploader/Downloader constructor
\* (metadata sockets, then data sockets), then KeyEx (SSL to each server).
ConnectOrder(i) ==
  LET cs == ContactedSeq(i)
      ports == <<"meta", "data", "km">>
  IN FlattenSeq([k \in 1 .. Len(ports) |-> [j \in 1 .. Len(cs) |-> <<cs[j], ports[k]>>]])

\* What the client sends on each connection, in order.  "CLOSE" is the
\* socket's close (recv returns 0); "END" is EXIT_KM_THREAD (-202).
Script(i, s, p) ==
  IF Sessions[i].kind = "upload"
  THEN CASE p = "km" /\ s = Sessions[i].km -> <<"KM", "CLOSE">>
         [] p = "km"                         -> <<"CLOSE">>
         [] OTHER                            -> <<"META", "DATA", "CLOSE">>
  ELSE CASE p = "meta" -> <<IF s = LastShareServerID(i) THEN "INIT_SPECIAL" ELSE "INIT">>
         [] p = "data" -> <<"DOWNLOAD">>
         [] p = "km"   -> <<"END">>

VARIABLES
  backlog,     \* backlog[s][p]: runs whose connection to port p waits in listen()
  acceptPc,    \* acceptPc[s]: the accept() runReceive is blocked in
  hpc,         \* hpc[s][p][i]: handler thread of run i's connection ("none" = not accepted)
  req,         \* req[s][p][i]: requests sent and not yet received by the handler
  rep,         \* rep[s][p][i]: replies the handler has sent (STAT, key batch, MetaList)
  cstep,       \* cstep[s][p][i]: how much of Script(i, s, p) the client has sent
  mutexOwner,  \* mutexOwner[s]: the run whose restoreShareFile holds mutex
  metaSpecial, \* metaDedupObj_->last_share_special_flag
  dataSpecial, \* dataDedupObj_->last_share_special_flag
  streamed,    \* streamed[s][i]: shares restoreShareFile has sent to run i
  chan,        \* chan[s][i]: shares in flight to run i (TRUE = placeholder)
  cpc,         \* cpc[i]: client run i's phase
  cconn,       \* cconn[i]: next entry of ConnectOrder(i)
  cpos,        \* cpos[i]: downloadFile's <<secret, index into ContactedSeq>>
  received     \* received[i][s]: placeholder flags of the shares run i took from s

serverVars == <<backlog, acceptPc, hpc, req, rep, mutexOwner, metaSpecial, dataSpecial, streamed, chan>>
clientVars == <<cstep, cpc, cconn, cpos, received>>
vars == <<serverVars, clientVars>>

ServerInit ==
  /\ backlog = [s \in Servers |-> [p \in Ports |-> <<>>]]
  /\ acceptPc = [s \in Servers |-> "data"]
  /\ hpc = [s \in Servers |-> [p \in Ports |-> [i \in Runs |-> "none"]]]
  /\ req = [s \in Servers |-> [p \in Ports |-> [i \in Runs |-> <<>>]]]
  /\ rep = [s \in Servers |-> [p \in Ports |-> [i \in Runs |-> 0]]]
  /\ cstep = [s \in Servers |-> [p \in Ports |-> [i \in Runs |-> 0]]]
  /\ mutexOwner = [s \in Servers |-> NoOwner]
  /\ metaSpecial = [s \in Servers |-> FALSE]
  /\ dataSpecial = [s \in Servers |-> FALSE]
  /\ streamed = [s \in Servers |-> [i \in Runs |-> 0]]
  /\ chan = [s \in Servers |-> [i \in Runs |-> <<>>]]
  /\ cpc = [i \in Runs |-> "idle"]
  /\ cconn = [i \in Runs |-> 1]
  /\ cpos = [i \in Runs |-> <<1, 1>>]
  /\ received = [i \in Runs |-> [s \in Servers |-> {}]]

-----------------------------------------------------------------------------
(* Server::runReceive: accept the next connection of the port the loop is *)
(* at (for the key manager, with SSL_accept) and start its handler.       *)
Accept(s) ==
  LET p == acceptPc[s] IN
  /\ backlog[s][p] # <<>>
  /\ hpc' = [hpc EXCEPT ![s][p][Head(backlog[s][p])] = "loop"]
  /\ backlog' = [backlog EXCEPT ![s][p] = Tail(@)]
  /\ acceptPc' = [acceptPc EXCEPT ![s] = NextAccept[p]]
  /\ UNCHANGED <<req, rep, mutexOwner, metaSpecial, dataSpecial, streamed, chan, clientVars>>

\* Handler loop: the next request has arrived.
Arrived(s, p, i, tok) == hpc[s][p][i] = "loop" /\ req[s][p][i] # <<>> /\ Head(req[s][p][i]) = tok
Consume(s, p, i) == req' = [req EXCEPT ![s][p][i] = Tail(@)]

\* SocketHandlerMeta / SocketHandlerData: recv of the indicator returns 0
\* (the client closed the socket): leave the loop.
RecvClosed(s, p, i) ==
  /\ p \in {"meta", "data"}
  /\ Arrived(s, p, i, "CLOSE")
  /\ Consume(s, p, i)
  /\ hpc' = [hpc EXCEPT ![s][p][i] = "exit"]
  /\ UNCHANGED <<backlog, acceptPc, rep, mutexOwner, metaSpecial, dataSpecial, streamed, chan, clientVars>>

\* META: receive the metadata package, firstStageDedup, send STAT, the
\* share count and the status list.
FirstStage(s, p, i) ==
  /\ p \in {"meta", "data"}
  /\ Arrived(s, p, i, "META")
  /\ Consume(s, p, i)
  /\ rep' = [rep EXCEPT ![s][p][i] = @ + 1]
  /\ UNCHANGED <<backlog, acceptPc, hpc, mutexOwner, metaSpecial, dataSpecial, streamed, chan, clientVars>>

\* DATA: receive the share data and run secondStageDedup with the
\* metaBuffer and statusList of the preceding META.
SecondStage(s, p, i) ==
  /\ p \in {"meta", "data"}
  /\ Arrived(s, p, i, "DATA")
  /\ Consume(s, p, i)
  /\ UNCHANGED <<backlog, acceptPc, hpc, rep, mutexOwner, metaSpecial, dataSpecial, streamed, chan, clientVars>>

\* SocketHandlerKeyManager: SSL_read returns 0, or num == -202: leave.
KMExit(s, i) ==
  /\ Arrived(s, "km", i, "CLOSE") \/ Arrived(s, "km", i, "END")
  /\ Consume(s, "km", i)
  /\ hpc' = [hpc EXCEPT ![s]["km"][i] = "exit"]
  /\ UNCHANGED <<backlog, acceptPc, rep, mutexOwner, metaSpecial, dataSpecial, streamed, chan, clientVars>>

\* SocketHandlerKeyManager: read num blinded hashes, raise each to d mod n,
\* write the results back.
KeyBatch(s, i) ==
  /\ Arrived(s, "km", i, "KM")
  /\ Consume(s, "km", i)
  /\ rep' = [rep EXCEPT ![s]["km"][i] = @ + 1]
  /\ UNCHANGED <<backlog, acceptPc, hpc, mutexOwner, metaSpecial, dataSpecial, streamed, chan, clientVars>>

\* SocketHandlerMeta, INIT_REQUEST: lock mutex; on LAST_SHARE_SERVER set
\* both dedup objects' special flag (never cleared); receive the names;
\* restoreShareFileAndWriteFileRecipe sends the MetaList; unlock; break.
InitRequest(s, i) ==
  /\ \E tok \in {"INIT", "INIT_SPECIAL"} :
       /\ Arrived(s, "meta", i, tok)
       /\ metaSpecial' = [metaSpecial EXCEPT ![s] = @ \/ tok = "INIT_SPECIAL"]
       /\ dataSpecial' = [dataSpecial EXCEPT ![s] = @ \/ tok = "INIT_SPECIAL"]
  /\ mutexOwner[s] = NoOwner
  /\ Consume(s, "meta", i)
  /\ rep' = [rep EXCEPT ![s]["meta"][i] = @ + 1]
  /\ hpc' = [hpc EXCEPT ![s]["meta"][i] = "exit"]
  /\ UNCHANGED <<backlog, acceptPc, mutexOwner, streamed, chan, clientVars>>

\* SocketHandlerData, DOWNLOAD: receive the recipe name, lock mutex.
DownloadRequest(s, i) ==
  /\ Arrived(s, "data", i, "DOWNLOAD")
  /\ mutexOwner[s] = NoOwner
  /\ Consume(s, "data", i)
  /\ mutexOwner' = [mutexOwner EXCEPT ![s] = i]
  /\ hpc' = [hpc EXCEPT ![s]["data"][i] = "restore"]
  /\ UNCHANGED <<backlog, acceptPc, rep, metaSpecial, dataSpecial, streamed, chan, clientVars>>

\* Fault variant: send never blocks on a full stream.
RestoreShareNoCap(s, i) ==
  /\ hpc[s]["data"][i] = "restore"
  /\ streamed[s][i] < NumItems
  /\ chan' = [chan EXCEPT ![s][i] = Append(@, dataSpecial[s])]
  /\ streamed' = [streamed EXCEPT ![s][i] = @ + 1]
  /\ UNCHANGED <<backlog, acceptPc, hpc, req, rep, mutexOwner, metaSpecial, dataSpecial, clientVars>>

\* restoreShareFile, with mutex held: send the next share, or a
\* placeholder while the special flag is set; send blocks while the
\* client's buffers are full.
RestoreShare(s, i) ==
  /\ hpc[s]["data"][i] = "restore"
  /\ streamed[s][i] < NumItems
  /\ Len(chan[s][i]) < StreamCap
  /\ chan' = [chan EXCEPT ![s][i] = Append(@, dataSpecial[s])]
  /\ streamed' = [streamed EXCEPT ![s][i] = @ + 1]
  /\ UNCHANGED <<backlog, acceptPc, hpc, req, rep, mutexOwner, metaSpecial, dataSpecial, clientVars>>

\* restoreShareFile returns; unlock mutex; break.
RestoreDone(s, i) ==
  /\ hpc[s]["data"][i] = "restore"
  /\ streamed[s][i] = NumItems
  /\ mutexOwner' = [mutexOwner EXCEPT ![s] = NoOwner]
  /\ hpc' = [hpc EXCEPT ![s]["data"][i] = "exit"]
  /\ UNCHANGED <<backlog, acceptPc, req, rep, metaSpecial, dataSpecial, streamed, chan, clientVars>>

-----------------------------------------------------------------------------
(* The client runs.                                                        *)

\* main starts run i: after the previous run has exited (after = "done"),
\* or any time after it started.
StartRun(i) ==
  /\ cpc[i] = "idle"
  /\ i > 1 => IF Sessions[i].after = "done" THEN cpc[i - 1] = "done" ELSE cpc[i - 1] # "idle"
  /\ cpc' = [cpc EXCEPT ![i] = "connect"]
  /\ UNCHANGED <<serverVars, cstep, cconn, cpos, received>>

Entry(i) == ConnectOrder(i)[cconn[i]]

\* Socket::Socket: connect() completes once the connection is in the
\* listen backlog; the userID is sent without waiting for accept().
ConnectSocket(i) ==
  /\ cpc[i] = "connect"
  /\ cconn[i] <= Len(ConnectOrder(i))
  /\ Entry(i)[2] # "km"
  /\ backlog' = [backlog EXCEPT ![Entry(i)[1]][Entry(i)[2]] = Append(@, i)]
  /\ cconn' = [cconn EXCEPT ![i] = @ + 1]
  /\ UNCHANGED <<acceptPc, hpc, req, rep, mutexOwner, metaSpecial, dataSpecial, streamed, chan,
                 cstep, cpc, cpos, received>>

\* Ssl::Ssl: connect(), then SSL_connect, which blocks until the server's
\* runReceive has reached SSL_accept on this connection.
SslConnect(i) ==
  LET s == Entry(i)[1] IN
  /\ cpc[i] = "connect"
  /\ cconn[i] <= Len(ConnectOrder(i))
  /\ Entry(i)[2] = "km"
  /\ hpc[s]["km"][i] = "none"
  /\ i \notin Range(backlog[s]["km"])
  /\ backlog' = [backlog EXCEPT ![s]["km"] = Append(@, i)]
  /\ UNCHANGED <<acceptPc, hpc, req, rep, mutexOwner, metaSpecial, dataSpecial, streamed, chan, clientVars>>

SslAccepted(i) ==
  /\ cpc[i] = "connect"
  /\ cconn[i] <= Len(ConnectOrder(i))
  /\ Entry(i)[2] = "km"
  /\ hpc[Entry(i)[1]]["km"][i] # "none"
  /\ cconn' = [cconn EXCEPT ![i] = @ + 1]
  /\ UNCHANGED <<serverVars, cstep, cpc, cpos, received>>

\* The constructors have returned: an upload starts chunking, a download's
\* KeyEx constructor goes on to sendEndIndicator.
ConnectDone(i) ==
  /\ cpc[i] = "connect"
  /\ cconn[i] > Len(ConnectOrder(i))
  /\ cpc' = [cpc EXCEPT ![i] = IF Sessions[i].kind = "upload" THEN "run" ELSE "keyex"]
  /\ UNCHANGED <<serverVars, cstep, cconn, cpos, received>>

Sent(i, s, p) == cstep[s][p][i] = Len(Script(i, s, p))
Conns(i) == {<<s, p>> \in Contacted(i) \X Ports : Len(Script(i, s, p)) > 0}
UploadStreams == {"meta", "data"}

\* When the client may send the next token of a connection's script.
\*  KM: the segment's key exchange, to its KM cloud only.
\*  META: shares are encoded, so uploaded, only after their keys
\*  (keyExchange SSL_reads the answer before the segment is encoded).
\*  DATA: performUpload sends the unique data after getStatus.
\*  CLOSE: ~Uploader closes the sockets after indicateEnd, and main deletes
\*  the KeyEx after the Uploader.
\*  END, INIT, DOWNLOAD: the download phases that send them.
Ready(i, s, p) ==
  LET tok == Script(i, s, p)[cstep[s][p][i] + 1] IN
  CASE tok = "KM" -> cpc[i] = "run"
    [] tok = "META" -> cpc[i] = "run" /\ rep[Sessions[i].km]["km"][i] = 1
    [] tok = "DATA" -> rep[s][p][i] = 1
    [] tok = "CLOSE" /\ p # "km" -> \A t \in Servers, q \in UploadStreams : cstep[t][q][i] >= 2
    [] tok = "CLOSE" /\ p = "km" -> \A t \in Servers, q \in UploadStreams : Sent(i, t, q)
    [] tok = "END" -> cpc[i] = "keyex"
    [] tok \in {"INIT", "INIT_SPECIAL"} -> cpc[i] = "meta"
    [] tok = "DOWNLOAD" -> cpc[i] = "consume"

\* Socket::sendMeta / sendData / initDownloadWithFileMeta / initDownload,
\* Ssl write in keyExchange / sendEndIndicator, and the socket's close.
ClientSend(i, s, p) ==
  /\ cpc[i] \in {"run", "keyex", "meta", "consume"}
  /\ <<s, p>> \in Conns(i)
  /\ ~Sent(i, s, p)
  /\ Ready(i, s, p)
  /\ req' = [req EXCEPT ![s][p][i] = Append(@, Script(i, s, p)[cstep[s][p][i] + 1])]
  /\ cstep' = [cstep EXCEPT ![s][p][i] = @ + 1]
  /\ UNCHANGED <<backlog, acceptPc, hpc, rep, mutexOwner, metaSpecial, dataSpecial, streamed, chan,
                 cpc, cconn, cpos, received>>

\* main: the upload run exits once every socket is closed.
UploadDone(i) ==
  /\ cpc[i] = "run"
  /\ \A c \in Conns(i) : Sent(i, c[1], c[2])
  /\ cpc' = [cpc EXCEPT ![i] = "done"]
  /\ UNCHANGED <<serverVars, cstep, cconn, cpos, received>>

\* sendEndIndicator has written EXIT_KM_THREAD to every live server.
KeyExDone(i) ==
  /\ cpc[i] = "keyex"
  /\ \A s \in Contacted(i) : Sent(i, s, "km")
  /\ cpc' = [cpc EXCEPT ![i] = "meta"]
  /\ UNCHANGED <<serverVars, cstep, cconn, cpos, received>>

\* preDownloadFile: the metadata threads have received every MetaList.
MetaWaitDone(i) ==
  /\ cpc[i] = "meta"
  /\ \A s \in Contacted(i) : Sent(i, s, "meta") /\ rep[s]["meta"][i] = 1
  /\ cpc' = [cpc EXCEPT ![i] = "consume"]
  /\ UNCHANGED <<serverVars, cstep, cconn, cpos, received>>

\* downloadFile: take the next share of the current secret from the ring
\* buffer of the k-th live server, in server order.
ConsumeShare(i) ==
  LET k == cpos[i][2]
      s == ContactedSeq(i)[k]
      lastK == k = Len(ContactedSeq(i))
  IN /\ cpc[i] = "consume"
     /\ chan[s][i] # <<>>
     /\ chan' = [chan EXCEPT ![s][i] = Tail(@)]
     /\ received' = [received EXCEPT ![i][s] = @ \cup {Head(chan[s][i])}]
     /\ cpos' = [cpos EXCEPT ![i] = IF lastK THEN <<@[1] + 1, 1>> ELSE <<@[1], k + 1>>]
     /\ cpc' = [cpc EXCEPT ![i] = IF lastK /\ cpos[i][1] = NumItems THEN "done" ELSE "consume"]
     /\ UNCHANGED <<backlog, acceptPc, hpc, req, rep, mutexOwner, metaSpecial, dataSpecial, streamed,
                    cstep, cconn>>

Idle == (\A i \in Runs : cpc[i] = "done") /\ UNCHANGED vars

-----------------------------------------------------------------------------
ServerStep(s) ==
  \/ Accept(s)
  \/ \E i \in Runs :
       \/ \E p \in Ports : RecvClosed(s, p, i) \/ FirstStage(s, p, i) \/ SecondStage(s, p, i)
       \/ KMExit(s, i) \/ KeyBatch(s, i)
       \/ InitRequest(s, i) \/ DownloadRequest(s, i)
       \/ RestoreShare(s, i) \/ RestoreDone(s, i)

ClientStep(i) ==
  \/ StartRun(i) \/ ConnectSocket(i) \/ SslConnect(i) \/ SslAccepted(i) \/ ConnectDone(i)
  \/ \E s \in Servers, p \in Ports : ClientSend(i, s, p)
  \/ UploadDone(i) \/ KeyExDone(i) \/ MetaWaitDone(i) \/ ConsumeShare(i)

ServerNext == (\E s \in Servers : ServerStep(s)) \/ (\E i \in Runs : ClientStep(i)) \/ Idle

\* Every handler thread and every client process is scheduled by the OS;
\* one that can keep taking a step eventually does.
ServerFairness ==
  /\ \A s \in Servers : WF_vars(ServerStep(s))
  /\ \A i \in Runs : WF_vars(ClientStep(i))

ServerSpec == ServerInit /\ [][ServerNext]_vars /\ ServerFairness

-----------------------------------------------------------------------------
TypeOK ==
  /\ \A s \in Servers, i \in Runs :
       /\ mutexOwner[s] \in Runs \cup {NoOwner}
       /\ streamed[s][i] \in 0 .. NumItems
       /\ chan[s][i] \in Seq(BOOLEAN) /\ Len(chan[s][i]) <= StreamCap
       /\ \A p \in Ports : hpc[s][p][i] \in {"none", "loop", "restore", "exit"}
  /\ \A i \in Runs : cpc[i] \in {"idle", "connect", "run", "keyex", "meta", "consume", "done"}

\* Every client run, upload or download, eventually exits: connections are
\* accepted, every handler answers, and no restore waits forever.
SessionsFinish == <>(\A i \in Runs : cpc[i] = "done")


====
