------------------------------ MODULE MCServer ------------------------------
(* Client runs for the Server model, with three clouds and one of them    *)
(* down during downloads (main.cc: n + 1 clouds, down_server_num = 1); two   *)
(* clouds where an upload takes part, to keep its interleavings in reach.*)
EXTENDS Server

\* Two downloads, one after the other, with the same server down.
DownloadsInTurn ==
  <<[kind |-> "download", down |-> 1, km |-> 0, after |-> "start"],
    [kind |-> "download", down |-> 1, km |-> 0, after |-> "done"]>>

\* An upload and a download at the same time.
UploadWithDownload ==
  <<[kind |-> "upload", down |-> 0, km |-> 1, after |-> "start"],
    [kind |-> "download", down |-> 1, km |-> 0, after |-> "start"]>>

\* Two downloads at the same time, with the same server down.
TwoDownloads ==
  <<[kind |-> "download", down |-> 2, km |-> 0, after |-> "start"],
    [kind |-> "download", down |-> 2, km |-> 0, after |-> "start"]>>
====
