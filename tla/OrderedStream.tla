--------------------------- MODULE OrderedStream ---------------------------
(***************************************************************************)
(* What the client pipeline promises its collector (spec.md section 5):   *)
(* the chunks the chunker emits reach the collector in emission order,    *)
(* each exactly once, and the collector finishes only after it has        *)
(* received every chunk of a closed stream.  Items are chunk ids.          *)
(***************************************************************************)
EXTENDS Naturals, Sequences

VARIABLES
  sent,      \* chunk ids the producer has emitted, in order
  received,  \* chunk ids the consumer has taken, in order
  closed,    \* the producer has announced the end of the stream
  finished   \* the consumer has stopped

vars == <<sent, received, closed, finished>>

Init ==
  /\ sent = <<>>
  /\ received = <<>>
  /\ closed = FALSE
  /\ finished = FALSE

Send ==
  /\ ~closed
  /\ sent' = Append(sent, Len(sent))
  /\ UNCHANGED <<received, closed, finished>>

Close ==
  /\ ~closed
  /\ closed' = TRUE
  /\ UNCHANGED <<sent, received, finished>>

Receive ==
  /\ ~finished
  /\ Len(received) < Len(sent)
  /\ received' = Append(received, sent[Len(received) + 1])
  /\ UNCHANGED <<sent, closed, finished>>

Finish ==
  /\ closed
  /\ ~finished
  /\ received = sent
  /\ finished' = TRUE
  /\ UNCHANGED <<sent, received, closed>>

Next == Send \/ Close \/ Receive \/ Finish

Spec == Init /\ [][Next]_vars /\ WF_vars(Close) /\ WF_vars(Receive) /\ WF_vars(Finish)
=============================================================================
