------------------------------ MODULE FifoQueue ------------------------------
(***************************************************************************)
(* What the single-producer single-consumer queue of the audio stream      *)
(* promises (src/lib/BlockingLockFreeQueue.h, its doc comments): accepted  *)
(* elements come out once each and in order, and the consumer is told that *)
(* there is nothing more only when that is so.                             *)
(***************************************************************************)
EXTENDS Naturals, Sequences

CONSTANT Element

VARIABLES chan,      \* accepted elements the consumer has not received yet
          out,       \* what the consumer received last
          closed,    \* the producer is gone
          finished   \* the consumer has been told so

vars == <<chan, out, closed, finished>>

Init == /\ chan = <<>>
        /\ out \in Element
        /\ closed = FALSE
        /\ finished = FALSE

Put == /\ ~closed
       /\ \E e \in Element : chan' = Append(chan, e)
       /\ UNCHANGED <<out, closed, finished>>

Get == /\ ~finished
       /\ chan # <<>>
       /\ out' = Head(chan)
       /\ chan' = Tail(chan)
       /\ UNCHANGED <<closed, finished>>

Close == /\ ~closed
         /\ closed' = TRUE
         /\ UNCHANGED <<chan, out, finished>>

Finish == /\ closed
          /\ chan = <<>>
          /\ finished' = TRUE
          /\ UNCHANGED <<chan, out, closed>>

Next == Put \/ Get \/ Close \/ Finish

Safety == Init /\ [][Next]_vars

Spec == Safety /\ WF_vars(Get) /\ WF_vars(Finish)
=============================================================================
