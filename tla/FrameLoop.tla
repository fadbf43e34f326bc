------------------------------ MODULE FrameLoop ------------------------------
(***************************************************************************)
(* The way of the frames from the Input to the Output, as these two see    *)
(* it: a queue that may refuse a frame when it holds many, and the thread  *)
(* that takes them out in batches (asyncAudioSystem(), src/AudioStream.inl *)
(* 446-488).  AudioStream is built on it; AsyncAudioSystem, with the rings *)
(* and the semaphore, implements it.  A frame is in the queue until it is  *)
(* handled, the one in the hands of the thread included.                   *)
(***************************************************************************)
EXTENDS Naturals, Sequences

CONSTANTS FifoSize,    \* frames in the queue at most
          FifoLeast    \* and at least, when it refuses one: the smallest ring

VARIABLES
    fifo, released,    \* the queue; the Input's destructor has run
    thread             \* waiting, with a batch opened for a frame, open for
                       \* more, in its final batch, done

queueVars == <<fifo, released, thread>>

QueueInit == fifo = <<>> /\ released = FALSE /\ thread = "waiting"

Put(frame) ==
    /\ ~released /\ Len(fifo) < FifoSize
    /\ fifo' = Append(fifo, frame)
    /\ UNCHANGED <<released, thread>>

(* Since the queue grows, it may do so with less than it could hold.         *)
Refuse ==
    /\ ~released /\ Len(fifo) >= FifoLeast
    /\ UNCHANGED queueVars

Release ==
    /\ ~released
    /\ released' = TRUE
    /\ UNCHANGED <<fifo, thread>>

OpenBatch ==
    /\ thread = "waiting" /\ fifo # <<>>
    /\ thread' = "opened"
    /\ UNCHANGED <<fifo, released>>

Take ==
    /\ thread \in {"opened", "open"} /\ fifo # <<>>
    /\ thread' = "open"
    /\ fifo' = Tail(fifo)
    /\ UNCHANGED released

(* Not only when the queue is empty: the ring that it grew out of is not     *)
(* looked at.                                                                *)
CloseBatch ==
    /\ thread = "open"
    /\ thread' = "waiting"
    /\ UNCHANGED <<fifo, released>>

LeaveLoop ==
    /\ thread = "waiting" /\ fifo = <<>> /\ released
    /\ thread' = "final"
    /\ UNCHANGED <<fifo, released>>

Return ==
    /\ thread = "final"
    /\ thread' = "done"
    /\ UNCHANGED <<fifo, released>>

QueueNext(Element) ==
    \/ \E frame \in Element : Put(frame)
    \/ Refuse \/ Release
    \/ OpenBatch \/ Take \/ CloseBatch \/ LeaveLoop \/ Return
=============================================================================
