-------------------------- MODULE AsyncAudioSystem --------------------------
(***************************************************************************)
(* asyncAudioSystem() of src/AudioStream.inl: the background thread that   *)
(* pops frames from the BlockingQueue, grows the queue now and then, and   *)
(* hands the frames in batches to the Output, if somebody still owns it.   *)
(* The producer is the stream's Input; its destructor releases the         *)
(* consumer.  A frame is the number of the queue's element.                *)
(***************************************************************************)
EXTENDS BlockingQueue

CONSTANTS InitialPops,   \* initial value of the counter "pops" (20)
          PopsPerGrow    \* the counter above which the thread grows (10)

ASSUME PopsAssumption == InitialPops \in Nat /\ PopsPerGrow \in Nat

VARIABLES
    loop,       \* the thread's step
    pops,       \* its local, counts the batches since the last grow()
    remaining,  \* what is left of numExtraEntries
    owned,      \* the user still owns the Output
    batch,      \* a FrameBatch is open and holds the Output
    handled,    \* the last frame given to handleFrame()
    final       \* the batch after the last frame has been run

loopVars == <<loop, pops, remaining, owned, batch, handled, final>>
asyncVars == <<vars, loopVars>>

AsyncInit ==
    /\ Init
    /\ loop = "outer" /\ pops = InitialPops /\ remaining = 0
    /\ owned = TRUE /\ batch = FALSE /\ handled = 0 /\ final = FALSE

(* A step of a pop, which continues in the loop when it returns.             *)
PopThen(onTrue, onFalse) ==
    /\ Pop
    /\ loop' = CASE cpc' = "idle" -> onTrue
                 [] cpc' = "quit" -> onFalse
                 [] OTHER -> loop

(* The while condition, and FrameBatch batch(output.lock()) when it holds.   *)
OuterPop ==
    /\ loop = "outer"
    /\ PopThen("opened", "final")
    /\ batch' = (loop' = "opened" /\ owned)
    /\ UNCHANGED <<pops, remaining, owned, handled, final>>

ConsiderGrow ==
    /\ loop = "opened"
    /\ loop' = IF pops > PopsPerGrow THEN "grow" ELSE "submit"
    /\ pops' = IF pops > PopsPerGrow THEN 0 ELSE pops + 1
    /\ UNCHANGED <<vars, remaining, owned, batch, handled, final>>

\* Mutant: the frame popped before the queue was grown is forgotten.
Mutant_GrowQueue ==
    /\ loop = "grow"
    /\ Grow
    /\ loop' = IF cpc' = "idle" THEN "count" ELSE "grow"
    /\ UNCHANGED <<pops, remaining, owned, batch, handled, final>>

GrowQueue ==
    /\ loop = "grow"
    /\ Grow
    /\ loop' = IF cpc' = "idle" THEN "submit" ELSE "grow"
    /\ UNCHANGED <<pops, remaining, owned, batch, handled, final>>

(* grow() returns false.                                                     *)
GrowRefused ==
    /\ loop = "grow" /\ cpc = "idle"
    /\ oldQueue # null \/ TargetSize <= currentNumElements
    /\ loop' = "submit"
    /\ UNCHANGED <<vars, pops, remaining, owned, batch, handled, final>>

Submit ==
    /\ loop = "submit"
    /\ handled' = IF batch THEN data ELSE handled
    /\ remaining' = IF remaining > 0 THEN remaining - 1 ELSE 0
    /\ loop' = IF remaining > 1 THEN "inner" ELSE "count"
    /\ UNCHANGED <<vars, pops, owned, batch, final>>

\* Mutant: one more entry is expected than the queue holds.
Mutant_CountExtra ==
    /\ loop = "count"
    /\ remaining' = Len(buf[queue]) + 1
    /\ loop' = IF remaining' > 0 THEN "inner" ELSE "end"
    /\ UNCHANGED <<vars, pops, owned, batch, handled, final>>

(* numExtraEntries = enqueuededElements(): the queue in use only.            *)
CountExtra ==
    /\ loop = "count"
    /\ remaining' = Len(buf[queue])
    /\ loop' = IF remaining' > 0 THEN "inner" ELSE "end"
    /\ UNCHANGED <<vars, pops, owned, batch, handled, final>>

(* The inner pop; when it returns false the thread returns at once.          *)
InnerPop ==
    /\ loop = "inner"
    /\ PopThen("submit", "done")
    /\ batch' = IF loop' = "done" THEN FALSE ELSE batch
    /\ UNCHANGED <<pops, remaining, owned, handled, final>>

\* Mutant: the thread quits after a batch.
Mutant_EndBatch ==
    /\ loop = "end"
    /\ batch' = FALSE
    /\ loop' = IF released THEN "done" ELSE "outer"
    /\ UNCHANGED <<vars, pops, remaining, owned, handled, final>>

EndBatch ==
    /\ loop = "end"
    /\ batch' = FALSE
    /\ loop' = "outer"
    /\ UNCHANGED <<vars, pops, remaining, owned, handled, final>>

FinalBatch ==
    /\ loop = "final"
    /\ final' = owned
    /\ loop' = "done"
    /\ UNCHANGED <<vars, pops, remaining, owned, batch, handled>>

(* The user lets go of the Output.                                           *)
DropOutput ==
    /\ owned
    /\ owned' = FALSE
    /\ UNCHANGED <<vars, loop, pops, remaining, batch, handled, final>>

Done == loop = "done" /\ released /\ UNCHANGED asyncVars

Thread ==
    \/ OuterPop \/ ConsiderGrow \/ GrowQueue \/ GrowRefused \/ Submit
    \/ CountExtra \/ InnerPop \/ EndBatch \/ FinalBatch

AsyncNext ==
    \/ (Push \/ ReleaseConsumer) /\ UNCHANGED loopVars
    \/ Thread
    \/ DropOutput
    \/ Done

(***************************************************************************)
(* The thread runs and a push that has begun ends; nobody has to push, to  *)
(* destroy the Input or to drop the Output.                                *)
(***************************************************************************)
AsyncSpec ==
    /\ AsyncInit /\ [][AsyncNext]_asyncVars
    /\ WF_asyncVars(Thread)
    /\ WF_asyncVars((PushEnqueue \/ PushSignal \/ PushFull \/ PushFail)
                        /\ UNCHANGED loopVars)
-----------------------------------------------------------------------------
(* The entries counted before the inner loop are really there: the inner pop *)
(* never returns false, whether the producer is in the middle of a push, a   *)
(* queue was replaced or the release came in between; so the thread ends     *)
(* with its final batch.                                                     *)
EndsWithFinalBatch ==
    /\ loop = "inner" => cpc # "quit"
    /\ loop = "done" /\ owned => final

(* An Output that is owned to the end has been given every frame the queue   *)
(* accepted, before its final batch.                                         *)
NothingUnhandled == final => handled = accepted

(* Each frame the queue accepted is handed to the Output if it stays owned,  *)
(* while the stream is alive too: not only when the Input goes away.         *)
EveryFrameHandled ==
    \A n \in 1 .. MaxPushes : (accepted >= n) ~> (handled >= n \/ ~owned)

(* When the Input is destroyed the thread comes to its end.                  *)
ThreadEnds == released ~> (loop = "done")

(***************************************************************************)
(* What the Input and the Output see of all this is FrameLoop.             *)
(***************************************************************************)

(* A frame was popped and is yet to be submitted.                            *)
InHand == loop \in {"opened", "grow", "submit"} \/ cpc = "delete"
Unhandled == (IF InHand THEN <<data>> ELSE <<>>) \o InFlight

(* While the frame that a batch was opened for is in hand no other is        *)
(* expected.                                                                 *)
Stage ==
    CASE loop = "outer" -> "waiting"
      [] loop \in {"opened", "grow"} -> "opened"
      [] loop = "submit" /\ remaining = 0 -> "opened"
      [] loop = "submit" /\ remaining # 0 -> "open"
      [] loop \in {"count", "inner", "end"} -> "open"
      [] OTHER -> loop

Frames == INSTANCE FrameLoop WITH
              fifo <- Unhandled, thread <- Stage,
              FifoSize <- MaxPushes, FifoLeast <- Capacity(InitialSize)

(* The frames leave the queue in order and in batches of at least one, and   *)
(* the thread leaves its loop when the Input is gone and there is none.      *)
ImplementsLoop ==
    Frames!QueueInit /\ [][Frames!QueueNext(1 .. MaxPushes)]_(Frames!queueVars)

(* A frame is refused only when as many as the smallest ring holds are yet   *)
(* to be handled, whether the queue is being replaced or not.                *)
RefusalsAreFull == [][PushFull => Len(Unhandled) >= Capacity(InitialSize)]_asyncVars
=============================================================================
