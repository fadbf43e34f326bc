----------------------------- MODULE AudioStream -----------------------------
(***************************************************************************)
(* An asynchronous AudioStream (src/AudioStream.h, .inl): the Input, which *)
(* cuts what the audio callback hands it into frames, the queue between    *)
(* the threads, and the AudioOutput with the thread that feeds it.         *)
(*                                                                         *)
(* The queue and the loop of the thread are those of FrameLoop, and the    *)
(* user keeps the Output.  Samples are numbered from 1 in the order they   *)
(* are handed to the Input.  The host's transport advances with them when  *)
(* it plays, and the host may start, stop and seek.                        *)
(***************************************************************************)
EXTENDS AudioOutput, FrameLoop

CONSTANTS PacketCapacity, \* samples a packet holds
          MaxCalls,       \* bound: calls of the Input's functions
          MaxCallSize     \* bound: samples of a call

ASSUME StreamAssumption ==
    /\ FifoSize \in Nat /\ FifoLeast \in 1 .. FifoSize /\ PacketCapacity \in Nat \ {0}
    /\ MaxCalls \in Nat /\ MaxCallSize \in Nat

VARIABLES
    internalInfo,       \* [channels, suspended]
    inputTransport,     \* the transport of the Input's own playhead
    framesWereDropped, problemsPushingPlayHead, haltedDueToNoListeners,
    pending,            \* frames of the call in progress yet to be submitted
    hostTransport,      \* what the host's transport is
    handed,             \* samples handed to the Input
    calls,
    droppedFrames,      \* the counter of AudioStream
    callLost            \* a frame of the call in progress did not get into the queue

inputVars == <<internalInfo, inputTransport, framesWereDropped, problemsPushingPlayHead,
               haltedDueToNoListeners, pending, hostTransport, handed, calls,
               droppedFrames, callLost>>
streamVars == <<vars, queueVars, inputVars>>

StreamInit ==
    /\ Init
    /\ QueueInit
    /\ internalInfo = [channels |-> 0, suspended |-> FALSE]
    /\ inputTransport = Rest /\ hostTransport \in HostTransports
    /\ handed = 0 /\ pending = <<>>
    /\ framesWereDropped = FALSE /\ problemsPushingPlayHead = FALSE
    /\ haltedDueToNoListeners = FALSE
    /\ calls = 0 /\ droppedFrames = 0
    /\ callLost = FALSE

-----------------------------------------------------------------------------
(* The Input, by the audio thread: one call at a time.                       *)

MayCall == pending = <<>> /\ ~released /\ calls < MaxCalls

(* initializeInfo(); a frame that the queue refuses is dropped, which the    *)
(* Input does not look at.                                                   *)
InitializeInfo(c, suspended) ==
    /\ MayCall
    /\ calls' = calls + 1
    /\ internalInfo' = [channels |-> c, suspended |-> suspended]
    /\ \/ Put([type |-> "info", channels |-> c]) /\ UNCHANGED droppedFrames
       \/ Refuse /\ droppedFrames' = droppedFrames + 1
    /\ UNCHANGED <<vars, inputTransport, framesWereDropped,
                   problemsPushingPlayHead, haltedDueToNoListeners, pending,
                   hostTransport, handed, callLost>>

IsAnyoneListening ==
    /\ MayCall
    /\ calls' = calls + 1
    /\ haltedDueToNoListeners' = (asked = {})
    /\ UNCHANGED <<vars, queueVars, internalInfo, inputTransport, framesWereDropped,
                   problemsPushingPlayHead, pending, hostTransport, handed,
                   droppedFrames, callLost>>

(* The packets of the next n samples.  To each belongs what the host's       *)
(* transport is at its first sample ("at"); "sure" marks those before which  *)
(* the call lost no frame.                                                   *)
Packets(n) ==
    [k \in 1 .. (n + PacketCapacity - 1) \div PacketCapacity |->
        LET first == (k - 1) * PacketCapacity
        IN  [type |-> "audio", channels |-> internalInfo.channels,
             samples |-> [i \in 1 .. Least(PacketCapacity, n - first) |-> handed + first + i],
             at |-> Advanced(hostTransport, first), sure |-> TRUE]]

Transport(t) == [type |-> "transport", transport |-> t]

\* Mutant: the transport is pushed only when it changed.
Mutant_Discontinuity == FALSE

Discontinuity == framesWereDropped \/ problemsPushingPlayHead \/ haltedDueToNoListeners

(* processIncomingRTAudio() with n samples, up to its first frame.  The      *)
(* transport is pushed first if it is not what the Input expected it to be.  *)
(* The flags are the audio thread's own, so that it makes no difference that *)
(* they are set as the frames are submitted, and not in the end.             *)
ProcessIncomingRTAudio(n) ==
    /\ MayCall /\ internalInfo.channels > 0 /\ ~internalInfo.suspended
    /\ handed + n <= MaxSamples
    /\ calls' = calls + 1 /\ handed' = handed + n
    /\ pending' = (IF Discontinuity \/ hostTransport # inputTransport
                   THEN <<Transport(hostTransport)>> ELSE <<>>) \o Packets(n)
    /\ hostTransport' = Advanced(hostTransport, n) /\ inputTransport' = hostTransport'
    /\ problemsPushingPlayHead' = FALSE /\ callLost' = FALSE
    /\ UNCHANGED <<vars, queueVars, internalInfo, framesWereDropped,
                   haltedDueToNoListeners, droppedFrames>>

(* The host goes on while the Input is suspended or is not called, seeks,    *)
(* starts or stops.                                                          *)
HostMoves(t) ==
    /\ MayCall
    /\ t # hostTransport
    /\ calls' = calls + 1
    /\ hostTransport' = t
    /\ UNCHANGED <<vars, queueVars, internalInfo, inputTransport, framesWereDropped,
                   problemsPushingPlayHead, haltedDueToNoListeners, pending, handed,
                   droppedFrames, callLost>>

SubmitFrame ==
    /\ pending # <<>>
    /\ LET frame == Head(pending)
       IN  Put(IF frame.type = "audio" THEN [frame EXCEPT !.sure = ~callLost] ELSE frame)
    /\ pending' = Tail(pending)
    /\ UNCHANGED <<vars, internalInfo, inputTransport, framesWereDropped,
                   problemsPushingPlayHead, haltedDueToNoListeners, hostTransport, handed,
                   calls, droppedFrames, callLost>>

NoteDrop(frame) ==
    IF frame.type = "audio"
    THEN framesWereDropped' = TRUE /\ UNCHANGED problemsPushingPlayHead
    ELSE problemsPushingPlayHead' = TRUE /\ UNCHANGED framesWereDropped

(* A dropped frame is counted by publishFrame(), and, if it is audio, its    *)
(* samples are counted again by the Input.                                   *)
DropFrame ==
    /\ pending # <<>> /\ Refuse
    /\ LET frame   == Head(pending)
           samples == IF frame.type = "audio" THEN Len(frame.samples) ELSE 0
       IN  /\ NoteDrop(frame)
           /\ droppedFrames' = droppedFrames + 1 + samples
    /\ callLost' = TRUE
    /\ pending' = Tail(pending)
    /\ UNCHANGED <<vars, internalInfo, inputTransport, haltedDueToNoListeners,
                   hostTransport, handed, calls>>

(* ~Input(), which releases the consumer.                                    *)
DestroyInput ==
    /\ pending = <<>> /\ Release
    /\ UNCHANGED <<vars, inputVars>>

-----------------------------------------------------------------------------
(* asyncAudioSystem(): the loop, and the batch of the Output that it opens,  *)
(* feeds and ends.  One more is run when the Input is gone.                  *)

AsyncBegin == OpenBatch /\ BeginBatch /\ UNCHANGED inputVars

AsyncHandle ==
    /\ Take
    /\ HandleFrame(Head(fifo))
    /\ UNCHANGED <<sent, inputVars>>

AsyncEnd ==
    /\ EndBatch
    /\ CloseBatch \/ (thread = "final" /\ UNCHANGED queueVars)
    /\ UNCHANGED inputVars

\* Mutant: the thread ends without a final batch.
Mutant_AsyncRelease ==
    /\ pc = "idle"
    /\ thread = "waiting" /\ fifo = <<>> /\ released
    /\ thread' = "done"
    /\ UNCHANGED <<vars, fifo, released, inputVars>>

\* Mutant: the final batch is run only if something was asked for.
Mutant_AsyncReleaseLazy ==
    /\ inputChanges
    /\ LeaveLoop /\ BeginBatch
    /\ UNCHANGED inputVars

AsyncRelease == LeaveLoop /\ BeginBatch /\ UNCHANGED inputVars

AsyncDone == Return /\ pc = "idle" /\ UNCHANGED <<vars, inputVars>>

Async ==
    \/ AsyncBegin \/ AsyncHandle \/ AsyncEnd \/ AsyncRelease \/ AsyncDone
    \/ Finish /\ UNCHANGED <<queueVars, inputVars>>

Producer ==
    \/ \E c \in ChannelCounts, suspended \in BOOLEAN : InitializeInfo(c, suspended)
    \/ \E n \in 1 .. MaxCallSize : ProcessIncomingRTAudio(n)
    \/ \E t \in HostTransports \cup {[hostTransport EXCEPT !.playing = ~@]} : HostMoves(t)
    \/ IsAnyoneListening
    \/ SubmitFrame \/ DropFrame
    \/ DestroyInput

(* Commands that come after the Input is gone may find the thread gone, too. *)
(* A listener may spool when it is called.                                   *)
StreamNext ==
    \/ Producer
    \/ Async
    \/ ~released /\ Commands /\ UNCHANGED <<queueVars, inputVars>>
    \/ Spool /\ UNCHANGED <<queueVars, inputVars>>
    \/ thread = "done" /\ UNCHANGED streamVars

(***************************************************************************)
(* The thread runs; nobody has to call the Input or to destroy it.         *)
(***************************************************************************)
StreamSpec ==
    /\ StreamInit /\ [][StreamNext]_streamVars
    /\ WF_streamVars(Async)
-----------------------------------------------------------------------------
(* When audio arrives at the Output its transport is what the host's was at  *)
(* the first of the samples, through seeks, starts and stops, suspension and *)
(* frames lost in earlier calls; in a call that lost a frame it is not known.*)
PlayheadIsRight ==
    [][Len(fifo') < Len(fifo) /\ Head(fifo).type = "audio" /\ Head(fifo).sure =>
          Advanced(transport, contained) = Head(fifo).at]_streamVars

(* The thread does not end before it has applied the commands given while    *)
(* the stream ran, though no audio came after them.                          *)
CommandsAreApplied ==
    thread = "done" => inputListeners = <<>> /\ ToSet(listeners) = asked

(* A stream whose Input is gone comes to its end, with the queue empty.      *)
StreamEnds == released ~> (thread = "done" /\ fifo = <<>>)
=============================================================================
