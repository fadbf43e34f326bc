----------------------------- MODULE AudioOutput -----------------------------
(***************************************************************************)
(* AudioStream::Output (src/AudioStream.h, .inl): the consumer's end of an *)
(* audio stream.  A thread, here the "processor", opens batches and hands  *)
(* frames to the Output; the end of a batch applies what other threads     *)
(* asked for, calls the listeners, and publishes the audio into the        *)
(* history, which anybody may lock and read.                               *)
(*                                                                         *)
(* Two mutexes are involved: inputCommandMutex guards the commands,        *)
(* aBufferMutex the history.  A step is what one thread does between two   *)
(* points where another can observe it.  Samples are numbered from 1 in    *)
(* the order they are handed over; a sample is the same number on each     *)
(* channel, and 0 where there was none.                                    *)
(***************************************************************************)
EXTENDS CircularBuffer, SequencesExt

CONSTANTS Listener,        \* the listeners
          Spooling,        \* those that spool deferred audio when called
          Peeking,         \* those that look at the history when told of changes
          Consumers,       \* what modifyConsumerInfo() may be asked for
          Shrinks,         \* whether it is asked for a smaller size than before
          ChannelCounts,   \* what the producer may announce
          HostTransports,  \* what the host's transport may be set to
          MaxSamples,      \* bound: samples handed over
          MaxPacket,       \* bound: samples of a packet
          MaxCommands,     \* bound: commands given
          MaxInfos         \* bound: changes of the number of channels

(* TransportData: isPlaying, and those of isLooping and isRecording that are *)
(* set, which are only copied and compared.                                  *)
TransportData == [position : Nat, playing : BOOLEAN, flags : SUBSET {"looping", "recording"}]

ASSUME OutputAssumption ==
    /\ Spooling \subseteq Listener /\ Peeking \subseteq Listener
    /\ Consumers \subseteq [store : BOOLEAN, size : Nat, capacity : Nat, block : BOOLEAN]
    /\ Shrinks \in BOOLEAN
    /\ ChannelCounts \subseteq Nat \ {0} /\ HostTransports \subseteq TransportData
    /\ {MaxSamples, MaxPacket, MaxCommands, MaxInfos} \subseteq Nat
    /\ Garbage \in Nat \ (0 .. MaxSamples)

VARIABLES
    \* the Output's members
    info, oldInfo,         \* [channels, store, size, capacity, block]
    audioInput,            \* the batch, a sequence of samples per channel
    deferredAudioInput,    \* audio that found the history locked
    numDeferred,           \* numDeferredAsyncSamples
    history,               \* audioHistoryBuffers
    clock,                 \* playhead: samples that went by
    transport,             \* playhead.transport
    bufferClock, deferredClock,   \* bufferPlayhead, deferredCheckpointPlayhead
    bufferInfo, deferredInfo,     \* bufferInfo, deferredCheckpointBufferInfo
    listeners,
    producerInfoChange, consumerInfoChange,
    inputListeners, inputInfo, inputChanges,   \* the commands
    commandMutex, bufferMutex,                 \* their owners
    \* the processor
    pc, signalChange, todo, held,
    \* the other threads
    asked,                 \* listeners added and not removed, as the callers see it
    commands,              \* commands given so far
    reader,                \* a thread that uses getAudioBufferViews()
    \* the producer and the listeners
    sent,                  \* [samples, channels, infos] handed over so far
    told, heard,           \* the info and the last sample each listener got, if any
    quiet,                 \* those whose removal was complete when the batch ended
    died                   \* those that were told of the Output's end

data == <<audioInput, deferredAudioInput, numDeferred, history>>
playheads == <<clock, transport, bufferClock, deferredClock, bufferInfo, deferredInfo>>
infos == <<info, oldInfo, producerInfoChange>>
requests == <<consumerInfoChange, inputListeners, inputInfo, inputChanges>>
mutexes == <<commandMutex, bufferMutex>>
processor == <<pc, signalChange, todo, held>>
callers == <<asked, commands, reader>>
ghosts == <<told, heard, quiet, died>>
vars == <<data, playheads, infos, requests, listeners, mutexes, processor,
          callers, sent, ghosts>>

None == "none"
NoInfo == [channels |-> 0, store |-> FALSE, size |-> 0, capacity |-> 0, block |-> FALSE]
ConsumerPart(i) == [store |-> i.store, size |-> i.size, capacity |-> i.capacity, block |-> i.block]

channels == Len(audioInput)
Rest == [position |-> 0, playing |-> FALSE, flags |-> {}]

(* Playhead::advance(), as to the transport.                                 *)
Advanced(t, n) == IF t.playing THEN [t EXCEPT !.position = @ + n] ELSE t

contained == IF channels = 0 THEN 0 ELSE Len(audioInput[1])

Init ==
    /\ info = NoInfo /\ oldInfo = NoInfo /\ bufferInfo = NoInfo /\ deferredInfo = NoInfo
    /\ audioInput = <<>> /\ deferredAudioInput = <<>> /\ numDeferred = 0 /\ history = <<>>
    /\ clock = 0 /\ transport = Rest /\ bufferClock = 0 /\ deferredClock = 0
    /\ listeners = <<>>
    /\ producerInfoChange = FALSE /\ consumerInfoChange = FALSE
    /\ inputListeners = <<>> /\ inputInfo = ConsumerPart(NoInfo) /\ inputChanges = FALSE
    /\ commandMutex = None /\ bufferMutex = None
    /\ pc = "idle" /\ signalChange = FALSE /\ todo = <<>> /\ held = <<>>
    /\ asked = {} /\ commands = 0 /\ reader = "away"
    /\ sent = [samples |-> 0, channels |-> 0, infos |-> 0]
    /\ told = [l \in Listener |-> <<>>] /\ heard = [l \in Listener |-> 0] /\ quiet = {}
    /\ died = {}

-----------------------------------------------------------------------------
(* What other threads may ask for, under inputCommandMutex.                  *)

Command(listener, added) ==
    inputListeners' = Append(inputListeners, [listener |-> listener, wasAdded |-> added])

MayCommand == commandMutex = None /\ commands < MaxCommands /\ pc # "dead"

(* Assumed of the callers, who are outside the repository: they add a        *)
(* listener that is not there, and remove what they added.  (The code also   *)
(* accepts a second addition, after which the listener is called twice, and  *)
(* skips the removal of what is not there, but counts it.)                   *)
AddListener(l) ==
    /\ MayCommand /\ l \notin asked
    /\ Command(l, TRUE)
    /\ inputChanges' = TRUE
    /\ asked' = asked \cup {l} /\ commands' = commands + 1
    /\ quiet' = quiet \ {l}
    /\ UNCHANGED <<data, playheads, infos, consumerInfoChange, inputInfo, listeners,
                   mutexes, processor, reader, sent, told, heard, died>>

RemoveListener(l) ==
    /\ MayCommand /\ l \in asked
    /\ Command(l, FALSE)
    /\ inputChanges' = TRUE
    /\ asked' = asked \ {l} /\ commands' = commands + 1
    /\ UNCHANGED <<data, playheads, infos, consumerInfoChange, inputInfo, listeners,
                   mutexes, processor, reader, sent, ghosts>>

ModifyConsumerInfo(consumer) ==
    /\ MayCommand
    /\ inputInfo' = [consumer EXCEPT !.size = Least(@, consumer.capacity)]
    /\ inputChanges' = TRUE /\ consumerInfoChange' = TRUE
    /\ commands' = commands + 1
    /\ UNCHANGED <<data, playheads, infos, inputListeners, listeners, mutexes,
                   processor, asked, reader, sent, ghosts>>

(* getAudioBufferViews() by some thread, and the end of the access it gave.  *)
TakeViews ==
    /\ reader = "away" /\ bufferMutex = None /\ pc # "dead"
    /\ reader' = "viewing" /\ bufferMutex' = "reader"
    /\ UNCHANGED <<data, playheads, infos, requests, listeners, commandMutex,
                   processor, asked, commands, sent, ghosts>>

ReleaseViews ==
    /\ reader = "viewing"
    /\ reader' = "away" /\ bufferMutex' = None
    /\ UNCHANGED <<data, playheads, infos, requests, listeners, commandMutex,
                   processor, asked, commands, sent, ghosts>>

-----------------------------------------------------------------------------
(* A batch, by the processor.                                                *)

\* Mutant: the batch that begins does not remember the info.
Mutant_BeginInfo == audioInput' = [c \in 1 .. channels |-> <<>>] /\ UNCHANGED oldInfo

\* Mutant: the offsets are not reset.
Mutant_BeginOffsets == oldInfo' = info /\ UNCHANGED audioInput

(* beginFrameProcessing() *)
Begin == audioInput' = [c \in 1 .. channels |-> <<>>] /\ oldInfo' = info

BeginBatch ==
    /\ pc = "idle"
    /\ pc' = "open"
    /\ Begin
    /\ UNCHANGED <<deferredAudioInput, numDeferred, history, playheads, info,
                   producerInfoChange, requests, listeners, mutexes,
                   signalChange, todo, held, callers, sent, ghosts>>

(* insertFrameIntoBuffer(): a channel new to the batch has zeros before.     *)
HandleAudio(frame) ==
    /\ audioInput' = [c \in 1 .. frame.channels |->
                        (IF c <= channels THEN audioInput[c]
                                          ELSE [i \in 1 .. contained |-> 0])
                            \o frame.samples]
    /\ UNCHANGED <<deferredAudioInput, numDeferred, history, playheads, infos, requests,
                   listeners, mutexes, processor, callers, ghosts>>

(* What a frame that is not audio changes.  The arrangement and the names of *)
(* the channels, which only the listeners look up, are left out.             *)
ApplyChange(frame) ==
    /\ info' = IF frame.type = "info" THEN [info EXCEPT !.channels = frame.channels] ELSE info
    /\ producerInfoChange' = (producerInfoChange \/ frame.type = "info")
    /\ transport' = IF frame.type = "transport" THEN frame.transport ELSE transport

(* With audio in the batch the batch ends first, and another begins.         *)
HandleChange(frame) ==
    /\ IF contained > 0
       THEN /\ pc' = "end" /\ held' = <<frame>>
            /\ UNCHANGED <<info, producerInfoChange, transport>>
       ELSE ApplyChange(frame) /\ UNCHANGED <<pc, held>>
    /\ UNCHANGED <<data, clock, bufferClock, deferredClock, bufferInfo, deferredInfo, oldInfo,
                   requests, listeners, mutexes, signalChange, todo, callers, ghosts>>

HandleFrame(frame) ==
    /\ pc = "open"
    /\ IF frame.type = "audio" THEN HandleAudio(frame) ELSE HandleChange(frame)

EndBatch ==
    /\ pc = "open"
    /\ pc' = "end"
    /\ UNCHANGED <<data, playheads, infos, requests, listeners, mutexes,
                   signalChange, todo, held, callers, sent, ghosts>>

-----------------------------------------------------------------------------
(* endFrameProcessing() *)

HistoryMissing(i) == i.store /\ Len(history) # channels

(* The flags are read; without changes the commands are not looked at.       *)
ReadFlags ==
    /\ pc = "end"
    /\ producerInfoChange' = FALSE
    /\ pc' = IF inputChanges THEN "lock" ELSE "resize"
    /\ signalChange' = (producerInfoChange \/ (~inputChanges /\ HistoryMissing(info)))
    /\ quiet' = Listener \ asked
    /\ UNCHANGED <<data, playheads, info, oldInfo, requests, listeners, mutexes,
                   todo, held, callers, sent, told, heard, died>>

LockCommands ==
    /\ pc = "lock" /\ commandMutex = None
    /\ commandMutex' = "processor"
    /\ info' = IF consumerInfoChange
               THEN [channels |-> info.channels, store |-> inputInfo.store, size |-> inputInfo.size,
                     capacity |-> inputInfo.capacity, block |-> inputInfo.block]
               ELSE info
    /\ signalChange' = (signalChange \/ consumerInfoChange \/ HistoryMissing(info'))
    /\ consumerInfoChange' = FALSE
    /\ pc' = "commands"
    /\ UNCHANGED <<data, playheads, oldInfo, producerInfoChange, inputListeners, inputInfo,
                   inputChanges, listeners, bufferMutex, todo, held, callers, sent, ghosts>>

(* A listener that is told of changes may look at the history.               *)
Tell(l) ==
    /\ l \in Peeking => bufferMutex = None
    /\ told' = [told EXCEPT ![l] = <<info>>]

\* Mutant: a listener is added without being told the info.
Mutant_ApplyAdd ==
    /\ pc = "commands" /\ inputListeners # <<>> /\ Head(inputListeners).wasAdded
    /\ LET l == Head(inputListeners).listener
       IN  /\ listeners' = Append(listeners, l)
           /\ heard' = [heard EXCEPT ![l] = 0]
    /\ inputListeners' = Tail(inputListeners)
    /\ UNCHANGED <<data, playheads, infos, consumerInfoChange, inputInfo, inputChanges,
                   mutexes, processor, callers, sent, told, quiet, died>>

(* An added listener is told at once, unless all will be told later on.      *)
ApplyAdd ==
    /\ pc = "commands" /\ inputListeners # <<>> /\ Head(inputListeners).wasAdded
    /\ LET l == Head(inputListeners).listener
       IN  /\ listeners' = Append(listeners, l)
           /\ IF signalChange THEN UNCHANGED told ELSE Tell(l)
           /\ heard' = [heard EXCEPT ![l] = 0]
    /\ inputListeners' = Tail(inputListeners)
    /\ UNCHANGED <<data, playheads, infos, consumerInfoChange, inputInfo, inputChanges,
                   mutexes, processor, callers, sent, quiet, died>>

\* Mutant: the listener that was added last is removed.
Mutant_ApplyRemove ==
    /\ pc = "commands" /\ inputListeners # <<>> /\ ~Head(inputListeners).wasAdded
    /\ LET l == Head(inputListeners).listener
       IN  /\ listeners' = IF listeners = <<>> THEN <<>> ELSE Front(listeners)
           /\ told' = [told EXCEPT ![l] = <<>>]
    /\ inputListeners' = Tail(inputListeners)
    /\ UNCHANGED <<data, playheads, infos, consumerInfoChange, inputInfo, inputChanges,
                   mutexes, processor, callers, sent, heard, quiet, died>>

ApplyRemove ==
    /\ pc = "commands" /\ inputListeners # <<>> /\ ~Head(inputListeners).wasAdded
    /\ LET l == Head(inputListeners).listener
       IN  /\ listeners' = RemoveFirst(listeners, l)
           /\ told' = [told EXCEPT ![l] = <<>>]
    /\ inputListeners' = Tail(inputListeners)
    /\ UNCHANGED <<data, playheads, infos, consumerInfoChange, inputInfo, inputChanges,
                   mutexes, processor, callers, sent, heard, quiet, died>>

\* Mutant: the mutex is not released.
Mutant_UnlockCommands ==
    /\ pc = "commands" /\ inputListeners = <<>>
    /\ inputChanges' = FALSE
    /\ pc' = "resize"
    /\ UNCHANGED <<data, playheads, infos, consumerInfoChange, inputListeners, inputInfo,
                   listeners, mutexes, signalChange, todo, held, callers, sent, ghosts>>

UnlockCommands ==
    /\ pc = "commands" /\ inputListeners = <<>>
    /\ inputChanges' = FALSE
    /\ commandMutex' = None
    /\ pc' = "resize"
    /\ UNCHANGED <<data, playheads, infos, consumerInfoChange, inputListeners, inputInfo,
                   listeners, bufferMutex, signalChange, todo, held, callers, sent, ghosts>>

HistoryDifferent ==
    \/ Len(history) # channels
    \/ channels > 0 /\ (info.size # history[1].size \/ info.capacity # Capacity(history[1]))

(* ensureAudioHistoryStorage(): the cursor the first channel had is set on   *)
(* each of the channels after their change of size.                          *)
EnsureAudioHistoryStorage ==
    LET old(c) == IF c <= Len(history) THEN history[c] ELSE NewStream
    IN  [c \in 1 .. channels |->
            SetCursor(SetStorageRequirements(old(c), info.size, info.capacity, TRUE, Filler),
                      old(1).cursor)]

ResizeHistory ==
    /\ pc = "resize"
    /\ IF signalChange /\ info.store /\ HistoryDifferent
       THEN bufferMutex = None /\ history' = EnsureAudioHistoryStorage
       ELSE UNCHANGED history
    /\ deferredAudioInput' = [c \in 1 .. channels |->
            IF c <= Len(deferredAudioInput) THEN deferredAudioInput[c] ELSE <<>>]
    /\ pc' = "notify" /\ todo' = listeners
    /\ UNCHANGED <<audioInput, numDeferred, playheads, infos, requests, listeners, mutexes,
                   signalChange, held, callers, sent, ghosts>>

\* Mutant: the deferred audio is not cleared.
Mutant_Merge(realInputs, playhead, i) ==
    /\ history' = [c \in DOMAIN history |->
          CopyIntoHead(IF numDeferred > 0 THEN CopyIntoHead(history[c], deferredAudioInput[c])
                                          ELSE history[c],
                       realInputs[c])]
    /\ UNCHANGED <<deferredAudioInput, numDeferred>>
    /\ deferredClock' = playhead /\ bufferClock' = playhead
    /\ deferredInfo' = i /\ bufferInfo' = i

(* mergeInputToBuffer() with the samples of realInputs per channel.          *)
Merge(realInputs, playhead, i) ==
    /\ history' = [c \in DOMAIN history |->
          CopyIntoHead(IF numDeferred > 0 THEN CopyIntoHead(history[c], deferredAudioInput[c])
                                          ELSE history[c],
                       realInputs[c])]
    /\ deferredAudioInput' = [c \in DOMAIN deferredAudioInput |-> <<>>]
    /\ numDeferred' = 0
    /\ deferredClock' = playhead /\ bufferClock' = playhead
    /\ deferredInfo' = i /\ bufferInfo' = i

(* ListenerContext::getAudioBufferViews(true), by the listener to be called. *)
(* mergeInputToBuffer() asserts that the numbers of channels are the same;   *)
(* when they are not (see SpoolFits) the exception ends the program, unless  *)
(* the listener catches it, which is no step then.                           *)
Spool ==
    /\ pc = "notify" /\ todo # <<>> /\ Head(todo) \in Spooling
    /\ Len(deferredAudioInput) = Len(history)
    /\ bufferMutex = None
    /\ Merge([c \in DOMAIN history |-> <<>>], deferredClock, deferredInfo)
    /\ UNCHANGED <<audioInput, clock, transport, infos, requests, listeners, mutexes, processor,
                   callers, sent, ghosts>>

(* onStreamPropertiesChanged(), then onStreamAudio() of the next listener.   *)
Notify ==
    /\ pc = "notify" /\ todo # <<>>
    /\ IF signalChange THEN Tell(Head(todo)) ELSE UNCHANGED told
    /\ heard' = IF contained > 0 THEN [heard EXCEPT ![Head(todo)] = Last(audioInput[1])] ELSE heard
    /\ todo' = Tail(todo)
    /\ UNCHANGED <<data, playheads, infos, requests, listeners, mutexes, pc, signalChange,
                   held, callers, sent, quiet, died>>

Advance ==
    /\ pc = "notify" /\ todo = <<>>
    /\ clock' = clock + contained /\ transport' = Advanced(transport, contained)
    /\ pc' = "publish"
    /\ UNCHANGED <<data, bufferClock, deferredClock, bufferInfo, deferredInfo, infos, requests,
                   listeners, mutexes, signalChange, todo, held, callers, sent, ghosts>>

Publishes == info.store /\ info.size > 0 /\ channels > 0

\* Mutant: the audio that could not be published is forgotten.
Mutant_Defer ==
    /\ numDeferred' = Len(deferredAudioInput[1])
    /\ deferredClock' = clock /\ deferredInfo' = info
    /\ UNCHANGED <<deferredAudioInput, history, bufferClock, bufferInfo>>

(* What could not be published is kept for later.                            *)
Defer ==
    /\ deferredAudioInput' = [c \in 1 .. channels |-> deferredAudioInput[c] \o audioInput[c]]
    /\ numDeferred' = Len(deferredAudioInput'[1])
    /\ deferredClock' = clock /\ deferredInfo' = info
    /\ UNCHANGED <<history, bufferClock, bufferInfo>>

(* The history is updated, at once or, if somebody reads it and the Output   *)
(* is not to block, later.  After that the batch is over, or the next begins *)
(* with the frame that ended it.                                             *)
Publish ==
    /\ pc = "publish"
    /\ IF ~Publishes
       THEN UNCHANGED <<deferredAudioInput, numDeferred, history, bufferClock,
                        deferredClock, bufferInfo, deferredInfo>>
       ELSE IF bufferMutex = None THEN Merge(audioInput, clock, info)
       ELSE ~info.block /\ Defer
    /\ IF held = <<>>
       THEN pc' = "idle" /\ UNCHANGED <<info, oldInfo, producerInfoChange, transport, audioInput>>
       ELSE pc' = "open" /\ Begin /\ ApplyChange(held[1])
    /\ held' = <<>>
    /\ UNCHANGED <<clock, requests, listeners, mutexes, signalChange, todo, callers, sent, ghosts>>

-----------------------------------------------------------------------------
(* ~Output(), by whoever lets go of it last, which is not during a batch: it *)
(* waits for the history, and tells the listeners.                           *)
Destroy ==
    /\ pc = "idle" /\ bufferMutex = None
    /\ pc' = "dead" /\ todo' = listeners
    /\ UNCHANGED <<data, playheads, infos, requests, listeners, mutexes, signalChange,
                   held, callers, sent, ghosts>>

StreamDied ==
    /\ pc = "dead" /\ todo # <<>>
    /\ died' = died \cup {Head(todo)}
    /\ todo' = Tail(todo)
    /\ UNCHANGED <<data, playheads, infos, requests, listeners, mutexes, pc, signalChange,
                   held, callers, sent, told, heard, quiet>>

Stopped == pc = "dead" /\ todo = <<>> /\ UNCHANGED vars

-----------------------------------------------------------------------------
(* The frames, as the queue delivers them when it does not overflow: audio   *)
(* has the number of channels that was announced last.                       *)

GiveAudio ==
    /\ sent.channels > 0
    /\ \E n \in 1 .. Least(MaxPacket, MaxSamples - sent.samples) :
          /\ HandleFrame([type |-> "audio", channels |-> sent.channels,
                          samples |-> [i \in 1 .. n |-> sent.samples + i]])
          /\ sent' = [sent EXCEPT !.samples = @ + n]

GiveInfo ==
    /\ sent.infos < MaxInfos
    /\ \E c \in ChannelCounts :
          /\ HandleFrame([type |-> "info", channels |-> c])
          /\ sent' = [sent EXCEPT !.channels = c, !.infos = @ + 1]

(* The transport is set; the arrangement and names change nothing here, but  *)
(* they end a batch as well.                                                 *)
GiveTransport ==
    /\ \E t \in HostTransports : HandleFrame([type |-> "transport", transport |-> t])
    /\ UNCHANGED sent

Batch == BeginBatch \/ GiveAudio \/ GiveInfo \/ GiveTransport \/ EndBatch

Finish ==
    \/ ReadFlags \/ LockCommands \/ ApplyAdd \/ ApplyRemove \/ UnlockCommands
    \/ ResizeHistory \/ Notify \/ Advance \/ Publish

Commands ==
    \/ \E l \in Listener : AddListener(l) \/ RemoveListener(l)
    \/ \E consumer \in Consumers :
          (Shrinks \/ consumer.size >= inputInfo.size) /\ ModifyConsumerInfo(consumer)

Next ==
    \/ Batch \/ Finish \/ Spool \/ Commands
    \/ TakeViews \/ ReleaseViews
    \/ Destroy \/ StreamDied \/ Stopped

(***************************************************************************)
(* A batch that is to end does so, given that an access to the history is  *)
(* not held for ever; nobody has to begin a batch.                         *)
(***************************************************************************)
Spec ==
    /\ Init /\ [][Next]_vars
    /\ SF_vars(Finish)
    /\ WF_vars(ReleaseViews)
-----------------------------------------------------------------------------
(* A listener gets audio only when it has been told the info that is in      *)
(* force, with as many channels as that says.                                *)
AudioAsTold ==
    [][\A l \in Listener : heard'[l] # heard[l] /\ heard'[l] # 0 =>
          /\ told'[l] = <<info>>
          /\ channels = info.channels]_vars

(* When a listener is told of changes, the info it is given as the one       *)
(* before is the one it was told last.                                       *)
BeforeIsLastTold ==
    [][(pc = "notify" /\ signalChange /\ todo' # todo) =>
          told[Head(todo)] \in {<<>>, <<oldInfo>>}]_vars

(* As long as a listener is not removed it hears each sample once, in order, *)
(* through changes of info and of the other listeners.                       *)
HearsEverySample ==
    [][\A l \in Listener : heard'[l] # heard[l] /\ heard'[l] # 0 =>
          heard[l] \in {0, audioInput[1][1] - 1}]_vars

(* The next step of the batch, or of the end of the Output, calls the        *)
(* listener: in its turn, or as its addition is applied.                     *)
Called(l) ==
    \/ todo # <<>> /\ todo' = Tail(todo) /\ Head(todo) = l
    \/ told'[l] # told[l] /\ told'[l] # <<>>

(* A listener whose removal had returned when the batch came to its end is   *)
(* not called in it any more, nor later.  There is one exception: when it    *)
(* was added and removed again since the batch before, it is told the info   *)
(* as the addition is applied, with the removal next in line.                *)
RemovedIsQuiet ==
    [][\A l \in quiet : Called(l) =>
          /\ pc = "commands"
          /\ [listener |-> l, wasAdded |-> FALSE] \in ToSet(Tail(inputListeners))]_vars

(* What mergeInputToBuffer() asserts, when a listener spools from a callback.*)
(* It holds while storing is on.  While it is off there need be no history,  *)
(* but there is deferred audio, if empty, for each channel of the batch.     *)
SpoolFits ==
    pc = "notify" /\ todo # <<>> /\ Head(todo) \in Spooling =>
        Len(deferredAudioInput) = Len(history)

InPlace(c) ==
    LET w == Window(history[c])
    IN  \A i \in DOMAIN w : w[i] \in {Filler, bufferClock - (Len(w) - i)}

(* Each sample in the history is the one its place and the playhead that     *)
(* goes with the history say, on every channel: none is lost, repeated or    *)
(* out of place, whether it was published at once, deferred or spooled.      *)
HistoryInPlace == \A c \in DOMAIN history : InPlace(c)

(* Audio that went by since the history was first published is in the        *)
(* history or deferred, on each channel.                                     *)
NothingForgotten ==
    pc \in {"idle", "open", "end"} /\ Publishes =>
        /\ bufferInfo.store => clock = bufferClock + numDeferred
        /\ \A c \in DOMAIN deferredAudioInput : Len(deferredAudioInput[c]) = numDeferred

(* A batch comes to its end and leaves no mutex locked, whatever the other   *)
(* threads do meanwhile.                                                     *)
BatchFinishes ==
    (pc = "end" \/ commandMutex # None) ~> (pc \in {"idle", "open"} /\ commandMutex = None)
=============================================================================
