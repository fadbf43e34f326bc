------------------------------ MODULE LifoStream ------------------------------
(***************************************************************************)
(* CLIFOStream (src/lib/CLIFOStream.h), the circular buffer in which the   *)
(* audio stream keeps its history, with its views and writers.  A Writer   *)
(* works on a copy of the cursor and gives it back when it is released.    *)
(*                                                                         *)
(* Samples are the numbers 1, 2, ... in the order they are produced.       *)
(* Memory is the stream's own: setMemoryBuffer() has no caller and is left *)
(* out.                                                                    *)
(***************************************************************************)
EXTENDS CircularBuffer

CONSTANTS MaxCapacity,   \* bound: largest capacity asked for
          MaxProduced,   \* bound: samples produced
          MaxBlock       \* bound: samples per call of copyIntoHead

ASSUME LifoAssumption ==
    /\ MaxCapacity \in Nat /\ MaxProduced \in Nat /\ MaxBlock \in Nat
    /\ Garbage \in Nat \ (0 .. MaxProduced)

VARIABLES
    stream,                \* memory, size and cursor
    hasReader, hasWriter,
    readers,               \* number of ProxyViews that exist
    writers,               \* the cursors of the Writers that exist
    produced               \* samples produced so far

access == <<hasReader, hasWriter, readers, writers>>
lifoVars == <<stream, access, produced>>

LifoInit ==
    /\ stream = NewStream
    /\ hasReader = FALSE /\ hasWriter = FALSE
    /\ readers = 0 /\ writers = <<>>
    /\ produced = 0

(* Views and writers.  Each constructor throws when the other kind is noted  *)
(* to exist.                                                                 *)

CreateProxyView ==
    /\ ~hasWriter
    /\ hasReader' = TRUE
    /\ readers' = readers + 1
    /\ UNCHANGED <<stream, hasWriter, writers, produced>>

ReleaseReader ==
    /\ readers > 0
    /\ readers' = readers - 1
    /\ hasReader' = FALSE
    /\ UNCHANGED <<stream, hasWriter, writers, produced>>

CreateWriter ==
    /\ ~hasReader
    /\ hasWriter' = TRUE
    /\ writers' = Append(writers, stream.cursor)
    /\ UNCHANGED <<stream, hasReader, readers, produced>>

ReleaseWriter ==
    /\ writers # <<>> /\ hasWriter
    /\ hasWriter' = FALSE
    /\ stream' = [stream EXCEPT !.cursor = Head(writers)]
    /\ writers' = Tail(writers)
    /\ UNCHANGED <<hasReader, readers, produced>>

(* The stream as the first writer sees it, or as it is.                      *)
Seen == IF writers = <<>> THEN stream ELSE [stream EXCEPT !.cursor = Head(writers)]

WriterDoes(result) ==
    /\ writers # <<>>
    /\ stream' = [stream EXCEPT !.memory = result.memory]
    /\ writers' = <<result.cursor>> \o Tail(writers)
    /\ UNCHANGED <<hasReader, hasWriter, readers>>

WriteBlock ==
    \E n \in 1 .. Least(MaxBlock, MaxProduced - produced) :
        /\ WriterDoes(CopyIntoHead(Seen, [i \in 1 .. n |-> produced + i]))
        /\ produced' = produced + n

WriteSample ==
    /\ stream.size > 0
    /\ produced < MaxProduced
    /\ WriterDoes(SetHeadAndAdvance(Seen, produced + 1))
    /\ produced' = produced + 1

(* Every function that changes the size throws while the stream is accessed. *)
Idle == ~hasReader /\ ~hasWriter

Resize ==
    /\ Idle
    /\ \E c \in 0 .. MaxCapacity : \E n \in 0 .. c :
          stream' = SetStorageRequirements(stream, n, c, TRUE, Filler)
    /\ UNCHANGED <<access, produced>>

(* The stream as its owner uses it, under a lock: one writer or one view.    *)
LifoNext ==
    \/ readers = 0 /\ CreateProxyView
    \/ ReleaseReader
    \/ writers = <<>> /\ CreateWriter
    \/ ReleaseWriter
    \/ WriteBlock
    \/ WriteSample
    \/ Resize

LifoSpec == LifoInit /\ [][LifoNext]_lifoVars
-----------------------------------------------------------------------------
(* However the stream is read, by index, by the runs of an iterator or by    *)
(* copyFromHead(), each sample comes once and the oldest first; more than    *)
(* the size come round again.                                                *)
ReadsAgree ==
    /\ Run(stream, 0) \o Run(stream, 1) = Window(stream)
    /\ \A n \in 1 .. 2 * stream.size :
          CopyFromHead(stream, n) =
              [i \in 1 .. n |-> Window(stream)[1 + ((i - 1) % stream.size)]]

History == INSTANCE SlidingWindow WITH
               Sample <- 1 .. MaxProduced, window <- Window(Seen)

(* The stream is a window over the last samples, and remains one through     *)
(* every wrap around and every resize (doc of configureNewSize()).           *)
IsSlidingWindow ==
    [][IF stream'.size # stream.size
       THEN History!Resize(stream'.size)
       ELSE History!Record([i \in 1 .. produced' - produced |-> produced + i])]_lifoVars
=============================================================================
