---------------------------- MODULE BlockingQueue ----------------------------
(***************************************************************************)
(* CBlockingLockFreeQueueMovable (src/lib/BlockingLockFreeQueue.h): a      *)
(* wait-free single-producer single-consumer queue whose consumer sleeps   *)
(* on a semaphore and which the consumer can replace by a larger one while *)
(* the producer is in the middle of a push.                                *)
(*                                                                         *)
(* One action per access to shared memory.  The moodycamel queues and the  *)
(* semaphore are external: a queue is a bounded sequence whose operations  *)
(* are atomic, the semaphore a counter.  Queue objects are named by the    *)
(* size they were created with, which grow() makes strictly increase.      *)
(* Elements are the numbers 1, 2, ... in the order they are accepted, so   *)
(* that loss, duplication and reordering are visible.                      *)
(***************************************************************************)
EXTENDS Naturals, Sequences

CONSTANTS InitialSize,        \* constructor argument initialSize
          MaxElements,        \* constructor argument maxSize
          MinimumSize,        \* grow() argument minimumSize
          RequirementPercent, \* grow() argument growthRequirement, times 100
          GrowthFactor,       \* grow() argument growthFactor
          MaxPushes           \* bound: the producer is accepted this often

ASSUME SizeAssumption ==
    /\ InitialSize \in Nat \ {0}
    /\ MaxElements \in Nat
    /\ MinimumSize \in Nat
    /\ RequirementPercent \in Nat
    /\ GrowthFactor \in Nat
    /\ MaxPushes \in Nat

null == 0
Queues == {InitialSize} \cup (InitialSize .. MaxElements)

VARIABLES
    queue,        \* std::atomic pointer to the queue in use
    oldQueue,     \* the queue being drained after a grow, or null
    buf,          \* contents of every queue object
    live,         \* the queue objects not yet deleted
    currentNumElements,
    enqueuedDataAllocations,
    tickets,      \* value of the semaphore
    released,     \* releaseConsumer() has been called
    ppc, pqueue,  \* the producer's step and the queue pointer it loaded
    accepted,     \* number of pushes that returned or will return true
    cpc, newSize, \* the consumer's step and its local in grow()
    data,         \* the consumer's popped element
    popped        \* number of pops that returned or will return true

shared == <<queue, oldQueue, buf, live, currentNumElements,
            enqueuedDataAllocations, tickets, released>>
producer == <<ppc, pqueue, accepted>>
consumer == <<cpc, newSize, data, popped>>
vars == <<shared, producer, consumer>>

(***************************************************************************)
(* The moodycamel block of a queue made for n elements holds               *)
(* ceilToPow2(n + 1) - 1 of them.                                          *)
(***************************************************************************)
Capacity(n) ==
    LET k == CHOOSE i \in 0 .. n : 2 ^ i <= n /\ n < 2 ^ (i + 1)
    IN  2 ^ (k + 1) - 1

(* No queue is smaller than the first.                                       *)
ASSUME CapacityAssumption ==
    \A q \in Queues : Capacity(q) \in Nat /\ Capacity(InitialSize) <= Capacity(q)

Contents(q) == IF q = null THEN <<>> ELSE buf[q]
InFlight == Contents(oldQueue) \o Contents(queue)

Larger(m, n) == IF m > n THEN m ELSE n
Smaller(m, n) == IF m < n THEN m ELSE n

Init ==
    /\ queue = InitialSize
    /\ oldQueue = null
    /\ buf = [q \in Queues |-> <<>>]
    /\ live = {InitialSize}
    /\ currentNumElements = InitialSize
    /\ enqueuedDataAllocations = FALSE
    /\ tickets = 0
    /\ released = FALSE
    /\ ppc = "idle" /\ pqueue = InitialSize /\ accepted = 0
    /\ cpc = "idle" /\ newSize = InitialSize /\ data = 0 /\ popped = 0

-----------------------------------------------------------------------------
(* pushElement(), by the producer. *)

PushLoad ==
    /\ ppc = "idle" /\ ~released
    /\ accepted < MaxPushes
    /\ pqueue' = queue
    /\ ppc' = "loaded"
    /\ UNCHANGED <<shared, accepted, consumer>>

PushEnqueue ==
    /\ ppc = "loaded"
    /\ Len(buf[pqueue]) < Capacity(pqueue)
    /\ buf' = [buf EXCEPT ![pqueue] = Append(@, accepted + 1)]
    /\ accepted' = accepted + 1
    /\ ppc' = "enqueued"
    /\ UNCHANGED <<queue, oldQueue, live, currentNumElements,
                   enqueuedDataAllocations, tickets, released, pqueue, consumer>>

\* Mutant: only the push into an empty queue signals.
Mutant_PushSignal ==
    /\ ppc = "enqueued"
    /\ tickets' = IF Len(buf[pqueue]) <= 1 THEN tickets + 1 ELSE tickets
    /\ ppc' = "idle"
    /\ UNCHANGED <<queue, oldQueue, buf, live, currentNumElements,
                   enqueuedDataAllocations, released, pqueue, accepted, consumer>>

PushSignal ==
    /\ ppc = "enqueued"
    /\ tickets' = tickets + 1
    /\ ppc' = "idle"
    /\ UNCHANGED <<queue, oldQueue, buf, live, currentNumElements,
                   enqueuedDataAllocations, released, pqueue, accepted, consumer>>

PushFull ==
    /\ ppc = "loaded"
    /\ Len(buf[pqueue]) >= Capacity(pqueue)
    /\ ppc' = "full"
    /\ UNCHANGED <<shared, pqueue, accepted, consumer>>

PushFail ==
    /\ ppc = "full"
    /\ enqueuedDataAllocations' = TRUE
    /\ ppc' = "idle"
    /\ UNCHANGED <<queue, oldQueue, buf, live, currentNumElements, tickets,
                   released, pqueue, accepted, consumer>>

\* Mutant: the release does not signal a semaphore that is already raised.
Mutant_ReleaseConsumer ==
    /\ ppc = "idle" /\ ~released
    /\ released' = TRUE
    /\ tickets' = IF tickets = 0 THEN 1 ELSE tickets
    /\ UNCHANGED <<queue, oldQueue, buf, live, currentNumElements,
                   enqueuedDataAllocations, producer, consumer>>

(* releaseConsumer(), as the stream calls it: once, after the last push. *)
ReleaseConsumer ==
    /\ ppc = "idle" /\ ~released
    /\ released' = TRUE
    /\ tickets' = tickets + 1
    /\ UNCHANGED <<queue, oldQueue, buf, live, currentNumElements,
                   enqueuedDataAllocations, producer, consumer>>

-----------------------------------------------------------------------------
(* popElementBlocking(), by the consumer. *)

\* Mutant: the new queue is tried before the old one.
Mutant_PopWait ==
    /\ cpc = "idle"
    /\ tickets > 0
    /\ tickets' = tickets - 1
    /\ cpc' = "tryNew"
    /\ UNCHANGED <<queue, oldQueue, buf, live, currentNumElements,
                   enqueuedDataAllocations, released, producer,
                   newSize, data, popped>>

PopWait ==
    /\ cpc = "idle"
    /\ tickets > 0
    /\ tickets' = tickets - 1
    /\ cpc' = IF oldQueue # null THEN "tryOld" ELSE "tryNew"
    /\ UNCHANGED <<queue, oldQueue, buf, live, currentNumElements,
                   enqueuedDataAllocations, released, producer,
                   newSize, data, popped>>

Dequeue(q) ==
    /\ buf[q] # <<>>
    /\ data' = Head(buf[q])
    /\ buf' = [buf EXCEPT ![q] = Tail(@)]
    /\ popped' = popped + 1
    /\ UNCHANGED <<queue, oldQueue, live, currentNumElements,
                   enqueuedDataAllocations, tickets, released, producer, newSize>>

PopOld ==
    /\ cpc = "tryOld"
    /\ Dequeue(oldQueue)
    /\ cpc' = "idle"

PopOldEmpty ==
    /\ cpc = "tryOld"
    /\ buf[oldQueue] = <<>>
    /\ cpc' = "tryNew"
    /\ UNCHANGED <<shared, producer, newSize, data, popped>>

PopNew ==
    /\ cpc = "tryNew"
    /\ Dequeue(queue)
    /\ cpc' = IF oldQueue # null THEN "delete" ELSE "idle"

PopDelete ==
    /\ cpc = "delete"
    /\ live' = live \ {oldQueue}
    /\ oldQueue' = null
    /\ cpc' = "idle"
    /\ UNCHANGED <<queue, buf, currentNumElements, enqueuedDataAllocations,
                   tickets, released, producer, newSize, data, popped>>

(* The pop returns false, upon which the consumer thread quits. *)
PopFalse ==
    /\ cpc = "tryNew"
    /\ buf[queue] = <<>>
    /\ cpc' = "quit"
    /\ UNCHANGED <<shared, producer, newSize, data, popped>>

-----------------------------------------------------------------------------
(* grow(MinimumSize, true, RequirementPercent / 100, GrowthFactor), by the   *)
(* consumer between two pops.  The reads of the fill level and of the flag   *)
(* are one step: both can only rise meanwhile, so reading them one after     *)
(* the other decides nothing that reading them together does not.            *)
(* enqueuedQueueAllocations is never set and left out.                       *)

WantsLarger ==
    \/ 100 * Len(buf[queue]) > currentNumElements * RequirementPercent
    \/ enqueuedDataAllocations

TargetSize ==
    LET wanted == IF WantsLarger THEN GrowthFactor * currentNumElements
                                 ELSE currentNumElements
    IN  Smaller(MaxElements, Larger(wanted, MinimumSize))

GrowDecide ==
    /\ cpc = "idle"
    /\ oldQueue = null
    /\ TargetSize > currentNumElements
    /\ newSize' = TargetSize
    /\ cpc' = "exchange"
    /\ UNCHANGED <<shared, producer, data, popped>>

\* Mutant: grow() deletes the queue it replaced.
Mutant_GrowExchange ==
    /\ cpc = "exchange"
    /\ queue' = newSize
    /\ live' = {newSize}
    /\ cpc' = "grown"
    /\ UNCHANGED <<oldQueue, buf, currentNumElements, enqueuedDataAllocations,
                   tickets, released, producer, newSize, data, popped>>

GrowExchange ==
    /\ cpc = "exchange"
    /\ oldQueue' = queue
    /\ queue' = newSize
    /\ live' = live \cup {newSize}
    /\ cpc' = "grown"
    /\ UNCHANGED <<buf, currentNumElements, enqueuedDataAllocations, tickets,
                   released, producer, newSize, data, popped>>

GrowReset ==
    /\ cpc = "grown"
    /\ enqueuedDataAllocations' = FALSE
    /\ currentNumElements' = newSize
    /\ cpc' = "idle"
    /\ UNCHANGED <<queue, oldQueue, buf, live, tickets, released, producer,
                   newSize, data, popped>>

-----------------------------------------------------------------------------
Push == PushLoad \/ PushEnqueue \/ PushSignal \/ PushFull \/ PushFail
Pop == PopWait \/ PopOld \/ PopOldEmpty \/ PopNew \/ PopDelete \/ PopFalse
Grow == GrowDecide \/ GrowExchange \/ GrowReset
Stopped == cpc = "quit" /\ UNCHANGED vars

Next == Push \/ ReleaseConsumer \/ Pop \/ Grow \/ Stopped

Safety == Init /\ [][Next]_vars

(***************************************************************************)
(* A push or grow() that has begun runs to its end, and the consumer keeps *)
(* popping; nobody is obliged to push, to grow or to release.              *)
(***************************************************************************)
Spec == /\ Safety
        /\ WF_vars(PushEnqueue \/ PushSignal \/ PushFull \/ PushFail)
        /\ WF_vars(Pop)
        /\ WF_vars(GrowExchange \/ GrowReset)
-----------------------------------------------------------------------------
(* The types of the state. *)
TypeOK ==
    /\ queue \in Queues
    /\ oldQueue \in Queues \cup {null}
    /\ buf \in [Queues -> Seq(1 .. MaxPushes)]
    /\ live \in SUBSET Queues
    /\ currentNumElements \in Queues
    /\ enqueuedDataAllocations \in BOOLEAN
    /\ tickets \in Nat
    /\ released \in BOOLEAN
    /\ ppc \in {"idle", "loaded", "enqueued", "full"}
    /\ pqueue \in Queues
    /\ accepted \in 0 .. MaxPushes
    /\ cpc \in {"idle", "tryOld", "tryNew", "delete", "exchange", "grown", "quit"}
    /\ newSize \in Queues
    /\ data \in 0 .. MaxPushes
    /\ popped \in 0 .. MaxPushes

(* The queues between them hold exactly the accepted elements that have not  *)
(* been popped, the old queue's before the new one's: grow() loses and       *)
(* reorders nothing, whenever it runs (doc of grow()).                       *)
NothingLost ==
    /\ Len(InFlight) = accepted - popped
    /\ \A i \in 1 .. Len(InFlight) : InFlight[i] = popped + i

(* A queue is deleted only when neither side can touch it again: the "we can *)
(* conclusively prove" comment in popElementBlocking().                      *)
DeletedNeverUsed ==
    /\ queue \in live
    /\ oldQueue \in live \cup {null}
    /\ ppc = "loaded" => pqueue \in live

Holding == IF cpc \in {"tryOld", "tryNew"} THEN 1 ELSE 0
Unsignalled == IF ppc = "enqueued" THEN 1 ELSE 0
ReleaseTicket == IF released /\ cpc # "quit" THEN 1 ELSE 0

(* Every unit of the semaphore, or taken from it by a pop in progress, is    *)
(* covered by an element that is there to be popped, but for the one that    *)
(* releaseConsumer() adds.                                                   *)
TicketsCovered ==
    tickets + Holding + Unsignalled = Len(InFlight) + ReleaseTicket

(* popElementBlocking() returns false only when the consumer was released    *)
(* and has received everything that was accepted.                            *)
FalseOnlyWhenDrained ==
    cpc = "quit" => released /\ popped = accepted

Fifo == INSTANCE FifoQueue WITH
            Element <- 0 .. MaxPushes, chan <- InFlight, out <- data,
            closed <- released, finished <- (cpc = "quit")

(* The queue implements the abstract FIFO: elements arrive once each and in  *)
(* order, no wake-up is lost while some are waiting, and a released consumer *)
(* quits in the end.                                                         *)
ImplementsFifo == Fifo!Spec
=============================================================================
