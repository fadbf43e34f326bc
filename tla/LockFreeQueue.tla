---------------------------- MODULE LockFreeQueue ----------------------------
(***************************************************************************)
(* CLockFreeQueue (src/lib/LockFreeQueue.h): the queue of BlockingQueue    *)
(* without the semaphore.  push and grow are the same code, and so is the  *)
(* pop but for its wait; popElement() returns false on an empty queue and  *)
(* the consumer polls.  The actions of BlockingQueue are reused; its       *)
(* semaphore stays at 0 and nobody releases the consumer.                  *)
(***************************************************************************)
EXTENDS BlockingQueue

(* A successful pushElement() returns without signalling anybody.            *)
PushReturn ==
    /\ ppc = "enqueued"
    /\ ppc' = "idle"
    /\ UNCHANGED <<shared, pqueue, accepted, consumer>>

(* popElement(): the consumer does not wait for an element.                  *)
PollBegin ==
    /\ cpc = "idle"
    /\ cpc' = IF oldQueue # null THEN "tryOld" ELSE "tryNew"
    /\ UNCHANGED <<shared, producer, newSize, data, popped>>

(* Nothing in either queue, which is no reason to quit.                      *)
PollFalse ==
    /\ cpc = "tryNew"
    /\ buf[queue] = <<>>
    /\ cpc' = "idle"
    /\ UNCHANGED <<shared, producer, newSize, data, popped>>

PollNext ==
    \/ PushLoad \/ PushEnqueue \/ PushReturn \/ PushFull \/ PushFail
    \/ PollBegin \/ PopOld \/ PopOldEmpty \/ PopNew \/ PopDelete \/ PollFalse
    \/ GrowDecide \/ GrowExchange \/ GrowReset

PollSpec == Init /\ [][PollNext]_vars
-----------------------------------------------------------------------------
(* "This will NOT delete any enqueued elements", says the doc of grow().     *)
(* Without a semaphore unit per element the consumer may find the old queue  *)
(* empty just before a push that had loaded it puts an element there.        *)
NothingDeleted == Len(InFlight) = accepted - popped
=============================================================================
