-------------------------- MODULE RealtimeListeners --------------------------
(***************************************************************************)
(* The real-time listeners of a ParameterGroup                             *)
(* (src/infrastructure/parameters/ParameterSystem.h): a fixed array of     *)
(* slots, each a listener and a spin lock.  Threads add and remove         *)
(* listeners, spinning as they do by default, while others call the        *)
(* listeners that they find.  With spin = false a lock that is held makes  *)
(* the call go on to the next slot; that is left out.                      *)
(*                                                                         *)
(* Storing a listener and releasing the slot's lock are one step with      *)
(* getting that lock: whoever meets the lock held for those instructions   *)
(* behaves as if it came just before or just after them.  A caller holds   *)
(* the lock across steps.                                                  *)
(***************************************************************************)
EXTENDS Naturals

CONSTANTS Listeners,   \* each is added and removed by a thread of its own
          Callers,     \* the threads that change parameters
          noListener,  \* the null pointer
          noCaller,
          SlotCount    \* size of realtimeListeners (8)

ASSUME SlotAssumption ==
    /\ noListener \notin Listeners /\ noCaller \notin Callers
    /\ SlotCount \in Nat \ {0}

Slots == 1 .. SlotCount

VARIABLES
    listener, \* each slot's listener, or noListener
    locked,   \* the caller that holds each slot's lock, or noCaller
    rpc, rat, \* each registering thread's step, and the slot it looks at
    added,    \* the listeners whose last call of add or remove was an add
    crowded,  \* history: two threads were between the check and the store
    doubled,  \* history: a listener was stored in a second slot
    cat,      \* the slot that each caller looks at, 0 when at none
    calling   \* the listener that each caller calls, or noListener

slotVars == <<listener, locked, rpc, rat, added, crowded, doubled, cat,
              calling>>
calls == <<cat, calling>>
registrars == <<rpc, rat, added, crowded, doubled>>

SlotsInit ==
    /\ listener = [s \in Slots |-> noListener]
    /\ locked = [s \in Slots |-> noCaller]
    /\ rpc = [l \in Listeners |-> "idle"] /\ rat = [l \in Listeners |-> 1]
    /\ added = {} /\ crowded = FALSE /\ doubled = FALSE
    /\ cat = [c \in Callers |-> 0]
    /\ calling = [c \in Callers |-> noListener]

-----------------------------------------------------------------------------
(* addRTListener(l).                                                         *)

Returns(l) ==
    /\ rpc' = [rpc EXCEPT ![l] = "idle"]
    /\ rat' = [rat EXCEPT ![l] = 1]

(* Bound: no more adds when listeners got into each other's way.             *)
AddBegins(l) ==
    /\ rpc[l] = "idle"
    /\ ~crowded /\ ~doubled
    /\ rpc' = [rpc EXCEPT ![l] = "adding"]
    /\ UNCHANGED <<listener, locked, rat, added, crowded, doubled, calls>>

(* The slot holds the listener already, it holds another, or it is free and  *)
(* its lock is wanted.                                                       *)
AddFindsItself(l) ==
    /\ rpc[l] = "adding" /\ rat[l] \in Slots
    /\ listener[rat[l]] = l
    /\ Returns(l) /\ added' = added \cup {l}
    /\ UNCHANGED <<listener, locked, crowded, doubled, calls>>

AddPasses(l) ==
    /\ rpc[l] = "adding" /\ rat[l] \in Slots
    /\ listener[rat[l]] \notin {l, noListener}
    /\ rat' = [rat EXCEPT ![l] = @ + 1]
    /\ UNCHANGED <<listener, locked, rpc, added, crowded, doubled, calls>>

AddFindsFree(l) ==
    /\ rpc[l] = "adding" /\ rat[l] \in Slots
    /\ listener[rat[l]] = noListener
    /\ rpc' = [rpc EXCEPT ![l] = "storing"]
    /\ crowded' = (crowded \/ \E m \in Listeners \ {l} :
                                  rpc[m] = "storing" /\ rat[m] = rat[l])
    /\ UNCHANGED <<listener, locked, rat, added, doubled, calls>>

(* The listener is stored without another look at the slot.                  *)
AddStores(l) ==
    /\ rpc[l] = "storing"
    /\ locked[rat[l]] = noCaller
    /\ listener' = [listener EXCEPT ![rat[l]] = l]
    /\ doubled' = (doubled \/ \E s \in Slots \ {rat[l]} : listener[s] = l)
    /\ Returns(l) /\ added' = added \cup {l}
    /\ UNCHANGED <<locked, crowded, calls>>

(* Every slot is taken: false.                                               *)
AddFails(l) ==
    /\ rpc[l] = "adding" /\ rat[l] \notin Slots
    /\ Returns(l)
    /\ UNCHANGED <<listener, locked, added, crowded, doubled, calls>>

-----------------------------------------------------------------------------
(* removeRTListener(l).                                                      *)

RemoveBegins(l) ==
    /\ rpc[l] = "idle" /\ l \in added
    /\ rpc' = [rpc EXCEPT ![l] = "removing"]
    /\ UNCHANGED <<listener, locked, rat, added, crowded, doubled, calls>>

RemovePasses(l) ==
    /\ rpc[l] = "removing" /\ rat[l] \in Slots
    /\ listener[rat[l]] # l
    /\ rat' = [rat EXCEPT ![l] = @ + 1]
    /\ UNCHANGED <<listener, locked, rpc, added, crowded, doubled, calls>>

\* Mutant: the first listener that is found is taken out.
Mutant_RemoveFinds(l) ==
    /\ rpc[l] = "removing" /\ rat[l] \in Slots
    /\ listener[rat[l]] # noListener
    /\ rpc' = [rpc EXCEPT ![l] = "clearing"]
    /\ UNCHANGED <<listener, locked, rat, added, crowded, doubled, calls>>

RemoveFinds(l) ==
    /\ rpc[l] = "removing" /\ rat[l] \in Slots
    /\ listener[rat[l]] = l
    /\ rpc' = [rpc EXCEPT ![l] = "clearing"]
    /\ UNCHANGED <<listener, locked, rat, added, crowded, doubled, calls>>

\* Mutant: the slot is cleared without its lock.
Mutant_RemoveClears(l) ==
    /\ rpc[l] = "clearing"
    /\ listener' = [listener EXCEPT ![rat[l]] = noListener]
    /\ Returns(l) /\ added' = added \ {l}
    /\ UNCHANGED <<locked, crowded, doubled, calls>>

RemoveClears(l) ==
    /\ rpc[l] = "clearing"
    /\ locked[rat[l]] = noCaller
    /\ listener' = [listener EXCEPT ![rat[l]] = noListener]
    /\ Returns(l) /\ added' = added \ {l}
    /\ UNCHANGED <<locked, crowded, doubled, calls>>

(* It is in no slot: false.                                                  *)
RemoveFails(l) ==
    /\ rpc[l] = "removing" /\ rat[l] \notin Slots
    /\ Returns(l) /\ added' = added \ {l}
    /\ UNCHANGED <<listener, locked, crowded, doubled, calls>>

Registrar(l) ==
    \/ AddFindsItself(l) \/ AddPasses(l) \/ AddFindsFree(l) \/ AddStores(l)
    \/ AddFails(l) \/ RemovePasses(l) \/ RemoveFinds(l) \/ RemoveClears(l)
    \/ RemoveFails(l)

-----------------------------------------------------------------------------
(* callRTListenersFor(), by the caller c, which is at slot cat[c]; the next  *)
(* slot after the last ends it.                                              *)

NextSlot(c) == cat' = [cat EXCEPT ![c] = IF @ = SlotCount THEN 0 ELSE @ + 1]

(* An empty slot, or one whose lock somebody holds, is passed by.            *)
CallPasses(c) ==
    /\ cat[c] \in Slots
    /\ listener[cat[c]] = noListener \/ locked[cat[c]] \notin {c, noCaller}
    /\ NextSlot(c)
    /\ UNCHANGED <<listener, locked, registrars, calling>>

(* Between the first look at the slot and the lock the listener may have     *)
(* gone: it is looked up again under the lock.                               *)
CallLocks(c) ==
    /\ cat[c] \in Slots
    /\ listener[cat[c]] # noListener /\ locked[cat[c]] = noCaller
    /\ locked' = [locked EXCEPT ![cat[c]] = c]
    /\ calling' = [calling EXCEPT ![c] = listener[cat[c]]]
    /\ UNCHANGED <<listener, registrars, cat>>

(* parameterChangedRT() returns and the lock is given back.                  *)
CallReturns(c) ==
    /\ cat[c] \in Slots /\ locked[cat[c]] = c
    /\ locked' = [locked EXCEPT ![cat[c]] = noCaller]
    /\ calling' = [calling EXCEPT ![c] = noListener]
    /\ NextSlot(c)
    /\ UNCHANGED <<listener, registrars>>

CallMoves(c) == CallPasses(c) \/ CallLocks(c) \/ CallReturns(c)

-----------------------------------------------------------------------------
Quiet(l) ==
    /\ \A s \in Slots : listener[s] # l
    /\ \A c \in Callers : calling[c] # l

(* When remove returned, or add was not called yet, nobody calls the         *)
(* listener and nobody will: it may be destroyed.  So whatever happens at    *)
(* the same time, as long as no listener gets into a second slot.            *)
RemovedIsQuiet ==
    \A l \in Listeners : rpc[l] = "idle" /\ l \notin added => doubled \/ Quiet(l)

(* A listener that was added stays in exactly one slot until it is removed,  *)
(* and is called by one thread at a time, unless two threads were adding in  *)
(* the same slot at once, or one listener is added again.                    *)
AddedIsKept ==
    ~crowded /\ ~doubled => \A l \in added : rpc[l] = "idle" =>
        /\ \E s \in Slots : {t \in Slots : listener[t] = l} = {s}
        /\ \A c, d \in Callers : calling[c] = l /\ calling[d] = l => c = d
=============================================================================
