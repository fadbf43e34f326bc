---------------------------- MODULE ObjectSwapper ----------------------------
(***************************************************************************)
(* ConcurrentObjectSwapper (src/ConcurrentServices.h): a producer hands    *)
(* newer and newer objects to a real-time consumer without a lock.  There  *)
(* are two entries, of which one is current; the other one holds the       *)
(* object from before, which the producer may delete when the consumer     *)
(* has signaled that it uses the newer one.                                *)
(*                                                                         *)
(* A step is one access to a member that the other thread may touch, all   *)
(* of which are sequentially consistent atomics.  Objects are numbered in  *)
(* the order they are stored; 0 is the null pointer.                       *)
(***************************************************************************)
EXTENDS Naturals, FiniteSets

CONSTANTS MaxObjects,   \* bound: objects stored
          Overtaken     \* whether the producer stores a second object while a
                        \* call waits that began before the first was in place

ASSUME SwapperAssumption == MaxObjects \in Nat /\ Overtaken \in BOOLEAN

VARIABLES
    obj, flag,          \* of each entry
    current, old,       \* the entries
    stored,             \* objects stored so far
    deleted,            \* those that were deleted
    ppc,                \* where the producer is
    cpc, ce, signaling, \* where the consumer is, the entry it loaded, the call it makes
    result,             \* what it got last
    held                \* what it may use: what it got since it called getObject()

producer == <<current, old, stored, deleted, ppc>>
consumer == <<cpc, ce, signaling, result, held>>
vars == <<obj, flag, producer, consumer>>

Entry == {0, 1}

Init ==
    /\ obj = [e \in Entry |-> 0] /\ flag = [e \in Entry |-> FALSE]
    /\ current = 0 /\ old = 1
    /\ stored = 0 /\ deleted = {}
    /\ ppc = "idle"
    /\ cpc = "idle" /\ ce = 0 /\ signaling = FALSE /\ result = 0 /\ held = {}

-----------------------------------------------------------------------------
(* The producer: tryReplace(), which does nothing when the old entry is full *)

(* A call that found an entry empty, which another entry has replaced since. *)
(* Only the entry of the beginning can be left empty behind a call.          *)
Waiting == cpc = "content" /\ ce = old

\* Mutant: the old entry is replaced whatever is in it.
Mutant_TryReplace ==
    /\ ppc = "idle" /\ stored < MaxObjects
    /\ Overtaken \/ ~Waiting
    /\ obj' = [obj EXCEPT ![old] = stored + 1]
    /\ stored' = stored + 1
    /\ ppc' = "exchange"
    /\ UNCHANGED <<flag, current, old, deleted, consumer>>

TryReplace ==
    /\ ppc = "idle" /\ stored < MaxObjects
    /\ obj[old] = 0
    /\ Overtaken \/ ~Waiting
    /\ obj' = [obj EXCEPT ![old] = stored + 1]
    /\ stored' = stored + 1
    /\ ppc' = "exchange"
    /\ UNCHANGED <<flag, current, old, deleted, consumer>>

Exchange ==
    /\ ppc = "exchange"
    /\ current' = old /\ old' = current
    /\ ppc' = "idle"
    /\ UNCHANGED <<obj, flag, stored, deleted, consumer>>

(* tryRemoveOld(), which does nothing unless the current entry is signaled;  *)
(* then clearAndDelete() of the old entry.                                   *)
TryRemoveOld ==
    /\ ppc = "idle" /\ obj[old] # 0 /\ obj[current] # 0 /\ flag[current]
    /\ ppc' = "delete"
    /\ UNCHANGED <<obj, flag, current, old, stored, deleted, consumer>>

Delete ==
    /\ ppc = "delete"
    /\ deleted' = deleted \cup {obj[old]}
    /\ ppc' = "clear"
    /\ UNCHANGED <<obj, flag, current, old, stored, consumer>>

Clear ==
    /\ ppc = "clear"
    /\ obj' = [obj EXCEPT ![old] = 0]
    /\ ppc' = "unflag"
    /\ UNCHANGED <<flag, current, old, stored, deleted, consumer>>

Unflag ==
    /\ ppc = "unflag"
    /\ flag' = [flag EXCEPT ![old] = FALSE]
    /\ ppc' = "idle"
    /\ UNCHANGED <<obj, current, old, stored, deleted, consumer>>

-----------------------------------------------------------------------------
(* The consumer: getObject(), which begins a new stack frame of its, and     *)
(* getObjectWithoutSignaling().                                              *)

Call(signals) ==
    /\ cpc = "idle"
    /\ ce' = current /\ signaling' = signals
    /\ held' = IF signals THEN {} ELSE held
    /\ cpc' = "content"
    /\ UNCHANGED <<obj, flag, producer, result>>

HasContent ==
    /\ cpc = "content"
    /\ IF obj[ce] = 0 THEN cpc' = "idle" /\ result' = 0
       ELSE cpc' = (IF signaling THEN "signal" ELSE "load") /\ UNCHANGED result
    /\ UNCHANGED <<obj, flag, producer, ce, signaling, held>>

\* Mutant: the entry that is current by now is signaled.
Mutant_SignalInUse ==
    /\ cpc = "signal"
    /\ flag' = [flag EXCEPT ![current] = TRUE]
    /\ cpc' = "load"
    /\ UNCHANGED <<obj, producer, ce, signaling, result, held>>

\* Mutant: the consumer signals nothing.
Mutant_SignalNothing ==
    /\ cpc = "signal"
    /\ cpc' = "load"
    /\ UNCHANGED <<obj, flag, producer, ce, signaling, result, held>>

SignalInUse ==
    /\ cpc = "signal"
    /\ flag' = [flag EXCEPT ![ce] = TRUE]
    /\ cpc' = "load"
    /\ UNCHANGED <<obj, producer, ce, signaling, result, held>>

Load ==
    /\ cpc = "load"
    /\ result' = obj[ce] /\ held' = held \cup {obj[ce]}
    /\ cpc' = "idle"
    /\ UNCHANGED <<obj, flag, producer, ce, signaling>>

-----------------------------------------------------------------------------
(* ~ConcurrentObjectSwapper(), when nobody uses it any more.                 *)
Destroy ==
    /\ ppc = "idle" /\ cpc = "idle"
    /\ deleted' = deleted \cup ({obj[e] : e \in Entry} \ {0})
    /\ obj' = [e \in Entry |-> 0] /\ flag' = [e \in Entry |-> FALSE]
    /\ ppc' = "dead" /\ cpc' = "dead" /\ held' = {}
    /\ UNCHANGED <<current, old, stored, ce, signaling, result>>

Dead == ppc = "dead" /\ UNCHANGED vars

Producer == TryReplace \/ Exchange \/ TryRemoveOld \/ Delete \/ Clear \/ Unflag
Consumer == Call(TRUE) \/ HasContent \/ SignalInUse \/ Load

Next == Producer \/ Consumer \/ Call(FALSE) \/ Destroy \/ Dead

(***************************************************************************)
(* The consumer is a real-time callback that comes again and again, and    *)
(* the producer tries until it succeeds.                                   *)
(***************************************************************************)
Spec == Init /\ [][Next]_vars /\ WF_vars(Producer) /\ WF_vars(Consumer) /\ SF_vars(Call(TRUE))
-----------------------------------------------------------------------------
(* The types; the two entries are never the same, and only objects that were *)
(* stored are deleted or in use.                                             *)
TypeOK ==
    /\ obj \in [Entry -> 0 .. MaxObjects] /\ flag \in [Entry -> BOOLEAN]
    /\ current \in Entry /\ old \in Entry /\ old # current
    /\ stored \in 0 .. MaxObjects /\ deleted \subseteq 1 .. stored
    /\ ppc \in {"idle", "exchange", "delete", "clear", "unflag", "dead"}
    /\ cpc \in {"idle", "content", "signal", "load", "dead"}
    /\ ce \in Entry /\ signaling \in BOOLEAN
    /\ result \in 0 .. stored /\ held \subseteq 0 .. stored

(* What getObject() returned, and what getObjectWithoutSignaling() returned  *)
(* since, is not deleted before getObject() is called again.  If Overtaken,  *)
(* it may be: a call that waited signals an entry before it is current.)     *)
HeldIsAlive == held \cap (deleted \cup {0}) = {}

(* An object is in an entry until it is deleted: none is leaked, and none is *)
(* deleted twice.                                                            *)
NothingLeaks ==
    ppc # "clear" => 1 .. stored \ deleted = {obj[e] : e \in Entry} \ {0}

(* The check of clearAndDelete(): an entry without an object is not          *)
(* signaled.                                                                 *)
EmptyIsUnsignaled ==
    \A e \in Entry : obj[e] = 0 /\ ppc # "unflag" => ~flag[e]

Newest == IF ppc = "dead" THEN stored ELSE obj[current]
Answer == IF cpc \in {"idle", "dead"} THEN result ELSE obj[ce]
Register == INSTANCE ObjectRegister WITH newest <- Newest, answer <- Answer

(* The consumer reads the newest object, as of some time during its call.    *)
ImplementsRegister == Register!Spec

(* The newest object gets through, as long as there is a consumer.           *)
NewestGetsThrough == <>(ppc = "dead" \/ result = MaxObjects)
=============================================================================
