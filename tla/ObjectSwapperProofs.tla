------------------------- MODULE ObjectSwapperProofs -------------------------
(***************************************************************************)
(* Theorems about the object swapper, for any number of objects, when no   *)
(* second object is stored during a call that began before the first was   *)
(* in place (without which they fail, see the run object_swapper_overtaken)*)
(*                                                                         *)
(* The argument: once the current entry is signaled, the consumer is not   *)
(* inside a call that loaded the other entry, and holds nothing that was   *)
(* there (Signals).  That is so because an entry becomes current without   *)
(* a signal (Unused), and a call that signals holds nothing (InCall).      *)
(***************************************************************************)
EXTENDS ObjectSwapper, TLAPS

Busy == cpc \in {"content", "signal", "load"}

(* The entries hold the two newest objects that were not deleted.            *)
Contents ==
    /\ ppc = "exchange" => obj[old] = stored /\ obj[current] < stored
    /\ ppc \notin {"exchange", "dead"} => obj[current] = stored /\ (obj[old] < stored \/ obj[old] = 0)
    /\ ppc \in {"delete", "clear"} => obj[old] # 0
    /\ ppc \in {"unflag", "dead"} => obj[old] = 0
    /\ ppc = "dead" => obj[current] = 0

Deletion ==
    /\ \A e \in Entry : obj[e] \in deleted => ppc = "clear" /\ e = old
    /\ ppc \in {"delete", "clear", "unflag"} => flag[current] /\ obj[current] # 0
    /\ ppc = "clear" => obj[old] \in deleted

(* Once signaled, the current entry is the only one the consumer uses.       *)
Signals ==
    flag[current] => held \subseteq {obj[current]} /\ (Busy => ce = current)

(* What is to become current is neither signaled nor in use.                 *)
Unused ==
    /\ EmptyIsUnsignaled
    /\ ppc = "exchange" => ~flag[old] /\ (Busy => ce = current)

InCall ==
    /\ cpc \in {"signal", "load"} => obj[ce] # 0
    /\ Busy /\ signaling => held = {}
    /\ cpc = "signal" => signaling
    /\ (ppc = "dead") = (cpc = "dead")

Holds == \A o \in held : o # 0 /\ (o = obj[0] \/ o = obj[1])

(* An object that is not deleted is in an entry.                             *)
Kept == \A o \in 1 .. stored : o \notin deleted => o = obj[0] \/ o = obj[1]

IInv ==
    /\ TypeOK /\ Contents /\ Deletion /\ Signals /\ Unused /\ InCall /\ Holds
    /\ Kept

(* What an entry holds was stored.                                           *)
LEMMA Bounded ==
    ASSUME SwapperAssumption, IInv
    PROVE  \A e \in Entry : obj[e] \in 0 .. stored
<1>1. obj[old] \in 0 .. stored /\ obj[current] \in 0 .. stored
  BY DEF SwapperAssumption, IInv, TypeOK, Contents
<1>2. \A e \in Entry : e = old \/ e = current
  BY DEF IInv, TypeOK, Entry
<1> QED
  BY <1>1, <1>2

(* A new swapper satisfies the inductive invariant.                          *)
LEMMA InitIInv == ASSUME SwapperAssumption, Init PROVE IInv
<1>1. TypeOK
  <2>1. obj \in [Entry -> 0 .. MaxObjects] /\ flag \in [Entry -> BOOLEAN]
    BY DEF SwapperAssumption, Init, Entry
  <2>2. stored \in 0 .. MaxObjects /\ deleted \subseteq 1 .. stored /\ held \subseteq 0 .. stored
    BY DEF SwapperAssumption, Init
  <2>3. current \in Entry /\ old \in Entry /\ old # current /\ ce \in Entry
    BY DEF Init, Entry
  <2>4. signaling \in BOOLEAN
    BY Zenon DEF Init
  <2>5. result \in 0 .. stored
    BY DEF Init
  <2> QED
    BY <2>1, <2>2, <2>3, <2>4, <2>5 DEF Init, TypeOK
<1>2. Contents /\ Deletion /\ Signals /\ Unused
  BY DEF Init, Contents, Deletion, Signals, Unused, EmptyIsUnsignaled, Busy, Entry
<1>3. InCall /\ Holds /\ Kept
  BY DEF Init, InCall, Busy, Holds, Kept
<1> QED
  BY <1>1, <1>2, <1>3 DEF IInv

(* The steps, each with first the parts of the invariant it cannot disturb.  *)
LEMMA TryReplaceKeeps ==
    ASSUME SwapperAssumption, ~Overtaken, IInv, TryReplace
    PROVE  IInv'
<1>1. (TypeOK /\ InCall /\ Holds)'
  BY DEF IInv, TypeOK, Entry, InCall, Busy, Holds, TryReplace, consumer
<1>2. Contents'
  BY DEF IInv, Contents, TypeOK, Entry, TryReplace, consumer
<1>3. Deletion'
  BY DEF IInv, Deletion, Entry, TypeOK, TryReplace, consumer
<1>4. Signals'
  BY DEF IInv, Signals, Busy, TypeOK, Entry, TryReplace, consumer
<1>5. Unused'
  BY DEF IInv, Unused, EmptyIsUnsignaled, Busy, Entry, TypeOK, InCall, Waiting, TryReplace, consumer
<1>6. Kept'
  BY DEF IInv, Kept, TypeOK, Entry, TryReplace, consumer
<1> QED
  BY <1>1, <1>2, <1>3, <1>4, <1>5, <1>6 DEF IInv

(* The entry that becomes current is unsignaled and not in use.              *)
LEMMA ExchangeKeeps ==
    ASSUME SwapperAssumption, ~Overtaken, IInv, Exchange
    PROVE  IInv'
<1>1. (TypeOK /\ Contents /\ Deletion /\ Unused /\ InCall /\ Holds /\ Kept)'
  BY DEF IInv, TypeOK, Entry, Contents, Deletion, Unused, EmptyIsUnsignaled, Busy, InCall, Holds, Kept, Exchange, consumer
<1>2. Signals'
  BY DEF IInv, Signals, Busy, TypeOK, Entry, Unused, EmptyIsUnsignaled, Exchange, consumer
<1> QED
  BY <1>1, <1>2 DEF IInv

(* Deciding on a deletion changes no entry.                                  *)
LEMMA TryRemoveOldKeeps ==
    ASSUME SwapperAssumption, ~Overtaken, IInv, TryRemoveOld
    PROVE  IInv'
<1>1. (TypeOK /\ Contents /\ Deletion /\ Signals /\ Unused /\ InCall /\ Holds /\ Kept)'
  BY DEF IInv, TypeOK, Entry, Contents, Deletion, Signals, Busy, Unused, EmptyIsUnsignaled, InCall, Holds, Kept, TryRemoveOld, consumer
<1> QED
  BY <1>1 DEF IInv

(* The object deleted is not held, since the current entry is signaled.      *)
LEMMA DeleteKeeps ==
    ASSUME SwapperAssumption, ~Overtaken, IInv, Delete
    PROVE  IInv'
<1>1. (Contents /\ Signals /\ Unused /\ InCall /\ Holds /\ Kept)'
  BY DEF IInv, Contents, Signals, Busy, Unused, EmptyIsUnsignaled, Entry, InCall, Holds, Kept, Delete, consumer
<1>2. TypeOK'
  <2>1. obj[old] \in 1 .. stored
    BY Bounded DEF IInv, TypeOK, Contents, Delete
  <2> QED
    BY <2>1 DEF IInv, TypeOK, Delete, consumer
<1>3. Deletion'
  BY DEF IInv, Deletion, Entry, TypeOK, Contents, Delete, consumer
<1> QED
  BY <1>1, <1>2, <1>3 DEF IInv

(* The pointer to a deleted object goes.                                     *)
LEMMA ClearKeeps ==
    ASSUME SwapperAssumption, ~Overtaken, IInv, Clear
    PROVE  IInv'
<1>1. (TypeOK /\ Unused)'
  BY DEF IInv, TypeOK, Entry, Unused, EmptyIsUnsignaled, Busy, Clear, consumer
<1>2. Contents'
  BY DEF IInv, Contents, TypeOK, Entry, Clear, consumer
<1>3. Deletion'
  BY DEF IInv, Deletion, Entry, TypeOK, Clear, consumer
<1>4. Signals'
  BY DEF IInv, Signals, Busy, TypeOK, Entry, Clear, consumer
<1>5. InCall'
  BY DEF IInv, InCall, Busy, TypeOK, Entry, Deletion, Signals, Clear, consumer
<1>6. Holds'
  BY DEF IInv, Holds, TypeOK, Entry, Deletion, Signals, Busy, Clear, consumer
<1>7. Kept'
  BY DEF IInv, Kept, TypeOK, Entry, Deletion, Clear, consumer
<1> QED
  BY <1>1, <1>2, <1>3, <1>4, <1>5, <1>6, <1>7 DEF IInv

(* The entry that was cleared loses its signal.                              *)
LEMMA UnflagKeeps ==
    ASSUME SwapperAssumption, ~Overtaken, IInv, Unflag
    PROVE  IInv'
<1>1. (TypeOK /\ Contents /\ Deletion /\ Signals /\ InCall /\ Holds /\ Kept)'
  BY DEF IInv, TypeOK, Entry, Contents, Deletion, Signals, Busy, InCall, Holds, Kept, Unflag, consumer
<1>2. Unused'
  BY DEF IInv, Unused, EmptyIsUnsignaled, Busy, Entry, TypeOK, Deletion, Unflag, consumer
<1> QED
  BY <1>1, <1>2 DEF IInv

(* A call loads the current entry, and a signaling one holds nothing.        *)
LEMMA CallKeeps ==
    ASSUME SwapperAssumption, ~Overtaken, IInv, NEW signals \in BOOLEAN, Call(signals)
    PROVE  IInv'
<1>1. (TypeOK /\ Contents /\ Deletion /\ Signals /\ Unused /\ InCall /\ Holds /\ Kept)'
  BY DEF IInv, TypeOK, Entry, Contents, Deletion, Signals, Busy, Unused, EmptyIsUnsignaled, InCall, Holds, Kept, Call, producer
<1> QED
  BY <1>1 DEF IInv

(* The entry loaded has an object.                                           *)
LEMMA HasContentKeeps ==
    ASSUME SwapperAssumption, ~Overtaken, IInv, HasContent
    PROVE  IInv'
<1>1. (TypeOK /\ Contents /\ Deletion /\ Signals /\ Unused /\ InCall /\ Holds /\ Kept)'
  BY DEF IInv, TypeOK, Entry, Contents, Deletion, Signals, Busy, Unused, EmptyIsUnsignaled, InCall, Holds, Kept, HasContent, producer
<1> QED
  BY <1>1 DEF IInv

(* The entry that is signaled is the one loaded, with nothing else held.     *)
LEMMA SignalInUseKeeps ==
    ASSUME SwapperAssumption, ~Overtaken, IInv, SignalInUse
    PROVE  IInv'
<1>1. (TypeOK /\ Contents /\ Deletion /\ InCall /\ Holds /\ Kept)'
  BY DEF IInv, TypeOK, Entry, Contents, Deletion, InCall, Busy, Holds, Kept, SignalInUse, producer
<1>2. Signals'
  BY DEF IInv, Signals, Busy, TypeOK, Entry, InCall, SignalInUse, producer
<1>3. Unused'
  BY DEF IInv, Unused, EmptyIsUnsignaled, Busy, Entry, TypeOK, InCall, SignalInUse, producer
<1> QED
  BY <1>1, <1>2, <1>3 DEF IInv

(* What the consumer gets is in the entry it loaded.                         *)
LEMMA LoadKeeps ==
    ASSUME SwapperAssumption, ~Overtaken, IInv, Load
    PROVE  IInv'
<1>1. (Contents /\ Deletion /\ Signals /\ Unused /\ InCall /\ Kept)'
  BY DEF IInv, Contents, Deletion, Entry, Signals, Busy, Unused, EmptyIsUnsignaled, InCall, Kept, Load, producer
<1>2. TypeOK'
  <2>1. obj[ce] \in 0 .. stored
    BY Bounded DEF IInv, TypeOK
  <2> QED
    BY <2>1 DEF IInv, TypeOK, Load, producer
<1>3. Holds'
  BY DEF IInv, Holds, TypeOK, Entry, InCall, Busy, Load, producer
<1> QED
  BY <1>1, <1>2, <1>3 DEF IInv

(* The destructor deletes what both entries have.                            *)
LEMMA DestroyKeeps ==
    ASSUME SwapperAssumption, ~Overtaken, IInv, Destroy
    PROVE  IInv'
<1>1. (Signals /\ Unused /\ InCall /\ Holds)'
  BY DEF IInv, Signals, Busy, Unused, EmptyIsUnsignaled, Entry, InCall, Holds, Destroy
<1>2. TypeOK'
  <2>1. {obj[e] : e \in Entry} \ {0} \subseteq 1 .. stored
    BY Bounded DEF IInv, TypeOK
  <2>2. deleted' \subseteq 1 .. stored
    BY <2>1 DEF IInv, TypeOK, Destroy
  <2>3. obj' \in [Entry -> 0 .. MaxObjects] /\ flag' \in [Entry -> BOOLEAN]
    BY DEF SwapperAssumption, Destroy, Entry
  <2> QED
    BY <2>2, <2>3 DEF IInv, TypeOK, Destroy
<1>3. Contents'
  BY DEF IInv, Contents, TypeOK, Entry, Destroy
<1>4. Deletion'
  BY DEF IInv, Deletion, Entry, TypeOK, Destroy
<1>5. Kept'
  BY DEF IInv, Kept, TypeOK, Entry, Destroy
<1> QED
  BY <1>1, <1>2, <1>3, <1>4, <1>5 DEF IInv

-----------------------------------------------------------------------------

(* Every step keeps the inductive invariant.                                 *)
LEMMA NextKeeps == ASSUME SwapperAssumption, ~Overtaken, IInv, [Next]_vars PROVE IInv'
<1>1. CASE Producer
  BY <1>1, TryReplaceKeeps, ExchangeKeeps, TryRemoveOldKeeps, DeleteKeeps, ClearKeeps,
     UnflagKeeps DEF Producer
<1>2. CASE Consumer
  BY <1>2, CallKeeps, HasContentKeeps, SignalInUseKeeps, LoadKeeps DEF Consumer
<1>3. CASE Call(FALSE) \/ Destroy
  BY <1>3, CallKeeps, DestroyKeeps
<1>4. CASE Dead \/ UNCHANGED vars
  <2> USE <1>4 DEF Dead, vars, producer, consumer
  <2>1. TypeOK'
    BY DEF IInv, TypeOK
  <2>2. (Contents /\ Deletion /\ Signals)'
    BY DEF IInv, Contents, Deletion, Signals, Busy
  <2>3. (Unused /\ InCall /\ Holds /\ Kept)'
    BY DEF IInv, Unused, EmptyIsUnsignaled, Busy, InCall, Holds, Kept
  <2> QED
    BY <2>1, <2>2, <2>3 DEF IInv
<1> QED
  BY <1>1, <1>2, <1>3, <1>4 DEF Next

(* The inductive invariant holds throughout.                                 *)
THEOREM Invariance == ASSUME ~Overtaken PROVE Spec => []IInv
<1>1. Init => IInv
  BY InitIInv, SwapperAssumption
<1>2. IInv /\ [Next]_vars => IInv'
  BY NextKeeps, SwapperAssumption
<1> QED
  BY <1>1, <1>2, PTL DEF Spec

(* The members always have their types.                                      *)
THEOREM TypeCorrect == ASSUME ~Overtaken PROVE Spec => []TypeOK
<1>1. IInv => TypeOK
  BY DEF IInv
<1> QED
  BY <1>1, Invariance, PTL

(* The consumer never holds an object that getObject() or, since then,       *)
(* getObjectWithoutSignaling() gave it and that is deleted meanwhile by      *)
(* tryRemoveOld().                                                           *)
THEOREM HeldIsNeverDeleted == ASSUME ~Overtaken PROVE Spec => []HeldIsAlive
<1>1. IInv => HeldIsAlive
  <2> SUFFICES ASSUME IInv, NEW o \in held PROVE o # 0 /\ o \notin deleted
    BY DEF HeldIsAlive
  <2>1. o # 0 /\ (o = obj[0] \/ o = obj[1])
    BY DEF IInv, Holds
  <2>2. o \in deleted => ppc = "clear" /\ o = obj[old] /\ flag[current]
    BY <2>1 DEF IInv, Deletion, Entry
  <2>3. flag[current] => o = obj[current]
    BY DEF IInv, Signals
  <2>4. ppc = "clear" => obj[old] # obj[current]
    BY DEF IInv, Contents, Deletion, TypeOK
  <2> QED
    BY <2>1, <2>2, <2>3, <2>4
<1> QED
  BY <1>1, Invariance, PTL

(* Every stored object is in an entry until it is deleted, and no deleted    *)
(* object is in an entry once tryRemoveOld() has returned.                   *)
THEOREM NeverLeaks == ASSUME ~Overtaken PROVE Spec => []NothingLeaks
<1>1. IInv => NothingLeaks
  <2> SUFFICES ASSUME IInv, ppc # "clear"
               PROVE  1 .. stored \ deleted = {obj[e] : e \in Entry} \ {0}
    BY DEF NothingLeaks
  <2>1. \A o \in 1 .. stored \ deleted : o = obj[0] \/ o = obj[1]
    BY DEF IInv, Kept
  <2>2. \A e \in Entry : obj[e] \in 0 .. stored /\ obj[e] \notin deleted
    BY Bounded, SwapperAssumption DEF IInv, Deletion
  <2>3. stored \in Nat
    BY SwapperAssumption DEF IInv, TypeOK, SwapperAssumption
  <2> QED
    BY <2>1, <2>2, <2>3 DEF Entry
<1> QED
  BY <1>1, Invariance, PTL

(* clearAndDelete() never finds an entry without an object signaled.         *)
THEOREM SignalsHaveObjects == ASSUME ~Overtaken PROVE Spec => []EmptyIsUnsignaled
<1>1. IInv => EmptyIsUnsignaled
  BY DEF IInv, Unused
<1> QED
  BY <1>1, Invariance, PTL

-----------------------------------------------------------------------------
(* The steps of the register: the exchange stores, a call reads, and nothing *)
(* else changes what the consumer has got or will get from its call.         *)
RegisterStep == [Register!Store \/ Register!Read]_<<Newest, Answer>>

(* The exchange makes a newer object the newest one.                         *)
LEMMA ExchangeStores ==
    ASSUME SwapperAssumption, IInv, Exchange
    PROVE  Newest' \in Nat /\ Newest' > Newest /\ UNCHANGED Answer
<1>1. Newest = obj[current] /\ Newest' = obj[old]
  BY DEF Newest, Exchange
<1>2. obj[old] = stored /\ obj[current] < stored /\ stored \in Nat
  BY DEF SwapperAssumption, IInv, TypeOK, Contents, Exchange
<1>3. UNCHANGED Answer
  BY DEF Answer, Exchange, consumer
<1> QED
  BY <1>1, <1>2, <1>3

(* A call reads the newest object.                                           *)
LEMMA CallReads ==
    ASSUME ~Overtaken, IInv, NEW signals \in BOOLEAN, Call(signals)
    PROVE  Answer' = Newest /\ UNCHANGED Newest
<1>1. ppc # "dead"
  BY DEF IInv, InCall, Call
<1> QED
  BY <1>1 DEF Answer, Newest, Call, producer

(* The other steps of the producer change nothing the register shows.        *)
LEMMA ProducerStutters ==
    ASSUME ~Overtaken, IInv, TryReplace \/ TryRemoveOld \/ Delete \/ Clear \/ Unflag
    PROVE  UNCHANGED <<Newest, Answer>>
<1>1. CASE TryReplace
  <2>1. Busy => ce # old
    BY <1>1 DEF IInv, InCall, Busy, Waiting, TryReplace
  <2>2. UNCHANGED Newest
    BY <1>1 DEF IInv, TypeOK, Newest, TryReplace
  <2>3. UNCHANGED Answer
    BY <1>1, <2>1 DEF IInv, TypeOK, Answer, Busy, TryReplace, consumer
  <2> QED
    BY <2>2, <2>3
<1>2. CASE Clear
  <2>1. Busy => ce = current
    BY <1>2 DEF IInv, Deletion, Signals, Clear
  <2>2. UNCHANGED Newest
    BY <1>2 DEF IInv, TypeOK, Newest, Clear
  <2>3. UNCHANGED Answer
    BY <1>2, <2>1 DEF IInv, TypeOK, Answer, Busy, Clear, consumer
  <2> QED
    BY <2>2, <2>3
<1>3. CASE TryRemoveOld \/ Delete \/ Unflag
  BY <1>3 DEF Newest, Answer, TryRemoveOld, Delete, Unflag, consumer
<1> QED
  BY <1>1, <1>2, <1>3

(* Nor do those of the consumer after it loaded the entry.                   *)
LEMMA ConsumerStutters ==
    ASSUME IInv, HasContent \/ SignalInUse \/ Load
    PROVE  UNCHANGED <<Newest, Answer>>
<1>1. UNCHANGED Newest
  BY DEF Newest, HasContent, SignalInUse, Load, producer
<1>2. CASE HasContent
  <2> QED
    BY <1>1, <1>2 DEF Answer, HasContent
<1>3. CASE SignalInUse \/ Load
  BY <1>1, <1>3 DEF Answer, SignalInUse, Load
<1> QED
  BY <1>2, <1>3

(* Nor does the destructor.                                                  *)
LEMMA DestroyStutters ==
    ASSUME IInv, Destroy
    PROVE  UNCHANGED <<Newest, Answer>>
BY DEF IInv, Contents, Newest, Answer, Destroy

(* Each step is one of the register, or changes nothing of it.               *)
LEMMA NextRefines ==
    ASSUME SwapperAssumption, ~Overtaken, IInv, [Next]_vars PROVE RegisterStep
<1>1. CASE Exchange
  BY <1>1, ExchangeStores DEF RegisterStep, Register!Store
<1>2. ASSUME NEW signals \in BOOLEAN, Call(signals) PROVE RegisterStep
  BY <1>2, CallReads DEF RegisterStep, Register!Read
<1>3. CASE TryReplace \/ TryRemoveOld \/ Delete \/ Clear \/ Unflag
  BY <1>3, ProducerStutters DEF RegisterStep
<1>4. CASE HasContent \/ SignalInUse \/ Load
  BY <1>4, ConsumerStutters DEF RegisterStep
<1>5. CASE Destroy
  BY <1>5, DestroyStutters DEF RegisterStep
<1>6. CASE Dead \/ UNCHANGED vars
  BY <1>6 DEF RegisterStep, Newest, Answer, Dead, vars, producer, consumer
<1> QED
  BY <1>1, <1>2, <1>3, <1>4, <1>5, <1>6 DEF Next, Producer, Consumer

(* What the consumer gets, from either call, is the object that was newest   *)
(* when the call loaded the current entry: the swapper is a register.        *)
THEOREM RefinesRegister == ASSUME ~Overtaken PROVE Spec => ImplementsRegister
<1>1. Init => Register!Init
  BY SwapperAssumption DEF Init, Register!Init, Newest, Answer, Entry
<1>2. IInv /\ [Next]_vars => RegisterStep
  BY NextRefines, SwapperAssumption
<1> QED
  BY <1>1, <1>2, Invariance, PTL DEF Spec, ImplementsRegister, Register!Spec, RegisterStep
=============================================================================
