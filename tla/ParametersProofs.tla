--------------------------- MODULE ParametersProofs ---------------------------
(***************************************************************************)
(* Theorems about the parameters and the real-time listeners, for any      *)
(* number of listeners, callers, slots, views, values and updates.         *)
(*                                                                         *)
(* The argument has two halves that do not meet.  The slots: a caller's    *)
(* lock pins the listener it calls (Locking); a slot is searched by the    *)
(* one thread that could put its listener there (Searching); and while     *)
(* nobody got into another's way what a thread found in a slot is still    *)
(* there (Undisturbed).  The value: an update that overlaps no other is    *)
(* the only one, and knows of host and value what it wrote (Agreement).    *)
(***************************************************************************)
EXTENDS Parameters, TLAPS

SlotsTypeOK ==
    /\ listener \in [Slots -> Listeners \cup {noListener}]
    /\ locked \in [Slots -> Callers \cup {noCaller}]
    /\ rpc \in [Listeners -> {"idle", "adding", "storing", "removing", "clearing"}]
    /\ rat \in [Listeners -> 1 .. SlotCount + 1]
    /\ added \subseteq Listeners /\ crowded \in BOOLEAN /\ doubled \in BOOLEAN
    /\ cat \in [Callers -> 0 .. SlotCount]
    /\ calling \in [Callers -> Listeners \cup {noListener}]

(* A slot is locked by the caller that is at it and calls what it holds.     *)
Locking ==
    /\ \A s \in Slots, c \in Callers : locked[s] = c =>
           cat[c] = s /\ listener[s] # noListener /\ calling[c] = listener[s]
    /\ \A c \in Callers : calling[c] # noListener =>
           cat[c] \in Slots /\ locked[cat[c]] = c

(* What the listener's own thread knows of where its listener is not.        *)
Searching ==
    \A l \in Listeners :
        /\ rpc[l] = "idle" => rat[l] = 1
        /\ rpc[l] \in {"storing", "clearing"} => rat[l] \in Slots
        /\ rpc[l] = "removing" => \A s \in Slots : s < rat[l] => listener[s] # l
        /\ rpc[l] = "clearing" /\ ~doubled =>
               \A s \in Slots \ {rat[l]} : listener[s] # l
        /\ l \notin added /\ ~doubled => \A s \in Slots : listener[s] # l
        /\ ~doubled => \A s, t \in Slots : listener[s] = l /\ listener[t] = l => s = t

(* The slot found free is free, and the listener found in a slot is there.   *)
Undisturbed ==
    ~crowded =>
        /\ \A l \in Listeners :
            /\ rpc[l] = "storing" => listener[rat[l]] = noListener
            /\ rpc[l] = "clearing" => listener[rat[l]] = l
            /\ ~doubled /\ l \in added => \E s \in Slots : listener[s] = l
        /\ \A l, m \in Listeners :
            rpc[l] = "storing" /\ rpc[m] = "storing" /\ rat[l] = rat[m] => l = m

SlotsInv == SlotsTypeOK /\ Locking /\ Searching /\ Undisturbed

ParamTypeOK ==
    /\ value \in Nat /\ host \in Nat /\ changedFromProcessor \in BOOLEAN
    /\ shown \in [Views -> Nat]
    /\ pc \in [Callers -> {"idle", "store", "read", "transmit", "listeners",
                           "flag", "notify"}]
    /\ source \in [Callers -> {"ui", "processor", "host"}]
    /\ arg \in [Callers -> Nat]
    /\ overlapped \in BOOLEAN

(* The updates of the user interface are those of its thread; the steps that *)
(* not every source takes.                                                   *)
Sources ==
    \A c \in Callers :
        /\ Busy(c) => (source[c] = "ui" <=> c = UI)
        /\ pc[c] \in {"read", "transmit"} => source[c] # "host"
        /\ pc[c] \in {"flag", "notify"} => (pc[c] = "notify" <=> c = UI)

(* An update that does not overlap has the host's and the parameter's value  *)
(* in hand: one of them is its own, or they agree.                           *)
Agreement ==
    ~overlapped =>
        /\ \A c, d \in Callers : Busy(c) /\ Busy(d) => c = d
        /\ (\A c \in Callers : ~Busy(c)) => host = value
        /\ \A c \in Callers : Busy(c) =>
            /\ source[c] = "host" =>
                   IF pc[c] = "store" THEN host = arg[c] /\ arg[c] <= MaxValue
                                      ELSE host = value
            /\ source[c] = "ui" =>
                   /\ pc[c] = "transmit" => arg[c] = value
                   /\ pc[c] = "listeners" => host = value
            /\ source[c] = "processor" /\ pc[c] \in {"listeners", "flag", "transmit"} =>
                   arg[c] = value

ParamInv == ParamTypeOK /\ Sources /\ Agreement /\ StaleIsPending

IInv == SlotsInv /\ ParamInv

(* No listeners and no update at first.                                      *)
LEMMA InitIInv ==
    ASSUME SlotAssumption, ParameterAssumption, ParamInit PROVE IInv
<1>1. SlotsTypeOK
  <2>1. 1 \in 1 .. SlotCount + 1 /\ 0 \in 0 .. SlotCount
    BY DEF SlotAssumption
  <2>2. crowded \in BOOLEAN /\ doubled \in BOOLEAN
    BY Zenon DEF ParamInit, SlotsInit
  <2> QED
    BY <2>1, <2>2 DEF ParamInit, SlotsInit, SlotsTypeOK
<1>2. Locking /\ Searching /\ Undisturbed
  BY DEF SlotAssumption, ParamInit, SlotsInit, Locking, Searching, Undisturbed, Slots
<1>3. ParamTypeOK
  BY DEF ParamInit, ParamTypeOK
<1>4. Sources /\ Agreement /\ StaleIsPending
  BY DEF ParamInit, Sources, Agreement, StaleIsPending, Busy
<1> QED
  BY <1>1, <1>2, <1>3, <1>4 DEF IInv, SlotsInv, ParamInv
-----------------------------------------------------------------------------
(* The slots.                                                                *)

(* add and remove begin at the first slot.                                   *)
LEMMA BeginsKeep ==
    ASSUME SlotAssumption, SlotsInv, NEW l \in Listeners, AddBegins(l) \/ RemoveBegins(l)
    PROVE  SlotsInv'
<1>1. (SlotsTypeOK /\ Locking)'
  BY DEF SlotsInv, SlotsTypeOK, Locking, AddBegins, RemoveBegins, calls
<1>2. Searching'
  BY DEF SlotAssumption, SlotsInv, SlotsTypeOK, Searching, Slots, AddBegins, RemoveBegins, calls
<1>3. Undisturbed'
  BY DEF SlotsInv, SlotsTypeOK, Undisturbed, AddBegins, RemoveBegins, calls
<1> QED
  BY <1>1, <1>2, <1>3 DEF SlotsInv

(* The next slot is looked at when the listener is not in this one.          *)
LEMMA PassesKeep ==
    ASSUME SlotAssumption, SlotsInv, NEW l \in Listeners, AddPasses(l) \/ RemovePasses(l)
    PROVE  SlotsInv'
<1>1. SlotsTypeOK'
  BY DEF SlotAssumption, SlotsInv, SlotsTypeOK, Slots, AddPasses, RemovePasses, calls
<1>2. Locking'
  BY DEF SlotsInv, Locking, AddPasses, RemovePasses, calls
<1>3. Searching'
  <2>1. /\ rat[l] \in Slots /\ rat' = [rat EXCEPT ![l] = rat[l] + 1]
        /\ rpc[l] \in {"adding", "removing"}
        /\ rpc[l] = "removing" => listener[rat[l]] # l
        /\ UNCHANGED <<rpc, listener, added, doubled>>
    BY DEF AddPasses, RemovePasses
  <2>2. \A s \in Slots : s < rat[l] + 1 => s < rat[l] \/ s = rat[l]
    BY <2>1 DEF SlotAssumption, Slots
  <2> QED
    BY <2>1, <2>2 DEF SlotsInv, SlotsTypeOK, Searching
<1>4. Undisturbed'
  BY DEF SlotsInv, SlotsTypeOK, Undisturbed, AddPasses, RemovePasses
<1> QED
  BY <1>1, <1>2, <1>3, <1>4 DEF SlotsInv

(* A free slot is wanted: if somebody wants it already, that is noted.       *)
LEMMA AddFindsFreeKeeps ==
    ASSUME SlotAssumption, SlotsInv, NEW l \in Listeners, AddFindsFree(l)
    PROVE  SlotsInv'
<1>1. (SlotsTypeOK /\ Locking /\ Searching)'
  BY DEF SlotsInv, SlotsTypeOK, Locking, Searching, AddFindsFree, calls
<1>2. Undisturbed'
  <2> SUFFICES ASSUME ~crowded' PROVE Undisturbed'
    BY DEF Undisturbed
  <2>1. /\ ~crowded /\ \A m \in Listeners \ {l} : ~(rpc[m] = "storing" /\ rat[m] = rat[l])
        /\ rpc' = [rpc EXCEPT ![l] = "storing"] /\ listener[rat[l]] = noListener
        /\ UNCHANGED <<rat, listener, added, doubled>>
    BY DEF AddFindsFree
  <2> QED
    BY <2>1 DEF SlotsInv, SlotsTypeOK, Undisturbed
<1> QED
  BY <1>1, <1>2 DEF SlotsInv

(* A listener is stored in a slot that no caller has locked.                 *)
LEMMA AddStoresKeeps ==
    ASSUME SlotAssumption, SlotsInv, NEW l \in Listeners, AddStores(l)
    PROVE  SlotsInv'
<1>1. /\ rpc[l] = "storing" /\ rat[l] \in Slots /\ locked[rat[l]] = noCaller
      /\ listener' = [listener EXCEPT ![rat[l]] = l] /\ added' = added \cup {l}
      /\ rpc' = [rpc EXCEPT ![l] = "idle"] /\ rat' = [rat EXCEPT ![l] = 1]
      /\ ~doubled' => ~doubled /\ \A s \in Slots \ {rat[l]} : listener[s] # l
      /\ UNCHANGED <<locked, crowded, cat, calling>>
  BY DEF SlotsInv, Searching, AddStores, Returns, calls
<1>2. SlotsTypeOK'
  <2>1. doubled' \in BOOLEAN
    BY DEF SlotsInv, SlotsTypeOK, AddStores
  <2>2. 1 \in 1 .. SlotCount + 1
    BY DEF SlotAssumption
  <2> QED
    BY <1>1, <2>1, <2>2 DEF SlotsInv, SlotsTypeOK, Slots
<1>3. Locking'
  BY <1>1 DEF SlotAssumption, SlotsInv, SlotsTypeOK, Locking
<1>4. Searching'
  <2>1. \A s \in Slots, m \in Listeners : m # l /\ listener[s] # m => listener'[s] # m
    BY <1>1 DEF SlotsInv, SlotsTypeOK
  <2>2. \A m \in Listeners : m # l => rpc'[m] = rpc[m] /\ rat'[m] = rat[m] /\ (m \in added' <=> m \in added)
    BY <1>1 DEF SlotsInv, SlotsTypeOK
  <2>3. rpc'[l] = "idle" /\ rat'[l] = 1 /\ l \in added'
    BY <1>1 DEF SlotsInv, SlotsTypeOK
  <2>4. ~doubled' => \A s \in Slots : listener'[s] = l => s = rat[l]
    BY <1>1 DEF SlotsInv, SlotsTypeOK
  <2> SUFFICES ASSUME NEW m \in Listeners
               PROVE  (/\ rpc[m] = "idle" => rat[m] = 1
                       /\ rpc[m] \in {"storing", "clearing"} => rat[m] \in Slots
                       /\ rpc[m] = "removing" => \A s \in Slots : s < rat[m] => listener[s] # m
                       /\ rpc[m] = "clearing" /\ ~doubled =>
                              \A s \in Slots \ {rat[m]} : listener[s] # m
                       /\ m \notin added /\ ~doubled => \A s \in Slots : listener[s] # m
                       /\ ~doubled => \A s, t \in Slots : listener[s] = m /\ listener[t] = m => s = t)'
    BY DEF Searching, Slots
  <2>5. CASE m = l
    BY <2>3, <2>4, <2>5
  <2>6. CASE m # l
    BY <1>1, <2>1, <2>2, <2>6 DEF SlotsInv, Searching
  <2> QED
    BY <2>5, <2>6
<1>5. Undisturbed'
  <2> SUFFICES ASSUME ~crowded PROVE Undisturbed'
    BY <1>1 DEF Undisturbed
  <2>1. listener[rat[l]] = noListener
    BY <1>1 DEF SlotsInv, Undisturbed
  <2>2. ASSUME NEW m \in Listeners, rpc'[m] = "storing"
        PROVE  m # l /\ rpc[m] = "storing" /\ rat'[m] = rat[m] /\ rat[m] # rat[l]
    <3>1. m # l /\ rpc[m] = "storing" /\ rat'[m] = rat[m]
      BY <1>1, <2>2 DEF SlotsInv, SlotsTypeOK
    <3> QED
      BY <1>1, <3>1 DEF SlotsInv, Undisturbed
  <2>3. ASSUME NEW m \in Listeners, rpc'[m] = "clearing"
        PROVE  listener'[rat'[m]] = m
    <3>1. m # l /\ rpc[m] = "clearing" /\ rat'[m] = rat[m]
      BY <1>1, <2>3 DEF SlotsInv, SlotsTypeOK
    <3>2. listener[rat[m]] = m /\ rat[m] \in Slots
      BY <3>1 DEF SlotsInv, Searching, Undisturbed
    <3> QED
      BY <1>1, <2>1, <3>1, <3>2 DEF SlotAssumption, SlotsInv, SlotsTypeOK
  <2>4. ASSUME NEW m \in Listeners, ~doubled', m \in added'
        PROVE  \E s \in Slots : listener'[s] = m
    <3>1. CASE m = l
      BY <1>1, <3>1 DEF SlotsInv, SlotsTypeOK
    <3>2. CASE m # l
      <4>1. PICK s \in Slots : listener[s] = m
        BY <1>1, <2>4, <3>2 DEF SlotsInv, Undisturbed
      <4> QED
        BY <1>1, <2>1, <4>1 DEF SlotAssumption, SlotsInv, SlotsTypeOK
    <3> QED
      BY <3>1, <3>2
  <2>5. ASSUME NEW m \in Listeners, rpc'[m] = "storing"
        PROVE  listener'[rat'[m]] = noListener
    <3>1. listener[rat[m]] = noListener /\ rat[m] \in Slots
      BY <2>2, <2>5 DEF SlotsInv, Searching, Undisturbed
    <3> QED
      BY <1>1, <2>2, <2>5, <3>1 DEF SlotsInv, SlotsTypeOK
  <2>6. \A m, k \in Listeners :
          rpc'[m] = "storing" /\ rpc'[k] = "storing" /\ rat'[m] = rat'[k] => m = k
    BY <2>2 DEF SlotsInv, Undisturbed
  <2> QED
    BY <2>3, <2>4, <2>5, <2>6 DEF Undisturbed, Slots
<1> QED
  BY <1>2, <1>3, <1>4, <1>5 DEF SlotsInv

(* Nothing is stored.  What finds the listener in a slot adds it.            *)
LEMMA AddEndsKeep ==
    ASSUME SlotAssumption, SlotsInv, NEW l \in Listeners, AddFindsItself(l) \/ AddFails(l)
    PROVE  SlotsInv'
<1>1. /\ rpc' = [rpc EXCEPT ![l] = "idle"] /\ rat' = [rat EXCEPT ![l] = 1]
      /\ UNCHANGED <<listener, locked, crowded, doubled, cat, calling>>
      /\ \/ added' = added
         \/ added' = added \cup {l} /\ rat[l] \in Slots /\ listener[rat[l]] = l
  BY DEF AddFindsItself, AddFails, Returns, calls
<1>2. SlotsTypeOK'
  <2>1. 1 \in 1 .. SlotCount + 1
    BY DEF SlotAssumption
  <2> QED
    BY <1>1, <2>1 DEF SlotsInv, SlotsTypeOK, Slots
<1>3. Locking'
  BY <1>1 DEF SlotsInv, Locking
<1>4. Searching'
  BY <1>1 DEF SlotsInv, SlotsTypeOK, Searching
<1>5. Undisturbed'
  BY <1>1 DEF SlotsInv, SlotsTypeOK, Undisturbed
<1> QED
  BY <1>2, <1>3, <1>4, <1>5 DEF SlotsInv

(* The slot that holds the listener is found.                                *)
LEMMA RemoveFindsKeeps ==
    ASSUME SlotAssumption, SlotsInv, NEW l \in Listeners, RemoveFinds(l)
    PROVE  SlotsInv'
<1>1. (SlotsTypeOK /\ Locking)'
  BY DEF SlotsInv, SlotsTypeOK, Locking, RemoveFinds, calls
<1>2. Searching'
  BY DEF SlotsInv, SlotsTypeOK, Searching, RemoveFinds
<1>3. Undisturbed'
  BY DEF SlotsInv, SlotsTypeOK, Undisturbed, RemoveFinds
<1> QED
  BY <1>1, <1>2, <1>3 DEF SlotsInv

(* The slot is cleared while no caller has it locked.                        *)
LEMMA RemoveClearsKeeps ==
    ASSUME SlotAssumption, SlotsInv, NEW l \in Listeners, RemoveClears(l)
    PROVE  SlotsInv'
<1>1. /\ rpc[l] = "clearing" /\ rat[l] \in Slots /\ locked[rat[l]] = noCaller
      /\ listener' = [listener EXCEPT ![rat[l]] = noListener] /\ added' = added \ {l}
      /\ rpc' = [rpc EXCEPT ![l] = "idle"] /\ rat' = [rat EXCEPT ![l] = 1]
      /\ UNCHANGED <<locked, crowded, doubled, cat, calling>>
  BY DEF SlotsInv, Searching, RemoveClears, Returns, calls
<1>2. SlotsTypeOK'
  <2>1. 1 \in 1 .. SlotCount + 1
    BY DEF SlotAssumption
  <2> QED
    BY <1>1, <2>1 DEF SlotsInv, SlotsTypeOK, Slots
<1>3. Locking'
  BY <1>1 DEF SlotAssumption, SlotsInv, SlotsTypeOK, Locking
<1>4. \A m \in Listeners : m # l => rpc'[m] = rpc[m] /\ rat'[m] = rat[m] /\ (m \in added' <=> m \in added)
  BY <1>1 DEF SlotsInv, SlotsTypeOK
<1>5. /\ \A s \in Slots : listener'[s] = IF s = rat[l] THEN noListener ELSE listener[s]
      /\ rpc'[l] = "idle" /\ rat'[l] = 1 /\ l \notin added'
  BY <1>1 DEF SlotsInv, SlotsTypeOK
<1>6. Searching'
  <2> SUFFICES ASSUME NEW m \in Listeners
               PROVE  (/\ rpc[m] = "idle" => rat[m] = 1
                       /\ rpc[m] \in {"storing", "clearing"} => rat[m] \in Slots
                       /\ rpc[m] = "removing" => \A s \in Slots : s < rat[m] => listener[s] # m
                       /\ rpc[m] = "clearing" /\ ~doubled =>
                              \A s \in Slots \ {rat[m]} : listener[s] # m
                       /\ m \notin added /\ ~doubled => \A s \in Slots : listener[s] # m
                       /\ ~doubled => \A s, t \in Slots : listener[s] = m /\ listener[t] = m => s = t)'
    BY DEF Searching, Slots
  <2>1. m # noListener
    BY DEF SlotAssumption
  <2>2. CASE m = l
    BY <1>1, <1>5, <2>1, <2>2 DEF SlotsInv, Searching
  <2>3. CASE m # l
    BY <1>1, <1>4, <1>5, <2>1, <2>3 DEF SlotsInv, Searching
  <2> QED
    BY <2>2, <2>3
<1>7. Undisturbed'
  <2> SUFFICES ASSUME ~crowded PROVE Undisturbed'
    BY <1>1 DEF Undisturbed
  <2>1. listener[rat[l]] = l
    BY <1>1 DEF SlotsInv, Undisturbed
  <2>2. ASSUME NEW m \in Listeners, rpc'[m] = "storing"
        PROVE  listener'[rat'[m]] = noListener
    <3>1. m # l /\ rpc[m] = "storing" /\ rat'[m] = rat[m]
      BY <1>4, <1>5, <2>2
    <3>2. listener[rat[m]] = noListener /\ rat[m] \in Slots
      BY <3>1 DEF SlotsInv, Searching, Undisturbed
    <3> QED
      BY <1>5, <3>1, <3>2
  <2>3. ASSUME NEW m \in Listeners, rpc'[m] = "clearing"
        PROVE  listener'[rat'[m]] = m
    <3>1. m # l /\ rpc[m] = "clearing" /\ rat'[m] = rat[m]
      BY <1>4, <1>5, <2>3
    <3>2. listener[rat[m]] = m /\ rat[m] \in Slots
      BY <3>1 DEF SlotsInv, Searching, Undisturbed
    <3> QED
      BY <1>5, <2>1, <3>1, <3>2
  <2>4. ASSUME NEW m \in Listeners, ~doubled', m \in added'
        PROVE  \E s \in Slots : listener'[s] = m
    <3>1. m # l
      BY <1>5, <2>4
    <3>2. PICK s \in Slots : listener[s] = m
      BY <1>1, <1>4, <2>4, <3>1 DEF SlotsInv, Undisturbed
    <3> QED
      BY <1>5, <2>1, <3>1, <3>2
  <2>5. \A m, k \in Listeners :
          rpc'[m] = "storing" /\ rpc'[k] = "storing" /\ rat'[m] = rat'[k] => m = k
    BY <1>4, <1>5 DEF SlotsInv, Undisturbed
  <2> QED
    BY <2>2, <2>3, <2>4, <2>5 DEF Undisturbed, Slots
<1> QED
  BY <1>2, <1>3, <1>6, <1>7 DEF SlotsInv

(* All slots were passed, so the listener is in none.                        *)
LEMMA RemoveFailsKeeps ==
    ASSUME SlotAssumption, SlotsInv, NEW l \in Listeners, RemoveFails(l)
    PROVE  SlotsInv'
<1>1. /\ rpc[l] = "removing" /\ rat[l] \notin Slots /\ added' = added \ {l}
      /\ rpc' = [rpc EXCEPT ![l] = "idle"] /\ rat' = [rat EXCEPT ![l] = 1]
      /\ UNCHANGED <<listener, locked, crowded, doubled, cat, calling>>
  BY DEF RemoveFails, Returns, calls
<1>2. SlotsTypeOK'
  <2>1. 1 \in 1 .. SlotCount + 1
    BY DEF SlotAssumption
  <2> QED
    BY <1>1, <2>1 DEF SlotsInv, SlotsTypeOK, Slots
<1>3. Locking'
  BY <1>1 DEF SlotsInv, Locking
<1>4. \A s \in Slots : listener[s] # l
  <2>1. \A s \in Slots : s < rat[l]
    BY <1>1 DEF SlotAssumption, SlotsInv, SlotsTypeOK, Slots
  <2> QED
    BY <1>1, <2>1 DEF SlotsInv, Searching
<1>5. Searching'
  BY <1>1, <1>4 DEF SlotsInv, SlotsTypeOK, Searching
<1>6. Undisturbed'
  BY <1>1, <1>4 DEF SlotsInv, SlotsTypeOK, Undisturbed
<1> QED
  BY <1>2, <1>3, <1>5, <1>6 DEF SlotsInv

(* A caller goes to the next slot without the lock of this one.              *)
LEMMA CallPassesKeeps ==
    ASSUME SlotAssumption, SlotsInv, NEW c \in Callers, CallPasses(c)
    PROVE  SlotsInv'
<1>1. /\ cat[c] \in Slots /\ (listener[cat[c]] = noListener \/ locked[cat[c]] \notin {c, noCaller})
      /\ cat' = [cat EXCEPT ![c] = IF cat[c] = SlotCount THEN 0 ELSE cat[c] + 1]
      /\ UNCHANGED <<listener, locked, rpc, rat, added, crowded, doubled, calling>>
  BY DEF CallPasses, NextSlot, registrars
<1>2. SlotsTypeOK'
  BY <1>1 DEF SlotAssumption, SlotsInv, SlotsTypeOK, Slots
<1>3. Locking'
  <2>1. calling[c] = noListener /\ \A s \in Slots : locked[s] # c
    BY <1>1 DEF SlotAssumption, SlotsInv, Locking
  <2> QED
    BY <1>1, <2>1 DEF SlotsInv, SlotsTypeOK, Locking
<1>4. (Searching /\ Undisturbed)'
  BY <1>1 DEF SlotsInv, Searching, Undisturbed
<1> QED
  BY <1>2, <1>3, <1>4 DEF SlotsInv

(* The listener is called under the lock of its slot.                        *)
LEMMA CallLocksKeeps ==
    ASSUME SlotAssumption, SlotsInv, NEW c \in Callers, CallLocks(c)
    PROVE  SlotsInv'
<1>1. /\ cat[c] \in Slots /\ listener[cat[c]] # noListener /\ locked[cat[c]] = noCaller
      /\ locked' = [locked EXCEPT ![cat[c]] = c]
      /\ calling' = [calling EXCEPT ![c] = listener[cat[c]]]
      /\ UNCHANGED <<listener, rpc, rat, added, crowded, doubled, cat>>
  BY DEF CallLocks, registrars
<1>2. (SlotsTypeOK /\ Searching /\ Undisturbed)'
  BY <1>1 DEF SlotsInv, SlotsTypeOK, Searching, Undisturbed
<1>3. Locking'
  BY <1>1 DEF SlotAssumption, SlotsInv, SlotsTypeOK, Locking
<1> QED
  BY <1>2, <1>3 DEF SlotsInv

(* The lock is given back with the listener.                                 *)
LEMMA CallReturnsKeeps ==
    ASSUME SlotAssumption, SlotsInv, NEW c \in Callers, CallReturns(c)
    PROVE  SlotsInv'
<1>1. /\ cat[c] \in Slots /\ locked[cat[c]] = c
      /\ locked' = [locked EXCEPT ![cat[c]] = noCaller]
      /\ calling' = [calling EXCEPT ![c] = noListener]
      /\ cat' = [cat EXCEPT ![c] = IF cat[c] = SlotCount THEN 0 ELSE cat[c] + 1]
      /\ UNCHANGED <<listener, rpc, rat, added, crowded, doubled>>
  BY DEF CallReturns, NextSlot, registrars
<1>2. SlotsTypeOK'
  BY <1>1 DEF SlotAssumption, SlotsInv, SlotsTypeOK, Slots
<1>3. (Searching /\ Undisturbed)'
  BY <1>1 DEF SlotsInv, Searching, Undisturbed
<1>4. Locking'
  BY <1>1 DEF SlotAssumption, SlotsInv, SlotsTypeOK, Locking
<1> QED
  BY <1>2, <1>3, <1>4 DEF SlotsInv

(* A caller goes to the first slot with no lock in hand.                     *)
LEMMA CallBeginsKeeps ==
    ASSUME SlotAssumption, SlotsInv, NEW c \in Callers, CallBegins(c)
    PROVE  SlotsInv'
<1>1. /\ cat[c] = 0 /\ cat' = [cat EXCEPT ![c] = 1]
      /\ UNCHANGED <<listener, locked, rpc, rat, added, crowded, doubled, calling>>
  BY DEF CallBegins, registrars
<1>2. SlotsTypeOK'
  <2>1. 1 \in 0 .. SlotCount
    BY DEF SlotAssumption
  <2> QED
    BY <1>1, <2>1 DEF SlotsInv, SlotsTypeOK, Slots
<1>3. Locking'
  <2>1. calling[c] = noListener /\ \A s \in Slots : locked[s] # c
    BY <1>1 DEF SlotAssumption, SlotsInv, Locking, Slots
  <2> QED
    BY <1>1, <2>1 DEF SlotsInv, SlotsTypeOK, Locking
<1>4. (Searching /\ Undisturbed)'
  BY <1>1 DEF SlotsInv, Searching, Undisturbed
<1> QED
  BY <1>2, <1>3, <1>4 DEF SlotsInv

(* Every other step of an update leaves the slots alone.                     *)
LEMMA SlotsKept ==
    ASSUME SlotsInv, UNCHANGED slotVars
    PROVE  SlotsInv'
BY DEF slotVars, SlotsInv, SlotsTypeOK, Locking, Searching, Undisturbed

(* All that registering threads and callers do to the slots.                 *)
LEMMA SlotsKeep ==
    ASSUME SlotAssumption, SlotsInv,
           \/ \E l \in Listeners : Registrar(l) \/ AddBegins(l) \/ RemoveBegins(l)
           \/ \E c \in Callers : CallBegins(c) \/ CallMoves(c)
           \/ UNCHANGED slotVars
    PROVE  SlotsInv'
BY SlotsKept, BeginsKeep, PassesKeep, AddFindsFreeKeeps, AddStoresKeeps, AddEndsKeep,
   RemoveFindsKeeps, RemoveClearsKeeps, RemoveFailsKeeps, CallBeginsKeeps,
   CallPassesKeeps, CallLocksKeeps, CallReturnsKeeps
   DEF Registrar, CallMoves
-----------------------------------------------------------------------------
(* The value.                                                                *)

(* A second update is noted; a first one finds host and value agreeing, or   *)
(* the host's copy is its own already.                                       *)
LEMMA BeginKeeps ==
    ASSUME ParameterAssumption, ParamInv, NEW c \in Callers,
           NEW kind \in {"ui", "processor", "host"}, NEW v \in 0 .. MaxInput,
           Begin(c, kind, v)
    PROVE  ParamInv'
<1>1. /\ pc[c] = "idle" /\ (kind = "ui" <=> c = UI) /\ (kind = "host" => v <= MaxValue)
      /\ source' = [source EXCEPT ![c] = kind] /\ arg' = [arg EXCEPT ![c] = v]
      /\ host' = IF kind = "host" THEN v ELSE host
      /\ overlapped' = \E d \in Callers : Busy(d)
      /\ pc' = [pc EXCEPT ![c] = "store"] /\ v \in Nat
      /\ UNCHANGED <<value, changedFromProcessor, shown, toNotify>>
  BY DEF ParameterAssumption, Begin, Goes
<1>2. ParamTypeOK'
  <2>1. overlapped' \in BOOLEAN
    BY <1>1
  <2> QED
    BY <1>1, <2>1 DEF ParamInv, ParamTypeOK
<1>3. /\ \A d \in Callers : d # c => pc'[d] = pc[d] /\ source'[d] = source[d] /\ arg'[d] = arg[d]
      /\ pc'[c] = "store" /\ source'[c] = kind /\ arg'[c] = v
  BY <1>1 DEF ParamInv, ParamTypeOK
<1>4. Sources'
  BY <1>1, <1>3 DEF ParamInv, Sources, Busy
<1>5. Agreement'
  <2> SUFFICES ASSUME ~overlapped' PROVE Agreement'
    BY DEF Agreement
  <2>1. \A d \in Callers : ~Busy(d)
    BY <1>1
  <2>2. \A d \in Callers : Busy(d)' <=> d = c
    BY <1>3, <2>1 DEF Busy
  <2> QED
    BY <1>1, <1>3, <2>2 DEF Agreement
<1>6. StaleIsPending'
  BY <1>1, <1>3 DEF ParamInv, StaleIsPending, Unannounced
<1> QED
  BY <1>2, <1>4, <1>5, <1>6 DEF ParamInv

(* The value is the one given, kept to the range.                            *)
LEMMA StoreKeeps ==
    ASSUME ParameterAssumption, ParamInv, NEW c \in Callers, Store(c)
    PROVE  ParamInv'
<1>1. /\ pc[c] = "store" /\ value' = Restricted(arg[c])
      /\ pc' = [pc EXCEPT ![c] = IF source[c] = "host" THEN "listeners" ELSE "read"]
      /\ UNCHANGED <<host, changedFromProcessor, shown, source, arg, toNotify, overlapped>>
  BY DEF Store, Goes
<1>2. ParamTypeOK'
  BY <1>1 DEF ParameterAssumption, ParamInv, ParamTypeOK, Restricted
<1>3. /\ \A d \in Callers : d # c => pc'[d] = pc[d]
      /\ pc'[c] = IF source[c] = "host" THEN "listeners" ELSE "read"
  BY <1>1 DEF ParamInv, ParamTypeOK
<1>4. Sources'
  BY <1>1, <1>3 DEF ParamInv, Sources, Busy
<1>5. Agreement'
  <2> SUFFICES ASSUME ~overlapped PROVE Agreement'
    BY <1>1 DEF Agreement
  <2>1. \A d \in Callers : Busy(d)' <=> d = c
    BY <1>1, <1>3 DEF ParamInv, Agreement, Busy
  <2>2. source[c] = "host" => host = arg[c] /\ arg[c] <= MaxValue
    BY <1>1 DEF ParamInv, Agreement, Busy
  <2>3. source[c] = "host" => value' = host
    BY <1>1, <2>2 DEF ParameterAssumption, ParamInv, ParamTypeOK, Restricted
  <2> QED
    BY <1>1, <1>3, <1>4, <2>1, <2>3 DEF Agreement, Sources
<1>6. StaleIsPending'
  <2>1. Unannounced'
    BY <1>1, <1>3 DEF ParamInv, Sources, Busy, Unannounced
  <2> QED
    BY <2>1 DEF StaleIsPending
<1> QED
  BY <1>2, <1>4, <1>5, <1>6 DEF ParamInv

(* The restricted value is read back and passed on.                          *)
LEMMA ReadBackKeeps ==
    ASSUME ParameterAssumption, ParamInv, NEW c \in Callers, ReadBack(c)
    PROVE  ParamInv'
<1>1. /\ pc[c] = "read" /\ arg' = [arg EXCEPT ![c] = value]
      /\ pc' = [pc EXCEPT ![c] = IF source[c] = "ui" THEN "transmit" ELSE "listeners"]
      /\ UNCHANGED <<value, host, changedFromProcessor, shown, source, toNotify, overlapped>>
  BY DEF ReadBack, Goes
<1>2. ParamTypeOK'
  BY <1>1 DEF ParamInv, ParamTypeOK
<1>3. /\ \A d \in Callers : d # c => pc'[d] = pc[d] /\ arg'[d] = arg[d]
      /\ pc'[c] = (IF source[c] = "ui" THEN "transmit" ELSE "listeners") /\ arg'[c] = value
  BY <1>1 DEF ParamInv, ParamTypeOK
<1>4. Sources'
  BY <1>1, <1>3 DEF ParamInv, Sources, Busy
<1>5. Agreement'
  <2> SUFFICES ASSUME ~overlapped PROVE Agreement'
    BY <1>1 DEF Agreement
  <2>1. \A d \in Callers : Busy(d)' <=> d = c
    BY <1>1, <1>3 DEF ParamInv, Agreement, Busy
  <2>2. source[c] # "host"
    BY <1>1 DEF ParamInv, Sources
  <2> QED
    BY <1>1, <1>3, <2>1, <2>2 DEF Agreement
<1>6. StaleIsPending'
  <2>1. Unannounced'
    BY <1>1, <1>3 DEF ParamInv, Sources, Busy, Unannounced
  <2> QED
    BY <2>1 DEF StaleIsPending
<1> QED
  BY <1>2, <1>4, <1>5, <1>6 DEF ParamInv

(* The host gets what the update has in hand.                                *)
LEMMA TransmitKeeps ==
    ASSUME ParameterAssumption, ParamInv, NEW c \in Callers, Transmit(c)
    PROVE  ParamInv'
<1>1. /\ pc[c] = "transmit" /\ host' = arg[c]
      /\ UNCHANGED <<value, changedFromProcessor, shown, toNotify, overlapped>>
      /\ source[c] # "host" /\ source[c] \in {"ui", "processor"}
      /\ source[c] = "ui" <=> c = UI
  BY DEF ParamInv, ParamTypeOK, Sources, Busy, Transmit
<1>2. \/ /\ source[c] = "processor" /\ pc' = [pc EXCEPT ![c] = "idle"]
         /\ source' = [source EXCEPT ![c] = "ui"] /\ arg' = [arg EXCEPT ![c] = 0]
      \/ /\ source[c] = "ui" /\ pc' = [pc EXCEPT ![c] = "listeners"]
         /\ UNCHANGED <<source, arg>>
  BY <1>1 DEF Transmit, Then, Ends, Goes
<1>3. ParamTypeOK'
  BY <1>1, <1>2 DEF ParamInv, ParamTypeOK
<1>4. /\ \A d \in Callers : d # c => pc'[d] = pc[d] /\ source'[d] = source[d] /\ arg'[d] = arg[d]
      /\ pc'[c] = IF c = UI THEN "listeners" ELSE "idle"
      /\ c = UI => source'[c] = "ui"
  BY <1>1, <1>2 DEF ParamInv, ParamTypeOK
<1>5. Sources'
  BY <1>1, <1>4 DEF ParamInv, Sources, Busy
<1>6. Agreement'
  <2> SUFFICES ASSUME ~overlapped PROVE Agreement'
    BY <1>1 DEF Agreement
  <2>1. \A d \in Callers : Busy(d)' <=> d = c /\ c = UI
    BY <1>1, <1>4 DEF ParamInv, Agreement, Busy
  <2>2. host' = value
    BY <1>1 DEF ParamInv, Agreement, Busy
  <2> QED
    BY <1>1, <1>4, <2>1, <2>2 DEF Agreement
<1>7. StaleIsPending'
  BY <1>1, <1>4 DEF ParamInv, StaleIsPending, Unannounced
<1> QED
  BY <1>3, <1>5, <1>6, <1>7 DEF ParamInv

(* After the real-time listeners the user interface turns to its own, the    *)
(* others to the flag.                                                       *)
LEMMA CallStepKeeps ==
    ASSUME ParameterAssumption, ParamInv, NEW c \in Callers, CallStep(c)
    PROVE  ParamInv'
<1>1. /\ pc[c] = "listeners"
      /\ UNCHANGED <<value, host, changedFromProcessor, shown, source, arg, overlapped>>
      /\ source[c] = "ui" <=> c = UI
      /\ toNotify' = IF pc'[UI] = "notify" /\ pc[UI] # "notify" THEN Views ELSE toNotify
  BY DEF ParamInv, Sources, Busy, CallStep
<1>2. CASE pc' = pc
  BY <1>1, <1>2
     DEF ParamInv, ParamTypeOK, Sources, Agreement, Busy, StaleIsPending, Unannounced
<1>3. CASE pc' = [pc EXCEPT ![c] = IF source[c] = "ui" THEN "notify" ELSE "flag"]
  <2>1. /\ \A d \in Callers : d # c => pc'[d] = pc[d]
        /\ pc'[c] = IF c = UI THEN "notify" ELSE "flag"
    BY <1>1, <1>3 DEF ParamInv, ParamTypeOK
  <2>2. ParamTypeOK'
    BY <1>1, <1>3 DEF ParamInv, ParamTypeOK
  <2>3. Sources'
    BY <1>1, <2>1 DEF ParamInv, Sources, Busy
  <2>4. Agreement'
    <3> SUFFICES ASSUME ~overlapped PROVE Agreement'
      BY <1>1 DEF Agreement
    <3>1. \A d \in Callers : Busy(d)' <=> d = c /\ c # UI
      BY <1>1, <2>1 DEF ParamInv, Agreement, Busy
    <3>2. Busy(c)
      BY <1>1 DEF Busy
    <3>3. /\ c = UI \/ source[c] = "host" => host = value
          /\ source[c] = "processor" => arg[c] = value
      BY <1>1, <3>2 DEF ParamInv, Agreement
    <3> QED
      BY <1>1, <2>1, <3>1, <3>3 DEF Agreement
  <2>5. StaleIsPending'
    <3>1. CASE c = UI
      <4>1. toNotify' = Views
        BY <1>1, <2>1, <3>1
      <4> QED
        BY <4>1 DEF StaleIsPending
    <3>2. CASE c # UI
      <4>1. Unannounced'
        BY <1>1, <2>1, <3>2 DEF Unannounced
      <4> QED
        BY <4>1 DEF StaleIsPending
    <3> QED
      BY <3>1, <3>2
  <2> QED
    BY <2>2, <2>3, <2>4, <2>5 DEF ParamInv
<1> QED
  BY <1>2, <1>3 DEF CallStep

(* The flag stands for what the thread was about to announce.                *)
LEMMA SetFlagKeeps ==
    ASSUME ParameterAssumption, ParamInv, NEW c \in Callers, SetFlag(c)
    PROVE  ParamInv'
<1>1. /\ pc[c] = "flag" /\ changedFromProcessor' = TRUE
      /\ UNCHANGED <<value, host, shown, toNotify, overlapped>>
      /\ c # UI /\ source[c] \in {"host", "processor"}
  BY DEF ParamInv, ParamTypeOK, Sources, Busy, SetFlag
<1>2. \/ /\ source[c] = "host" /\ pc' = [pc EXCEPT ![c] = "idle"]
         /\ source' = [source EXCEPT ![c] = "ui"] /\ arg' = [arg EXCEPT ![c] = 0]
      \/ /\ source[c] = "processor" /\ pc' = [pc EXCEPT ![c] = "transmit"]
         /\ UNCHANGED <<source, arg>>
  BY <1>1 DEF SetFlag, Then, Ends, Goes
<1>3. ParamTypeOK'
  BY <1>1, <1>2 DEF ParamInv, ParamTypeOK
<1>4. /\ \A d \in Callers : d # c => pc'[d] = pc[d] /\ source'[d] = source[d] /\ arg'[d] = arg[d]
      /\ pc'[c] = IF source[c] = "host" THEN "idle" ELSE "transmit"
      /\ source[c] # "host" => source'[c] = source[c] /\ arg'[c] = arg[c]
  BY <1>1, <1>2 DEF ParamInv, ParamTypeOK
<1>5. Sources'
  BY <1>1, <1>4 DEF ParamInv, Sources, Busy
<1>6. Agreement'
  <2> SUFFICES ASSUME ~overlapped PROVE Agreement'
    BY <1>1 DEF Agreement
  <2>1. \A d \in Callers : Busy(d)' <=> d = c /\ source[c] # "host"
    BY <1>1, <1>4 DEF ParamInv, Agreement, Busy
  <2>2. IF source[c] = "host" THEN host = value ELSE arg[c] = value
    BY <1>1 DEF ParamInv, Agreement, Busy
  <2> QED
    BY <1>1, <1>4, <2>1, <2>2 DEF Agreement
<1>7. StaleIsPending'
  BY <1>1 DEF StaleIsPending
<1> QED
  BY <1>3, <1>5, <1>6, <1>7 DEF ParamInv

(* The user interface calls its listeners; each reads the value.             *)
LEMMA RefreshKeeps ==
    ASSUME ParameterAssumption, ParamInv, Refresh
    PROVE  ParamInv'
<1>1. UI \in Callers
  BY DEF ParameterAssumption
<1>2. CASE Pulse
  <2>1. (ParamTypeOK /\ Sources /\ StaleIsPending)'
    BY <1>1, <1>2 DEF ParamInv, ParamTypeOK, Sources, Busy, StaleIsPending, Pulse, Goes
  <2>2. Agreement'
    BY <1>1, <1>2 DEF ParamInv, ParamTypeOK, Agreement, Busy, Pulse, Goes
  <2> QED
    BY <2>1, <2>2 DEF ParamInv
<1>3. ASSUME NEW v \in Views, Notify(v) PROVE ParamInv'
  <2>1. (ParamTypeOK /\ Sources /\ StaleIsPending)'
    BY <1>1, <1>3
       DEF ParamInv, ParamTypeOK, Sources, Busy, StaleIsPending, Unannounced, Notify
  <2>2. Agreement'
    BY <1>3 DEF ParamInv, Agreement, Busy, Notify
  <2> QED
    BY <2>1, <2>2 DEF ParamInv
<1>4. CASE Notified
  <2>1. /\ pc[UI] = "notify" /\ pc' = [pc EXCEPT ![UI] = "idle"]
        /\ source' = [source EXCEPT ![UI] = "ui"] /\ arg' = [arg EXCEPT ![UI] = 0]
        /\ UNCHANGED <<value, host, changedFromProcessor, shown, toNotify, overlapped>>
    BY <1>4 DEF Notified, Ends, Goes
  <2>2. ParamTypeOK'
    BY <1>1, <2>1 DEF ParamInv, ParamTypeOK
  <2>3. \A c \in Callers : IF c = UI THEN pc'[c] = "idle"
                           ELSE pc'[c] = pc[c] /\ source'[c] = source[c] /\ arg'[c] = arg[c]
    BY <2>1 DEF ParamInv, ParamTypeOK
  <2>4. Sources'
    BY <2>3 DEF ParamInv, Sources, Busy
  <2>5. Agreement'
    <3>1. \A c \in Callers : (Busy(c)' <=> Busy(c)) /\ (Busy(c) => c # UI)
      BY <2>1, <2>3 DEF Busy
    <3> QED
      BY <2>1, <2>3, <3>1 DEF ParamInv, Agreement
  <2>6. StaleIsPending'
    BY <1>1, <2>1, <2>3 DEF ParamInv, StaleIsPending, Unannounced
  <2> QED
    BY <2>2, <2>4, <2>5, <2>6 DEF ParamInv
<1> QED
  BY <1>2, <1>3, <1>4 DEF Refresh

(* The registering threads leave the value alone.                            *)
LEMMA ParamKept ==
    ASSUME ParamInv, UNCHANGED paramVars
    PROVE  ParamInv'
BY DEF paramVars, ParamInv, ParamTypeOK, Sources, Agreement, Busy, StaleIsPending, Unannounced
-----------------------------------------------------------------------------
(* Each step of the threads.                                                 *)
LEMMA NextKeeps ==
    ASSUME SlotAssumption, ParameterAssumption, IInv, [ParamNext]_pVars
    PROVE  IInv'
<1>1. CASE UNCHANGED pVars
  BY <1>1, SlotsKept, ParamKept DEF IInv, pVars
<1>2. ASSUME NEW c \in Callers, Update(c) PROVE IInv'
  <2>1. SlotsInv'
    BY <1>2, SlotsKeep
       DEF IInv, Update, Store, ReadBack, Transmit, CallStep, SetFlag
  <2>2. ParamInv'
    BY <1>2, StoreKeeps, ReadBackKeeps, TransmitKeeps, ParamKept, CallStepKeeps, SetFlagKeeps
       DEF IInv, Update, CallBegins
  <2> QED
    BY <2>1, <2>2 DEF IInv
<1>3. ASSUME NEW c \in Callers, NEW k \in {"ui", "processor", "host"}, NEW v \in 0 .. MaxInput,
             Begin(c, k, v)
      PROVE  IInv'
  BY <1>3, BeginKeeps, SlotsKept DEF IInv, Begin
<1>4. CASE Refresh
  <2>1. UNCHANGED slotVars
    BY <1>4 DEF Refresh, Pulse, Notified, Notify
  <2> QED
    BY <1>4, <2>1, RefreshKeeps, SlotsKept DEF IInv
<1>5. ASSUME NEW l \in Listeners,
             (Registrar(l) \/ AddBegins(l) \/ RemoveBegins(l)) /\ UNCHANGED paramVars
      PROVE  IInv'
  BY <1>5, SlotsKeep, ParamKept DEF IInv
<1> QED
  BY <1>1, <1>2, <1>3, <1>4, <1>5 DEF ParamNext, Rest

(* What the slots hold, as the listeners see it.                             *)
LEMMA SlotsInvImplies ==
    ASSUME SlotAssumption, SlotsInv
    PROVE  RemovedIsQuiet /\ AddedIsKept
<1>1. \A c \in Callers, l \in Listeners : calling[c] = l =>
        cat[c] \in Slots /\ listener[cat[c]] = l
  BY DEF SlotAssumption, SlotsInv, Locking
<1>2. RemovedIsQuiet
  BY <1>1 DEF SlotsInv, Searching, RemovedIsQuiet, Quiet
<1>3. ASSUME ~crowded, ~doubled, NEW l \in added, rpc[l] = "idle"
      PROVE  /\ \E s \in Slots : {t \in Slots : listener[t] = l} = {s}
             /\ \A c, d \in Callers : calling[c] = l /\ calling[d] = l => c = d
  <2>1. l \in Listeners
    BY DEF SlotsInv, SlotsTypeOK
  <2>2. \A s, t \in Slots : listener[s] = l /\ listener[t] = l => s = t
    BY <1>3, <2>1 DEF SlotsInv, Searching
  <2>3. PICK s \in Slots : listener[s] = l
    BY <1>3, <2>1 DEF SlotsInv, Undisturbed
  <2>4. {t \in Slots : listener[t] = l} = {s}
    BY <2>2, <2>3
  <2>5. \A c, d \in Callers : calling[c] = l /\ calling[d] = l => c = d
    <3> SUFFICES ASSUME NEW c \in Callers, NEW d \in Callers, calling[c] = l, calling[d] = l
                 PROVE  c = d
      OBVIOUS
    <3>1. cat[c] \in Slots /\ cat[c] = cat[d] /\ l # noListener
      BY <1>1, <2>1, <2>2 DEF SlotAssumption
    <3> QED
      BY <3>1 DEF SlotsInv, Locking
  <2> QED
    BY <2>3, <2>4, <2>5
<1> QED
  BY <1>2, <1>3 DEF AddedIsKept

(* The two halves hold in every state.                                       *)
THEOREM Invariance == ParamSpec => []IInv
<1>1. ParamInit => IInv
  BY InitIInv, SlotAssumption, ParameterAssumption
<1>2. IInv /\ [ParamNext]_pVars => IInv'
  BY NextKeeps, SlotAssumption, ParameterAssumption
<1> QED
  BY <1>1, <1>2, PTL DEF ParamSpec

(* Once removeRTListener() has returned, whatever other threads do, nobody   *)
(* calls the listener or will, unless it got into a second slot.             *)
THEOREM RemovalIsFinal == ParamSpec => []RemovedIsQuiet
<1>1. IInv => RemovedIsQuiet
  BY SlotsInvImplies, SlotAssumption DEF IInv
<1> QED
  BY <1>1, Invariance, PTL

(* A listener that was added is in one slot and is called by one thread at a *)
(* time, unless two threads met at a free slot.                              *)
THEOREM AdditionLasts == ParamSpec => []AddedIsKept
<1>1. IInv => AddedIsKept
  BY SlotsInvImplies, SlotAssumption DEF IInv
<1> QED
  BY <1>1, Invariance, PTL

(* No interleaving of updates and pulses leaves a UI listener with an old    *)
(* value and nobody due to call it.                                          *)
THEOREM NoViewIsForgotten == ParamSpec => []StaleIsPending
<1>1. IInv => StaleIsPending
  BY DEF IInv, ParamInv
<1> QED
  BY <1>1, Invariance, PTL

(* Host and parameter agree when no update is under way, if the last ones    *)
(* did not overlap.                                                          *)
THEOREM HostFollows == ParamSpec => []HostAgrees
<1>1. IInv => HostAgrees
  BY DEF IInv, ParamInv, Agreement, HostAgrees
<1> QED
  BY <1>1, Invariance, PTL
=============================================================================
