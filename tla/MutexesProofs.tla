---------------------------- MODULE MutexesProofs ----------------------------
(***************************************************************************)
(* Theorems about the mutexes, for any number of threads, lock objects and *)
(* Lockables.                                                              *)
(*                                                                         *)
(* The argument: a Lockable that nobody broke has an owner from the step   *)
(* after the flag is set to the step before it is cleared, and what points *)
(* to it is used by its owner (PointsToOwn).  Its count is that of the     *)
(* lock objects that point to it, without those whose release has counted  *)
(* down already (Counted), and it is zero only while it is free or one     *)
(* thread takes it or gives it back (Exclusive, Owned).                    *)
(***************************************************************************)
EXTENDS Mutexes, FiniteSetTheorems, TLAPS

Taking == {"spin", "own", "check", "count"}
Giving == {"release", "disown", "clear"}

TypeOK ==
    /\ flag \in [Resources -> BOOLEAN]
    /\ ownerThread \in [Resources -> Threads \cup {none}]
    /\ refCount \in [Resources -> Nat] /\ leaks \in [Resources -> Nat]
    /\ resource \in [Locks -> Resources \cup {none}]
    /\ pc \in [Threads -> Taking \cup Giving \cup {"idle", "terminated"}]
    /\ call \in [Threads -> [lock : Locks \cup {none}, for : Resources \cup {none},
                             kind : {"none", "acquire", "release", "destroy"},
                             mine : BOOLEAN]]
    /\ broken \subseteq Resources

(* A thread calls its own lock objects, and one that releases points to what *)
(* is released.                                                              *)
InCall ==
    \A t \in Threads :
        /\ pc[t] \in Taking \cup Giving =>
               call[t].lock \in Locks /\ User[call[t].lock] = t
        /\ pc[t] \in Giving => call[t].kind # "none" /\ Released(t) \in Resources
        /\ call[t].kind = "acquire" => call[t].for \in Resources
        /\ pc[t] \in Taking => call[t].kind = "acquire"
        /\ pc[t] = "count" => call[t].mine

(* Between setting the flag and the first count, and from the last release   *)
(* to clearing the flag.                                                     *)
Busy(t, r) ==
    \/ pc[t] \in {"own", "check"} /\ call[t].for = r
    \/ pc[t] \in {"disown", "clear"} /\ Released(t) = r

(* Lock objects whose reference is counted, among those that point to r.     *)
Uncounted(l) ==
    /\ call[User[l]].lock = l
    /\ pc[User[l]] \in Taking \cup {"disown", "clear"}
Holders(r) == {l \in Locks : resource[l] = r /\ ~Uncounted(l)}

Counted ==
    \A r \in Resources \ broken : refCount[r] = Cardinality(Holders(r)) + leaks[r]

PointsToOwn ==
    \A r \in Resources \ broken : \A l \in Locks :
        resource[l] = r =>
            \/ ownerThread[r] = User[l]
            \/ pc[User[l]] = "clear" /\ call[User[l]].lock = l

Exclusive ==
    \A r \in Resources \ broken : \A t \in Threads : Busy(t, r) =>
        /\ flag[r] /\ refCount[r] = 0
        /\ ownerThread[r] = IF pc[t] \in {"own", "clear"} THEN none ELSE t
        /\ \A u \in Threads : Busy(u, r) => u = t

Owned ==
    \A r \in Resources \ broken :
        /\ ~flag[r] => refCount[r] = 0 /\ ownerThread[r] = none
        /\ flag[r] /\ ownerThread[r] = none => \E t \in Threads : Busy(t, r)
        /\ \A t \in Threads :
               ownerThread[r] = t /\ ~Busy(t, r) => refCount[r] > 0

(* What a thread found to be its own already, while it gives up another one. *)
StillMine ==
    \A t \in Threads :
        pc[t] \in Giving \cup {"count"} /\ call[t].kind = "acquire" /\ call[t].mine =>
            /\ call[t].for # Released(t)
            /\ call[t].for \in broken \/ ownerThread[call[t].for] = t

IInv ==
    /\ TypeOK /\ InCall /\ Counted /\ PointsToOwn /\ Exclusive /\ Owned
    /\ StillMine

(* Adding and removing one counted lock object.                              *)
LEMMA HoldersFinite ==
    ASSUME MutexAssumption, NEW S, S \subseteq Locks
    PROVE  /\ IsFiniteSet(S) /\ Cardinality(S) \in Nat
           /\ Cardinality(S) = 0 => S = {}
           /\ \A l \in Locks \ S : Cardinality(S \cup {l}) = Cardinality(S) + 1
           /\ \A l \in S : Cardinality(S \ {l}) = Cardinality(S) - 1
<1>1. IsFiniteSet(S)
  BY FS_Subset DEF MutexAssumption
<1> QED
  BY <1>1, FS_CardinalityType, FS_EmptySet, FS_AddElement, FS_RemoveElement

(* Nobody holds anything at first.                                           *)
LEMMA InitIInv == ASSUME MutexAssumption, Init PROVE IInv
<1>1. TypeOK
  <2>1. call \in [Threads -> [lock : Locks \cup {none}, for : Resources \cup {none},
                              kind : {"none", "acquire", "release", "destroy"},
                              mine : BOOLEAN]]
    BY DEF Init, NoCall
  <2> QED
    BY <2>1 DEF Init, TypeOK, Taking, Giving
<1>2. InCall /\ PointsToOwn /\ Exclusive /\ Owned /\ StillMine
  BY DEF MutexAssumption, Init, NoCall, InCall, Released, Taking, Giving, PointsToOwn,
         Exclusive, Busy, Owned, StillMine
<1>3. Counted
  <2> SUFFICES ASSUME NEW r \in Resources PROVE Cardinality(Holders(r)) = 0
    BY DEF Init, Counted
  <2>1. Holders(r) = {}
    BY DEF MutexAssumption, Init, Holders
  <2> QED
    BY <2>1, FS_EmptySet
<1> QED
  BY <1>1, <1>2, <1>3 DEF IInv

(* The call is entered; the lock object counts until it has been released.   *)
LEMMA AcquireKeeps ==
    ASSUME MutexAssumption, IInv, NEW t \in Threads, NEW l \in Locks, NEW r \in Resources,
           Acquire(t, l, r)
    PROVE  IInv'
<1>1. TypeOK'
  BY DEF IInv, TypeOK, Acquire, Steps, Taking, Giving, lockable, history
<1>2. InCall'
  <2>1. \A u \in Threads : u # t => call'[u] = call[u] /\ pc'[u] = pc[u]
    BY DEF IInv, TypeOK, Acquire, Steps
  <2>2. /\ call'[t].lock = l /\ call'[t].for = r /\ call'[t].kind = "acquire"
        /\ pc'[t] \in {"release", "count", "spin"}
        /\ pc'[t] = "release" => resource[l] \in Resources
        /\ resource' = resource /\ User[l] = t
    BY DEF IInv, TypeOK, Acquire, Steps
  <2>3. pc'[t] = "count" => call'[t].mine
    BY DEF IInv, TypeOK, Acquire, Steps
  <2> QED
    BY <2>1, <2>2, <2>3 DEF IInv, InCall, Released, Taking, Giving
<1>3. \A q \in Resources : Holders(q)' = Holders(q)
  BY DEF MutexAssumption, IInv, TypeOK, InCall, Holders, Uncounted, Acquire, Steps, Taking, Giving
<1>4. Counted'
  BY <1>3 DEF IInv, Counted, Acquire, lockable, history
<1>5. PointsToOwn'
  BY DEF MutexAssumption, IInv, TypeOK, PointsToOwn, Acquire, Steps, lockable, history
<1>6. \A q \in Resources, u \in Threads : Busy(u, q)' = Busy(u, q)
  BY DEF IInv, TypeOK, Busy, Released, Acquire, Steps
<1>7. Exclusive'
  BY <1>6 DEF IInv, TypeOK, Exclusive, Busy, Acquire, Steps, lockable, history
<1>8. Owned'
  BY <1>6 DEF IInv, Owned, Acquire, lockable, history
<1>9. StillMine'
  BY DEF IInv, TypeOK, StillMine, Released, Acquire, Steps, Taking, Giving, lockable, history
<1> QED
  BY <1>1, <1>2, <1>4, <1>5, <1>7, <1>8, <1>9 DEF IInv

(* release() is entered with a lock object that points to a Lockable.        *)
LEMMA ReleaseKeeps ==
    ASSUME MutexAssumption, IInv, NEW t \in Threads, NEW l \in Locks,
           NEW kind \in {"release", "destroy"}, Release(t, l, kind)
    PROVE  IInv'
<1>1. TypeOK'
  BY DEF IInv, TypeOK, Release, Steps, Taking, Giving, lockable, history
<1>2. InCall'
  BY DEF IInv, TypeOK, InCall, Released, Release, Steps, Taking, Giving, lockable
<1>3. \A q \in Resources : Holders(q)' = Holders(q)
  BY DEF MutexAssumption, IInv, TypeOK, InCall, Holders, Uncounted, Release, Steps, Taking, Giving
<1>4. Counted'
  BY <1>3 DEF IInv, Counted, Release, lockable, history
<1>5. PointsToOwn'
  BY DEF MutexAssumption, IInv, TypeOK, PointsToOwn, Release, Steps, lockable, history
<1>6. \A q \in Resources, u \in Threads : Busy(u, q)' = Busy(u, q)
  BY DEF IInv, TypeOK, Busy, Released, Release, Steps
<1>7. Exclusive'
  BY <1>6 DEF IInv, TypeOK, Exclusive, Busy, Release, Steps, lockable, history
<1>8. Owned'
  BY <1>6 DEF IInv, Owned, Release, lockable, history
<1>9. StillMine'
  BY DEF IInv, TypeOK, StillMine, Released, Release, Steps, Taking, Giving, lockable, history
<1> QED
  BY <1>1, <1>2, <1>4, <1>5, <1>7, <1>8, <1>9 DEF IInv

(* What a lock object that releases points to is owned, unless it is broken. *)
LEMMA ReleasedIsOwned ==
    ASSUME MutexAssumption, IInv, NEW t \in Threads, pc[t] = "release",
           Released(t) \notin broken
    PROVE  /\ ownerThread[Released(t)] = t /\ refCount[Released(t)] > 0
           /\ flag[Released(t)]
           /\ \A u \in Threads : ~Busy(u, Released(t))
<1>1. Released(t) \in Resources \ broken /\ ownerThread[Released(t)] = t
  BY DEF IInv, TypeOK, InCall, PointsToOwn, Released, Giving
<1>2. ~Busy(t, Released(t))
  BY DEF Busy
<1>3. refCount[Released(t)] > 0 /\ flag[Released(t)]
  BY <1>1, <1>2 DEF MutexAssumption, IInv, TypeOK, Owned
<1>4. \A u \in Threads : ~Busy(u, Released(t))
  BY <1>1, <1>3 DEF IInv, TypeOK, Exclusive
<1> QED
  BY <1>1, <1>3, <1>4

(* One reference less: the last one takes the Lockable to be given back.     *)
LEMMA DecrementKeeps ==
    ASSUME MutexAssumption, IInv, NEW t \in Threads, Decrement(t)
    PROVE  IInv'
<1> DEFINE l == call[t].lock
           r == Released(t)
<1>1. /\ l \in Locks /\ User[l] = t /\ r \in Resources /\ resource[l] = r
      /\ pc[t] = "release" /\ refCount[r] \in Nat /\ refCount[r] > 0
      /\ refCount' = [refCount EXCEPT ![r] = @ - 1]
      /\ flag' = flag /\ ownerThread' = ownerThread /\ leaks' = leaks
      /\ r # none
  BY DEF MutexAssumption, IInv, TypeOK, InCall, Giving, Released, Decrement
<1>2. /\ \A u \in Threads : u # t => pc'[u] = pc[u] /\ call'[u] = call[u]
      /\ \A m \in Locks : m # l => resource'[m] = resource[m]
      /\ broken \subseteq broken' /\ broken' \subseteq broken \cup {r}
  BY <1>1 DEF IInv, TypeOK, Released, Decrement, AfterRelease, Steps, Returns
<1>3. refCount[r] = 1 =>
        /\ pc'[t] = "disown" /\ call' = call /\ resource' = resource /\ broken' = broken
  BY <1>1 DEF IInv, TypeOK, Decrement, Steps
<1>4. ASSUME refCount[r] # 1, call[t].kind = "acquire"
      PROVE  /\ call' = call /\ resource' = resource /\ broken' = broken
             /\ pc'[t] = IF call[t].mine THEN "count" ELSE "spin"
  BY <1>1, <1>4 DEF IInv, TypeOK, Released, Decrement, AfterRelease, Steps
<1>5. ASSUME refCount[r] # 1, call[t].kind # "acquire"
      PROVE  /\ pc'[t] = "idle" /\ call'[t] = NoCall
             /\ call[t].kind = "release" => r \in broken'
             /\ call[t].kind = "destroy" => resource'[l] = none
             /\ resource'[l] \in {r, none}
  BY <1>1, <1>5 DEF IInv, TypeOK, Released, Decrement, AfterRelease, Steps, Returns
<1>6. TypeOK'
  <2>1. refCount' \in [Resources -> Nat] /\ broken' \subseteq Resources
    BY <1>1, <1>2 DEF IInv, TypeOK
  <2>2. resource' \in [Locks -> Resources \cup {none}]
    <3>1. \/ resource' = resource
          \/ resource' = [resource EXCEPT ![l] = none]
          \/ resource' = [resource EXCEPT ![l] = r]
      BY <1>1 DEF Decrement, AfterRelease, Released
    <3> QED
      BY <1>1, <3>1 DEF IInv, TypeOK
  <2>3. pc' \in [Threads -> Taking \cup Giving \cup {"idle", "terminated"}]
    <3>1. \E step \in {"disown", "count", "spin", "idle"} : pc' = [pc EXCEPT ![t] = step]
      BY <1>1 DEF Decrement, AfterRelease, Steps, Returns
    <3> QED
      BY <3>1 DEF IInv, TypeOK, Taking, Giving
  <2>4. call' = call \/ call' = [call EXCEPT ![t] = NoCall]
    BY <1>1 DEF Decrement, AfterRelease, Returns
  <2>5. call' \in [Threads -> [lock : Locks \cup {none}, for : Resources \cup {none},
                              kind : {"none", "acquire", "release", "destroy"},
                              mine : BOOLEAN]]
    <3>1. NoCall \in [lock : Locks \cup {none}, for : Resources \cup {none},
                      kind : {"none", "acquire", "release", "destroy"}, mine : BOOLEAN]
      BY DEF NoCall
    <3> QED
      BY <2>4, <3>1 DEF IInv, TypeOK
  <2> QED
    BY <1>1, <2>1, <2>2, <2>3, <2>5 DEF IInv, TypeOK
<1>7. InCall'
  <2>1. CASE refCount[r] = 1
    BY <1>1, <1>2, <1>3, <2>1 DEF IInv, InCall, Released, Taking, Giving
  <2>2. CASE refCount[r] # 1 /\ call[t].kind = "acquire"
    BY <1>1, <1>2, <1>4, <2>2 DEF IInv, InCall, Released, Taking, Giving
  <2>3. CASE refCount[r] # 1 /\ call[t].kind # "acquire"
    BY <1>1, <1>2, <1>5, <2>3 DEF IInv, InCall, Released, Taking, Giving, NoCall
  <2> QED
    BY <2>1, <2>2, <2>3
<1>8. \A q \in Resources \ broken' : Holders(q)' = IF q = r THEN Holders(q) \ {l} ELSE Holders(q)
  <2> SUFFICES ASSUME NEW q \in Resources \ broken', NEW m \in Locks
               PROVE  (resource[m] = q /\ ~Uncounted(m))' <=>
                        resource[m] = q /\ ~Uncounted(m) /\ (q = r => m # l)
    BY DEF Holders
  <2>1. CASE User[m] # t
    BY <1>1, <1>2, <2>1 DEF MutexAssumption, Uncounted
  <2>2. CASE User[m] = t /\ refCount[r] = 1
    BY <1>1, <1>2, <1>3, <2>2 DEF Uncounted, Taking
  <2>3. CASE User[m] = t /\ refCount[r] # 1 /\ call[t].kind = "acquire"
    BY <1>1, <1>2, <1>4, <2>3 DEF Uncounted, Taking
  <2>4. CASE User[m] = t /\ refCount[r] # 1 /\ call[t].kind # "acquire"
    <3>1. call[t].kind \in {"release", "destroy"}
      BY <1>1, <2>4 DEF IInv, TypeOK, InCall, Giving
    <3> QED
      BY <1>1, <1>2, <1>5, <2>4, <3>1 DEF MutexAssumption, Uncounted, NoCall, Taking
  <2> QED
    BY <2>1, <2>2, <2>3, <2>4
<1>9. Counted'
  <2> SUFFICES ASSUME NEW q \in Resources \ broken'
               PROVE  refCount'[q] = Cardinality(Holders(q)') + leaks'[q]
    BY DEF Counted
  <2>1. refCount[q] = Cardinality(Holders(q)) + leaks[q]
    BY <1>2 DEF IInv, Counted
  <2>2. CASE q = r
    <3>1. l \in Holders(q)
      BY <1>1, <2>2 DEF Holders, Uncounted, Taking
    <3>2. Holders(q) \subseteq Locks
      BY DEF Holders
    <3>3. Cardinality(Holders(q) \ {l}) = Cardinality(Holders(q)) - 1 /\ Cardinality(Holders(q)) \in Nat
      BY <3>1, <3>2, HoldersFinite
    <3>4. Holders(q)' = Holders(q) \ {l}
      BY <1>8, <2>2
    <3>5. refCount'[q] = refCount[q] - 1 /\ leaks'[q] = leaks[q] /\ leaks[q] \in Nat
      BY <1>1, <2>2 DEF IInv, TypeOK
    <3> QED
      BY <2>1, <3>3, <3>4, <3>5
  <2>3. CASE q # r
    BY <1>1, <1>8, <2>1, <2>3 DEF IInv, TypeOK
  <2> QED
    BY <2>2, <2>3
<1>10. \A q \in Resources \ broken', u \in Threads :
         Busy(u, q)' <=> Busy(u, q) \/ (u = t /\ q = r /\ refCount[r] = 1)
  <2> SUFFICES ASSUME NEW q \in Resources \ broken', NEW u \in Threads
               PROVE  Busy(u, q)' <=> Busy(u, q) \/ (u = t /\ q = r /\ refCount[r] = 1)
    OBVIOUS
  <2>1. CASE u # t
    <3>1. pc[u] \in {"disown", "clear"} => call[u].lock # l /\ call[u].lock \in Locks
      BY <1>1, <2>1 DEF IInv, InCall, Giving
    <3>2. pc[u] \in {"disown", "clear"} => resource'[call[u].lock] = resource[call[u].lock]
      BY <1>2, <3>1
    <3>3. pc'[u] = pc[u] /\ call'[u] = call[u]
      BY <1>2, <2>1
    <3> HIDE DEF l, r
    <3> QED
      BY <2>1, <3>2, <3>3 DEF Busy, Released
  <2>2. CASE u = t
    BY <1>1, <1>3, <1>4, <1>5, <2>2 DEF Busy, Released
  <2> QED
    BY <2>1, <2>2
<1>11. r \notin broken => /\ ownerThread[r] = t /\ flag[r]
                          /\ \A u \in Threads : ~Busy(u, r)
  BY <1>1, ReleasedIsOwned
<1>12. PointsToOwn'
  <2>1. \A q \in Resources \ broken, m \in Locks : resource[m] = q /\ User[m] = t => ownerThread[q] = t
    BY <1>1 DEF IInv, PointsToOwn
  <2> QED
    BY <1>1, <1>2, <1>3, <1>4, <1>5, <2>1 DEF MutexAssumption, IInv, PointsToOwn
<1>13. Exclusive'
  <2> SUFFICES ASSUME NEW q \in Resources \ broken', NEW u \in Threads, Busy(u, q)'
               PROVE  (/\ flag[q] /\ refCount[q] = 0
                       /\ ownerThread[q] = IF pc[u] \in {"own", "clear"} THEN none ELSE u
                       /\ \A v \in Threads : Busy(v, q) => v = u)'
    BY DEF Exclusive
  <2>1. CASE q = r
    BY <1>1, <1>2, <1>3, <1>10, <1>11, <2>1 DEF IInv, TypeOK
  <2>2. CASE q # r
    <3>1. Busy(u, q) /\ u # t
      BY <1>1, <1>10, <2>2 DEF Busy, Released
    <3> QED
      BY <1>1, <1>2, <1>10, <2>2, <3>1 DEF IInv, TypeOK, Exclusive
  <2> QED
    BY <2>1, <2>2
<1>14. Owned'
  <2> SUFFICES ASSUME NEW q \in Resources \ broken'
               PROVE  (/\ ~flag[q] => refCount[q] = 0 /\ ownerThread[q] = none
                       /\ flag[q] /\ ownerThread[q] = none => \E u \in Threads : Busy(u, q)
                       /\ \A u \in Threads : ownerThread[q] = u /\ ~Busy(u, q) => refCount[q] > 0)'
    BY DEF Owned
  <2>1. CASE q = r
    <3>1. r \notin broken
      BY <1>2, <2>1
    <3>2. /\ refCount'[q] = refCount[q] - 1 /\ refCount[q] \in Nat /\ refCount[q] > 0
          /\ flag'[q] /\ ownerThread'[q] = t
      BY <1>1, <1>11, <2>1, <3>1 DEF IInv, TypeOK
    <3>3. Busy(t, q)' <=> refCount[q] = 1
      BY <1>10, <1>11, <2>1, <3>1
    <3>4. ~Busy(t, q)' => refCount'[q] > 0
      BY <3>2, <3>3
    <3> QED
      BY <3>2, <3>4 DEF MutexAssumption
  <2>2. CASE q # r
    BY <1>1, <1>2, <1>10, <2>2 DEF IInv, TypeOK, Owned
  <2> QED
    BY <2>1, <2>2
<1>15. StillMine'
  <2> SUFFICES ASSUME NEW u \in Threads, pc'[u] \in Giving \cup {"count"},
                      call'[u].kind = "acquire", call'[u].mine
               PROVE  (/\ call[u].for # Released(u)
                       /\ call[u].for \in broken \/ ownerThread[call[u].for] = u)'
    BY DEF StillMine
  <2>1. CASE u # t
    <3>1. pc[u] \in Taking \cup Giving
      BY <1>2, <2>1 DEF Taking
    <3>2. call[u].lock # l /\ call[u].lock \in Locks
      BY <1>1, <2>1, <3>1 DEF IInv, InCall
    <3> QED
      BY <1>1, <1>2, <2>1, <3>2 DEF IInv, StillMine, Released
  <2>2. CASE u = t
    <3>1. call' = call /\ resource' = resource
      BY <1>1, <1>3, <1>4, <1>5, <2>2 DEF NoCall
    <3> QED
      BY <1>1, <1>2, <2>2, <3>1 DEF IInv, StillMine, Released, Giving
  <2> QED
    BY <2>1, <2>2
<1> QED
  BY <1>6, <1>7, <1>9, <1>12, <1>13, <1>14, <1>15 DEF IInv

(* While a thread gives a Lockable back, only its lock object points there.  *)
LEMMA GivenBack ==
    ASSUME MutexAssumption, IInv, NEW t \in Threads, pc[t] \in {"disown", "clear"},
           Released(t) \notin broken
    PROVE  \A m \in Locks : resource[m] = Released(t) => m = call[t].lock
<1> DEFINE r == Released(t)
<1>1. r \in Resources \ broken /\ Busy(t, r)
  BY DEF IInv, InCall, Giving, Busy
<1>2. /\ refCount[r] = 0 /\ flag[r] /\ \A u \in Threads : Busy(u, r) => u = t
      /\ ownerThread[r] = IF pc[t] = "clear" THEN none ELSE t
  BY <1>1 DEF IInv, Exclusive
<1>3. Cardinality(Holders(r)) = 0
  <2>1. Cardinality(Holders(r)) \in Nat
    BY HoldersFinite DEF Holders
  <2> QED
    BY <1>1, <1>2, <2>1 DEF IInv, TypeOK, Counted
<1>4. Holders(r) = {}
  BY <1>3, HoldersFinite DEF Holders
<1>5. SUFFICES ASSUME NEW m \in Locks, resource[m] = r PROVE m = call[t].lock
  OBVIOUS
<1>6. CASE User[m] = t
  BY <1>4, <1>5, <1>6 DEF Holders, Uncounted
<1>7. CASE User[m] # t
  <2>1. User[m] \in Threads
    BY DEF MutexAssumption
  <2>2. ownerThread[r] # User[m]
    BY <1>2, <1>7, <2>1 DEF MutexAssumption
  <2>3. pc[User[m]] = "clear" /\ call[User[m]].lock = m
    BY <1>1, <1>5, <2>2 DEF IInv, PointsToOwn
  <2>4. Busy(User[m], r)
    BY <1>5, <2>3 DEF Busy, Released
  <2> QED
    BY <1>2, <1>7, <2>1, <2>4
<1> QED
  BY <1>6, <1>7

(* The owner goes before the flag does.                                      *)
LEMMA DisownKeeps ==
    ASSUME MutexAssumption, IInv, NEW t \in Threads, Disown(t)
    PROVE  IInv'
<1> DEFINE r == Released(t)
<1>1. /\ pc[t] = "disown" /\ r \in Resources /\ ownerThread' = [ownerThread EXCEPT ![r] = none]
      /\ pc' = [pc EXCEPT ![t] = "clear"]
      /\ call[t].lock \in Locks /\ User[call[t].lock] = t
      /\ UNCHANGED <<flag, refCount, resource, call, leaks, broken>>
  BY DEF IInv, InCall, Giving, Disown, Steps, history
<1>2. (TypeOK /\ InCall)'
  BY <1>1 DEF IInv, TypeOK, InCall, Released, Taking, Giving
<1>3. \A q \in Resources : Holders(q)' = Holders(q)
  BY <1>1 DEF MutexAssumption, IInv, TypeOK, Holders, Uncounted, Taking
<1>4. Counted'
  BY <1>1, <1>3 DEF IInv, Counted
<1>5. r \notin broken => \A m \in Locks : resource[m] = r => m = call[t].lock
  BY <1>1, GivenBack
<1>6. PointsToOwn'
  BY <1>1, <1>5 DEF MutexAssumption, IInv, TypeOK, PointsToOwn
<1>7. \A q \in Resources, u \in Threads : Busy(u, q)' <=> Busy(u, q)
  BY <1>1 DEF IInv, TypeOK, Busy, Released
<1>8. Busy(t, r)
  BY <1>1 DEF Busy
<1>9. Exclusive'
  <2> SUFFICES ASSUME NEW q \in Resources \ broken, NEW u \in Threads, Busy(u, q)
               PROVE  /\ flag[q] /\ refCount[q] = 0
                      /\ ownerThread'[q] = IF pc'[u] \in {"own", "clear"} THEN none ELSE u
                      /\ \A v \in Threads : Busy(v, q) => v = u
    BY <1>1, <1>7 DEF Exclusive
  <2>1. /\ flag[q] /\ refCount[q] = 0 /\ \A v \in Threads : Busy(v, q) => v = u
        /\ ownerThread[q] = IF pc[u] \in {"own", "clear"} THEN none ELSE u
    BY DEF IInv, Exclusive
  <2>2. u = t <=> q = r
    BY <1>1, <1>8, <2>1 DEF Busy
  <2> QED
    BY <1>1, <2>1, <2>2 DEF IInv, TypeOK
<1>10. Owned'
  BY <1>1, <1>7, <1>8 DEF MutexAssumption, IInv, TypeOK, Owned
<1>11. StillMine'
  <2>1. r \notin broken => ownerThread[r] = t
    BY <1>1, <1>8 DEF IInv, Exclusive
  <2>2. pc'[t] \in Giving /\ pc[t] \in Giving
        /\ \A u \in Threads : u # t => pc'[u] = pc[u]
    BY <1>1 DEF IInv, TypeOK, Giving
  <2>3. \A u \in Threads : call[u].kind = "acquire" => call[u].for \in Resources
    BY DEF IInv, InCall
  <2> QED
    BY <1>1, <2>1, <2>2, <2>3 DEF IInv, TypeOK, StillMine, Released
<1> QED
  BY <1>2, <1>4, <1>6, <1>9, <1>10, <1>11 DEF IInv

(* The flag is cleared when nothing points to the Lockable any more.         *)
LEMMA ClearKeeps ==
    ASSUME MutexAssumption, IInv, NEW t \in Threads, Clear(t)
    PROVE  IInv'
<1> DEFINE l == call[t].lock
           r == Released(t)
<1>1. /\ pc[t] = "clear" /\ r \in Resources /\ flag' = [flag EXCEPT ![r] = FALSE]
      /\ l \in Locks /\ User[l] = t /\ resource[l] = r /\ r # none
      /\ resource' = [resource EXCEPT ![l] = none]
      /\ UNCHANGED <<ownerThread, refCount, leaks, broken>>
  BY DEF MutexAssumption, IInv, InCall, Giving, Clear, AfterRelease, Released, history
<1>2. \E step \in {"count", "spin", "idle"} : pc' = [pc EXCEPT ![t] = step]
  BY <1>1 DEF Clear, AfterRelease, Steps, Returns
<1>3. \/ /\ call[t].kind = "acquire" /\ call' = call
         /\ pc'[t] = IF call[t].mine THEN "count" ELSE "spin"
      \/ /\ call[t].kind # "acquire" /\ call' = [call EXCEPT ![t] = NoCall]
         /\ pc'[t] = "idle"
  BY <1>1 DEF IInv, TypeOK, Clear, AfterRelease, Steps, Returns
<1>4. TypeOK'
  <2>1. NoCall \in [lock : Locks \cup {none}, for : Resources \cup {none},
                    kind : {"none", "acquire", "release", "destroy"}, mine : BOOLEAN]
    BY DEF NoCall
  <2>2. call' \in [Threads -> [lock : Locks \cup {none}, for : Resources \cup {none},
                              kind : {"none", "acquire", "release", "destroy"},
                              mine : BOOLEAN]]
    <3>1. call' = call \/ call' = [call EXCEPT ![t] = NoCall]
      BY <1>3
    <3> QED
      BY <2>1, <3>1 DEF IInv, TypeOK
  <2>3. pc' \in [Threads -> Taking \cup Giving \cup {"idle", "terminated"}]
    BY <1>2 DEF IInv, TypeOK, Taking, Giving
  <2>4. /\ flag' \in [Resources -> BOOLEAN]
        /\ resource' \in [Locks -> Resources \cup {none}]
    BY <1>1 DEF IInv, TypeOK
  <2> QED
    BY <1>1, <2>2, <2>3, <2>4 DEF IInv, TypeOK
<1>5. /\ \A u \in Threads : u # t => pc'[u] = pc[u] /\ call'[u] = call[u]
      /\ \A m \in Locks : m # l => resource'[m] = resource[m]
      /\ resource'[l] = none
  BY <1>1, <1>2, <1>3 DEF IInv, TypeOK
<1>6. InCall'
  <2>1. CASE call[t].kind = "acquire"
    BY <1>1, <1>3, <1>5, <2>1 DEF IInv, InCall, Released, Taking, Giving
  <2>2. CASE call[t].kind # "acquire"
    <3>1. call'[t] = NoCall /\ pc'[t] = "idle"
      BY <1>3, <2>2 DEF IInv, TypeOK
    <3> QED
      BY <1>1, <1>5, <3>1 DEF IInv, InCall, Released, Taking, Giving, NoCall
  <2> QED
    BY <2>1, <2>2
<1>7. \A q \in Resources : Holders(q)' = Holders(q)
  <2> SUFFICES ASSUME NEW q \in Resources, NEW m \in Locks
               PROVE  (resource[m] = q /\ ~Uncounted(m))' <=> resource[m] = q /\ ~Uncounted(m)
    BY DEF Holders
  <2>1. CASE User[m] # t
    BY <1>1, <1>5, <2>1 DEF MutexAssumption, Uncounted
  <2>2. CASE m = l
    BY <1>1, <1>5, <2>2 DEF MutexAssumption, Uncounted
  <2>3. CASE User[m] = t /\ m # l
    <3>1. call'[t].lock \in {l, none} /\ m # none
      BY <1>3 DEF MutexAssumption, IInv, TypeOK, NoCall
    <3> QED
      BY <1>5, <2>3, <3>1 DEF Uncounted
  <2> QED
    BY <2>1, <2>2, <2>3
<1>8. Counted'
  BY <1>1, <1>7 DEF IInv, Counted
<1>9. r \notin broken => \A m \in Locks : resource[m] = r => m = l
  BY <1>1, GivenBack
<1>10. PointsToOwn'
  <2>1. \A q \in Resources \ broken, m \in Locks : resource[m] = q /\ User[m] = t /\ m # l => ownerThread[q] = t
    BY DEF IInv, PointsToOwn
  <2> QED
    BY <1>1, <1>5, <2>1 DEF MutexAssumption, IInv, PointsToOwn
<1>11. \A q \in Resources, u \in Threads : Busy(u, q)' <=> Busy(u, q) /\ u # t
  <2> SUFFICES ASSUME NEW q \in Resources, NEW u \in Threads
               PROVE  Busy(u, q)' <=> Busy(u, q) /\ u # t
    OBVIOUS
  <2>1. CASE u # t
    <3>1. pc[u] \in {"disown", "clear"} => call[u].lock # l /\ call[u].lock \in Locks
      BY <1>1, <2>1 DEF IInv, InCall, Giving
    <3>2. pc[u] \in {"disown", "clear"} => resource'[call[u].lock] = resource[call[u].lock]
      BY <1>5, <3>1
    <3> QED
      BY <1>5, <2>1, <3>2 DEF Busy, Released
  <2>2. CASE u = t
    BY <1>1, <1>3, <2>2 DEF Busy
  <2> QED
    BY <2>1, <2>2
<1>12. r \notin broken => /\ ownerThread[r] = none /\ refCount[r] = 0
                          /\ \A u \in Threads : Busy(u, r) => u = t
  <2>1. Busy(t, r)
    BY <1>1 DEF Busy
  <2> QED
    BY <1>1, <2>1 DEF IInv, Exclusive
<1>13. Exclusive'
  <2> SUFFICES ASSUME NEW q \in Resources \ broken, NEW u \in Threads, Busy(u, q)'
               PROVE  (/\ flag[q] /\ refCount[q] = 0
                       /\ ownerThread[q] = IF pc[u] \in {"own", "clear"} THEN none ELSE u
                       /\ \A v \in Threads : Busy(v, q) => v = u)'
    BY <1>1 DEF Exclusive
  <2>1. Busy(u, q) /\ u # t /\ q # r
    BY <1>11, <1>12
  <2> QED
    BY <1>1, <1>5, <1>11, <2>1 DEF IInv, TypeOK, Exclusive
<1>14. Owned'
  <2> SUFFICES ASSUME NEW q \in Resources \ broken
               PROVE  (/\ ~flag[q] => refCount[q] = 0 /\ ownerThread[q] = none
                       /\ flag[q] /\ ownerThread[q] = none => \E u \in Threads : Busy(u, q)
                       /\ \A u \in Threads : ownerThread[q] = u /\ ~Busy(u, q) => refCount[q] > 0)'
    BY <1>1 DEF Owned
  <2>1. CASE q = r
    BY <1>1, <1>12, <2>1 DEF MutexAssumption, IInv, TypeOK
  <2>2. CASE q # r
    <3>1. ~Busy(t, q)
      BY <1>1, <2>2 DEF Busy
    <3> QED
      BY <1>1, <1>11, <2>2, <3>1 DEF IInv, TypeOK, Owned
  <2> QED
    BY <2>1, <2>2
<1>15. StillMine'
  <2> SUFFICES ASSUME NEW u \in Threads, pc'[u] \in Giving \cup {"count"},
                      call'[u].kind = "acquire", call'[u].mine
               PROVE  (/\ call[u].for # Released(u)
                       /\ call[u].for \in broken \/ ownerThread[call[u].for] = u)'
    BY DEF StillMine
  <2>1. CASE u # t
    <3>1. call[u].lock # l /\ call[u].lock \in Locks
      BY <1>1, <1>5, <2>1 DEF IInv, InCall, Taking
    <3> QED
      BY <1>1, <1>5, <2>1, <3>1 DEF IInv, StillMine, Released
  <2>2. CASE u = t
    <3>1. call' = call /\ call[t].for \in Resources
      BY <1>3, <2>2 DEF IInv, TypeOK, InCall, NoCall
    <3> QED
      BY <1>1, <1>5, <2>2, <3>1 DEF MutexAssumption, IInv, StillMine, Released, Giving
  <2> QED
    BY <2>1, <2>2
<1> QED
  BY <1>4, <1>6, <1>8, <1>10, <1>13, <1>14, <1>15 DEF IInv

(* A flag that is found cleared belongs to nobody.                           *)
LEMMA TestAndSetKeeps ==
    ASSUME MutexAssumption, IInv, NEW t \in Threads, TestAndSet(t)
    PROVE  IInv'
<1> DEFINE r == call[t].for
<1>1. /\ pc[t] = "spin" /\ ~flag[r] /\ r \in Resources
      /\ flag' = [flag EXCEPT ![r] = TRUE] /\ pc' = [pc EXCEPT ![t] = "own"]
      /\ UNCHANGED <<ownerThread, refCount, resource, call, leaks, broken>>
  BY DEF IInv, InCall, Taking, TestAndSet, Steps, history
<1>2. (TypeOK /\ InCall)'
  BY <1>1 DEF IInv, TypeOK, InCall, Released, Taking, Giving
<1>3. \A q \in Resources : Holders(q)' = Holders(q)
  BY <1>1 DEF MutexAssumption, IInv, TypeOK, Holders, Uncounted, Taking
<1>4. Counted'
  BY <1>1, <1>3 DEF IInv, Counted
<1>5. PointsToOwn'
  BY <1>1 DEF MutexAssumption, IInv, TypeOK, PointsToOwn
<1>6. \A q \in Resources, u \in Threads : Busy(u, q)' <=> Busy(u, q) \/ (u = t /\ q = r)
  BY <1>1 DEF IInv, TypeOK, Busy, Released
<1>7. r \notin broken => /\ refCount[r] = 0 /\ ownerThread[r] = none
                         /\ \A u \in Threads : ~Busy(u, r)
  BY <1>1 DEF IInv, Owned, Exclusive
<1>8. Exclusive'
  <2> SUFFICES ASSUME NEW q \in Resources \ broken, NEW u \in Threads, Busy(u, q)'
               PROVE  /\ flag'[q] /\ refCount[q] = 0
                      /\ ownerThread[q] = IF pc'[u] \in {"own", "clear"} THEN none ELSE u
                      /\ \A v \in Threads : Busy(v, q)' => v = u
    BY <1>1 DEF Exclusive
  <2>1. CASE q = r
    BY <1>1, <1>6, <1>7, <2>1 DEF IInv, TypeOK
  <2>2. CASE q # r
    <3>1. Busy(u, q) /\ u # t
      BY <1>1, <1>6, <2>2 DEF Busy
    <3> QED
      BY <1>1, <1>6, <2>2, <3>1 DEF IInv, TypeOK, Exclusive
  <2> QED
    BY <2>1, <2>2
<1>9. Owned'
  <2> SUFFICES ASSUME NEW q \in Resources \ broken
               PROVE  /\ ~flag'[q] => refCount[q] = 0 /\ ownerThread[q] = none
                      /\ flag'[q] /\ ownerThread[q] = none => \E u \in Threads : Busy(u, q)'
                      /\ \A u \in Threads : ownerThread[q] = u /\ ~Busy(u, q)' => refCount[q] > 0
    BY <1>1 DEF Owned
  <2>1. CASE q = r
    BY <1>1, <1>6, <1>7, <2>1 DEF MutexAssumption, IInv, TypeOK
  <2>2. CASE q # r
    BY <1>1, <1>6, <2>2 DEF IInv, TypeOK, Owned
  <2> QED
    BY <2>1, <2>2
<1>10. StillMine'
  BY <1>1 DEF IInv, TypeOK, StillMine, Released, Giving
<1> QED
  BY <1>2, <1>4, <1>5, <1>8, <1>9, <1>10 DEF IInv

(* What the user breaks is left to no claim.                                 *)
LEMMA ContinueKeeps ==
    ASSUME MutexAssumption, IInv, NEW t \in Threads, Continue(t)
    PROVE  IInv'
<1> DEFINE r == call[t].for
<1>1. /\ r \in Resources /\ flag' = [flag EXCEPT ![r] = FALSE] /\ broken' = broken \cup {r}
      /\ UNCHANGED <<ownerThread, refCount, resource, pc, call, leaks>>
  BY DEF IInv, InCall, Taking, Continue
<1>2. (TypeOK /\ InCall)'
  BY <1>1 DEF IInv, TypeOK, InCall, Released
<1>3. \A q \in Resources : Holders(q)' = Holders(q)
  BY <1>1 DEF Holders, Uncounted
<1>4. \A q \in Resources, u \in Threads : Busy(u, q)' <=> Busy(u, q)
  BY <1>1 DEF Busy, Released
<1>5. (Counted /\ PointsToOwn /\ StillMine)'
  BY <1>1, <1>3 DEF IInv, Counted, PointsToOwn, StillMine, Released
<1>6. \A q \in Resources \ broken' : q \in Resources \ broken /\ flag'[q] = flag[q]
  BY <1>1 DEF IInv, TypeOK
<1>7. Exclusive'
  BY <1>1, <1>4, <1>6 DEF IInv, Exclusive
<1>8. Owned'
  BY <1>1, <1>4, <1>6 DEF IInv, Owned
<1> QED
  BY <1>2, <1>5, <1>7, <1>8 DEF IInv

(* The flag is this thread's, so nothing points to the Lockable.             *)
LEMMA OwnKeeps ==
    ASSUME MutexAssumption, IInv, NEW t \in Threads, Own(t)
    PROVE  IInv'
<1> DEFINE r == call[t].for
<1>1. /\ pc[t] = "own" /\ r \in Resources
      /\ ownerThread' = [ownerThread EXCEPT ![r] = t] /\ pc' = [pc EXCEPT ![t] = "check"]
      /\ UNCHANGED <<flag, refCount, resource, call, leaks, broken>>
  BY DEF IInv, InCall, Taking, Own, Steps, history
<1>2. (TypeOK /\ InCall)'
  BY <1>1 DEF IInv, TypeOK, InCall, Released, Taking, Giving
<1>3. \A q \in Resources : Holders(q)' = Holders(q)
  BY <1>1 DEF MutexAssumption, IInv, TypeOK, Holders, Uncounted, Taking
<1>4. Counted'
  BY <1>1, <1>3 DEF IInv, Counted
<1>5. \A q \in Resources, u \in Threads : Busy(u, q)' <=> Busy(u, q)
  BY <1>1 DEF IInv, TypeOK, Busy, Released
<1>6. Busy(t, r)
  BY <1>1 DEF Busy
<1>7. r \notin broken => /\ flag[r] /\ refCount[r] = 0 /\ ownerThread[r] = none
                         /\ \A u \in Threads : Busy(u, r) => u = t
  BY <1>1, <1>6 DEF IInv, Exclusive
<1>8. r \notin broken => \A m \in Locks : resource[m] # r
  <2> SUFFICES ASSUME r \notin broken, NEW m \in Locks, resource[m] = r PROVE FALSE
    OBVIOUS
  <2>1. User[m] \in Threads /\ ownerThread[r] # User[m]
    BY <1>7 DEF MutexAssumption
  <2>2. pc[User[m]] = "clear" /\ call[User[m]].lock = m
    BY <1>1, <2>1 DEF IInv, PointsToOwn
  <2>3. Busy(User[m], r)
    BY <2>2 DEF Busy, Released
  <2> QED
    BY <1>1, <1>7, <2>1, <2>2, <2>3
<1>9. PointsToOwn'
  BY <1>1, <1>8 DEF MutexAssumption, IInv, TypeOK, PointsToOwn
<1>10. Exclusive'
  <2> SUFFICES ASSUME NEW q \in Resources \ broken, NEW u \in Threads, Busy(u, q)
               PROVE  /\ flag[q] /\ refCount[q] = 0
                      /\ ownerThread'[q] = IF pc'[u] \in {"own", "clear"} THEN none ELSE u
                      /\ \A v \in Threads : Busy(v, q) => v = u
    BY <1>1, <1>5 DEF Exclusive
  <2>1. /\ flag[q] /\ refCount[q] = 0 /\ \A v \in Threads : Busy(v, q) => v = u
        /\ ownerThread[q] = IF pc[u] \in {"own", "clear"} THEN none ELSE u
    BY DEF IInv, Exclusive
  <2>2. u = t <=> q = r
    BY <1>1, <1>6, <2>1 DEF Busy
  <2> QED
    BY <1>1, <2>1, <2>2 DEF IInv, TypeOK
<1>11. Owned'
  <2> SUFFICES ASSUME NEW q \in Resources \ broken
               PROVE  /\ ~flag[q] => refCount[q] = 0 /\ ownerThread'[q] = none
                      /\ flag[q] /\ ownerThread'[q] = none => \E u \in Threads : Busy(u, q)
                      /\ \A u \in Threads : ownerThread'[q] = u /\ ~Busy(u, q) => refCount[q] > 0
    BY <1>1, <1>5 DEF Owned
  <2>1. CASE q = r
    BY <1>1, <1>6, <1>7, <2>1 DEF MutexAssumption, IInv, TypeOK
  <2>2. CASE q # r
    BY <1>1, <2>2 DEF IInv, TypeOK, Owned
  <2> QED
    BY <2>1, <2>2
<1>12. StillMine'
  <2>1. \A u \in Threads : pc'[u] \in Giving \cup {"count"} => u # t /\ pc[u] = pc'[u]
    BY <1>1 DEF IInv, TypeOK, Giving
  <2>2. \A u \in Threads : call[u].for = r /\ ownerThread[r] = u => r \in broken
    BY <1>7 DEF MutexAssumption
  <2>3. \A u \in Threads : call[u].kind = "acquire" => call[u].for \in Resources
    BY DEF IInv, InCall
  <2> QED
    BY <1>1, <2>1, <2>2, <2>3 DEF IInv, TypeOK, StillMine, Released
<1> QED
  BY <1>2, <1>4, <1>9, <1>10, <1>11, <1>12 DEF IInv

(* The lock object that is counted points to what its thread owns.           *)
LEMMA CountKeeps ==
    ASSUME MutexAssumption, IInv, NEW t \in Threads, Count(t)
    PROVE  IInv'
<1> DEFINE l == call[t].lock
           r == call[t].for
<1>1. /\ pc[t] \in {"count", "check"} /\ r \in Resources /\ r # none
      /\ l \in Locks /\ User[l] = t
      /\ pc[t] = "count" => call[t].kind = "acquire" /\ call[t].mine
      /\ refCount' = [refCount EXCEPT ![r] = @ + 1]
      /\ resource' = [resource EXCEPT ![l] = r]
      /\ pc' = [pc EXCEPT ![t] = "idle"] /\ call' = [call EXCEPT ![t] = NoCall]
      /\ UNCHANGED <<flag, ownerThread, leaks, broken>>
  BY DEF MutexAssumption, IInv, InCall, Taking, Count, Steps, Returns, history
<1>2. TypeOK'
  <2>1. NoCall \in [lock : Locks \cup {none}, for : Resources \cup {none},
                    kind : {"none", "acquire", "release", "destroy"}, mine : BOOLEAN]
    BY DEF NoCall
  <2>2. call' \in [Threads -> [lock : Locks \cup {none}, for : Resources \cup {none},
                              kind : {"none", "acquire", "release", "destroy"},
                              mine : BOOLEAN]]
    BY <1>1, <2>1 DEF IInv, TypeOK
  <2>3. /\ refCount' \in [Resources -> Nat]
        /\ resource' \in [Locks -> Resources \cup {none}]
    BY <1>1 DEF IInv, TypeOK
  <2>4. pc' \in [Threads -> Taking \cup Giving \cup {"idle", "terminated"}]
    BY <1>1 DEF IInv, TypeOK
  <2> QED
    BY <1>1, <2>2, <2>3, <2>4 DEF IInv, TypeOK
<1>3. /\ \A u \in Threads : u # t => pc'[u] = pc[u] /\ call'[u] = call[u]
      /\ \A m \in Locks : m # l => resource'[m] = resource[m]
      /\ resource'[l] = r /\ pc'[t] = "idle" /\ call'[t] = NoCall
  BY <1>1 DEF IInv, TypeOK
<1>4. InCall'
  BY <1>1, <1>3 DEF IInv, InCall, Released, Taking, Giving, NoCall
<1>5. \A q \in Resources : Holders(q)' = IF q = r THEN Holders(q) \cup {l} ELSE Holders(q)
  <2> SUFFICES ASSUME NEW q \in Resources, NEW m \in Locks
               PROVE  (resource[m] = q /\ ~Uncounted(m))' <=>
                        (resource[m] = q /\ ~Uncounted(m)) \/ (q = r /\ m = l)
    BY <1>1 DEF Holders
  <2>1. CASE User[m] # t
    BY <1>1, <1>3, <2>1 DEF MutexAssumption, Uncounted
  <2>2. CASE m = l
    BY <1>1, <1>3, <2>2 DEF Uncounted, Taking
  <2>3. CASE User[m] = t /\ m # l
    <3>1. call'[t].lock # m
      BY <1>3 DEF MutexAssumption, NoCall
    <3> QED
      BY <1>3, <2>3, <3>1 DEF Uncounted
  <2> QED
    BY <2>1, <2>2, <2>3
<1>6. Counted'
  <2> SUFFICES ASSUME NEW q \in Resources \ broken
               PROVE  refCount'[q] = Cardinality(Holders(q)') + leaks[q]
    BY <1>1 DEF Counted
  <2>1. refCount[q] = Cardinality(Holders(q)) + leaks[q]
    BY DEF IInv, Counted
  <2>2. CASE q = r
    <3>1. l \in Locks \ Holders(q) /\ Holders(q) \subseteq Locks
      BY <1>1 DEF Holders, Uncounted, Taking
    <3>2. Cardinality(Holders(q) \cup {l}) = Cardinality(Holders(q)) + 1 /\ Cardinality(Holders(q)) \in Nat
      BY <3>1, HoldersFinite
    <3>3. Holders(q)' = Holders(q) \cup {l}
      BY <1>5, <2>2
    <3>4. refCount'[q] = refCount[q] + 1 /\ leaks[q] \in Nat
      BY <1>1, <2>2 DEF IInv, TypeOK
    <3> QED
      BY <2>1, <3>2, <3>3, <3>4
  <2>3. CASE q # r
    BY <1>1, <1>5, <2>1, <2>3 DEF IInv, TypeOK
  <2> QED
    BY <2>2, <2>3
<1>7. \A q \in Resources, u \in Threads : Busy(u, q)' <=> Busy(u, q) /\ u # t
  <2> SUFFICES ASSUME NEW q \in Resources, NEW u \in Threads
               PROVE  Busy(u, q)' <=> Busy(u, q) /\ u # t
    OBVIOUS
  <2>1. CASE u # t
    <3>1. pc[u] \in {"disown", "clear"} => call[u].lock # l /\ call[u].lock \in Locks
      BY <1>1, <2>1 DEF IInv, InCall, Giving
    <3>2. pc[u] \in {"disown", "clear"} => resource'[call[u].lock] = resource[call[u].lock]
      BY <1>3, <3>1
    <3> QED
      BY <1>3, <2>1, <3>2 DEF Busy, Released
  <2>2. CASE u = t
    BY <1>3, <2>2 DEF Busy
  <2> QED
    BY <2>1, <2>2
<1>8. r \notin broken => ownerThread[r] = t /\ flag[r] /\ \A u \in Threads : Busy(u, r) => u = t
  <2>1. ASSUME r \notin broken, pc[t] = "check"
        PROVE  ownerThread[r] = t /\ flag[r] /\ \A u \in Threads : Busy(u, r) => u = t
    <3>1. Busy(t, r)
      BY <2>1 DEF Busy
    <3> QED
      BY <1>1, <2>1, <3>1 DEF IInv, Exclusive
  <2>2. ASSUME r \notin broken, pc[t] = "count"
        PROVE  ownerThread[r] = t /\ flag[r] /\ \A u \in Threads : Busy(u, r) => u = t
    <3>1. ownerThread[r] = t
      BY <1>1, <2>2 DEF IInv, StillMine
    <3>2. flag[r]
      BY <1>1, <2>2, <3>1 DEF MutexAssumption, IInv, Owned
    <3> QED
      BY <1>1, <2>2, <3>1, <3>2 DEF MutexAssumption, IInv, Exclusive
  <2> QED
    BY <1>1, <2>1, <2>2
<1>9. PointsToOwn'
  <2>1. \A q \in Resources \ broken, m \in Locks : resource[m] = q /\ User[m] = t => ownerThread[q] = t
    BY <1>1 DEF IInv, PointsToOwn
  <2> QED
    BY <1>1, <1>3, <1>8, <2>1 DEF MutexAssumption, IInv, PointsToOwn
<1>10. Exclusive'
  <2> SUFFICES ASSUME NEW q \in Resources \ broken, NEW u \in Threads, Busy(u, q)'
               PROVE  /\ flag[q] /\ refCount'[q] = 0
                      /\ ownerThread[q] = IF pc'[u] \in {"own", "clear"} THEN none ELSE u
                      /\ \A v \in Threads : Busy(v, q)' => v = u
    BY <1>1 DEF Exclusive
  <2>1. Busy(u, q) /\ u # t /\ q # r
    BY <1>7, <1>8
  <2> QED
    BY <1>1, <1>3, <1>7, <2>1 DEF IInv, TypeOK, Exclusive
<1>11. Owned'
  <2> SUFFICES ASSUME NEW q \in Resources \ broken
               PROVE  /\ ~flag[q] => refCount'[q] = 0 /\ ownerThread[q] = none
                      /\ flag[q] /\ ownerThread[q] = none => \E u \in Threads : Busy(u, q)'
                      /\ \A u \in Threads : ownerThread[q] = u /\ ~Busy(u, q)' => refCount'[q] > 0
    BY <1>1 DEF Owned
  <2>1. CASE q = r
    BY <1>1, <1>8, <2>1 DEF MutexAssumption, IInv, TypeOK
  <2>2. CASE q # r
    <3>1. ~Busy(t, q)
      BY <1>1, <2>2 DEF Busy
    <3> QED
      BY <1>1, <1>7, <2>2, <3>1 DEF IInv, TypeOK, Owned
  <2> QED
    BY <2>1, <2>2
<1>12. StillMine'
  <2> SUFFICES ASSUME NEW u \in Threads, pc'[u] \in Giving \cup {"count"},
                      call'[u].kind = "acquire", call'[u].mine
               PROVE  (/\ call[u].for # Released(u)
                       /\ call[u].for \in broken \/ ownerThread[call[u].for] = u)'
    BY DEF StillMine
  <2>1. u # t
    BY <1>3 DEF Giving
  <2>2. call[u].lock # l /\ call[u].lock \in Locks
    BY <1>1, <1>3, <2>1 DEF IInv, InCall, Taking
  <2> QED
    BY <1>1, <1>3, <2>1, <2>2 DEF IInv, StillMine, Released
<1> QED
  BY <1>2, <1>4, <1>6, <1>9, <1>10, <1>11, <1>12 DEF IInv

(* An exception is thrown over a broken Lockable only.                       *)
LEMMA ThrowsOnBroken ==
    ASSUME MutexAssumption, IInv, NEW t \in Threads
    PROVE  /\ ReleaseThrows(t) => Released(t) \in broken
           /\ AcquireThrows(t) => call[t].for \in broken
<1>1. ReleaseThrows(t) => Released(t) \in broken
  BY ReleasedIsOwned DEF ReleaseThrows
<1>2. ASSUME AcquireThrows(t) PROVE call[t].for \in broken
  <2>1. Busy(t, call[t].for) /\ call[t].for \in Resources
    BY <1>2 DEF IInv, InCall, Taking, Busy, AcquireThrows
  <2> QED
    BY <1>2, <2>1 DEF IInv, Exclusive, AcquireThrows
<1> QED
  BY <1>1, <1>2

(* What the lock object of a call that throws points to is broken then.      *)
LEMMA ThrowKeeps ==
    ASSUME MutexAssumption, IInv, NEW t \in Threads, Throw(t)
    PROVE  IInv'
<1> DEFINE l == call[t].lock
<1>1. /\ pc[t] \in {"release", "check"} /\ l \in Locks /\ User[l] = t
      /\ pc[t] = "check" => call[t].for \in broken
      /\ broken' = broken \cup ({resource[l]} \ {none})
      /\ call' = [call EXCEPT ![t] = NoCall]
      /\ UNCHANGED <<flag, ownerThread, refCount, resource, leaks>>
  BY ThrowsOnBroken
     DEF IInv, InCall, Taking, Giving, Throw, ReleaseThrows, AcquireThrows, Returns, Released, lockable
<1>2. \E step \in {"terminated", "idle"} : pc' = [pc EXCEPT ![t] = step]
  BY DEF Throw, Returns, Steps
<1>3. TypeOK'
  <2>1. NoCall \in [lock : Locks \cup {none}, for : Resources \cup {none},
                    kind : {"none", "acquire", "release", "destroy"}, mine : BOOLEAN]
    BY DEF NoCall
  <2>2. call' \in [Threads -> [lock : Locks \cup {none}, for : Resources \cup {none},
                              kind : {"none", "acquire", "release", "destroy"},
                              mine : BOOLEAN]]
    BY <1>1, <2>1 DEF IInv, TypeOK
  <2>3. pc' \in [Threads -> Taking \cup Giving \cup {"idle", "terminated"}]
    BY <1>2 DEF IInv, TypeOK
  <2> QED
    BY <1>1, <2>2, <2>3 DEF IInv, TypeOK
<1>4. /\ \A u \in Threads : u # t => pc'[u] = pc[u] /\ call'[u] = call[u]
      /\ pc'[t] \in {"terminated", "idle"} /\ call'[t] = NoCall
  BY <1>1, <1>2 DEF IInv, TypeOK
<1>5. \A q \in Resources \ broken' : q \in Resources \ broken /\ resource[l] # q
  BY <1>1 DEF MutexAssumption
<1>6. InCall'
  BY <1>1, <1>4 DEF IInv, InCall, Released, Taking, Giving, NoCall
<1>7. \A q \in Resources \ broken' : Holders(q)' = Holders(q)
  <2> SUFFICES ASSUME NEW q \in Resources \ broken', NEW m \in Locks, resource[m] = q
               PROVE  Uncounted(m)' <=> Uncounted(m)
    BY <1>1 DEF Holders
  <2>1. m # l
    BY <1>5
  <2>2. call'[t].lock # m
    BY <1>4 DEF MutexAssumption, NoCall
  <2> QED
    BY <1>4, <2>1, <2>2 DEF MutexAssumption, Uncounted
<1>8. Counted'
  BY <1>1, <1>5, <1>7 DEF IInv, Counted
<1>9. PointsToOwn'
  BY <1>1, <1>4, <1>5 DEF MutexAssumption, IInv, PointsToOwn
<1>10. \A q \in Resources \ broken', u \in Threads : Busy(u, q)' <=> Busy(u, q)
  BY <1>1, <1>4, <1>5 DEF Busy, Released
<1>11. Exclusive'
  <2>1. \A q \in Resources \ broken' : ~Busy(t, q)
    BY <1>1, <1>5 DEF Busy
  <2> QED
    BY <1>1, <1>4, <1>5, <1>10, <2>1 DEF IInv, Exclusive
<1>12. Owned'
  BY <1>1, <1>5, <1>10 DEF IInv, Owned
<1>13. StillMine'
  BY <1>1, <1>4 DEF IInv, StillMine, Released, Giving
<1> QED
  BY <1>3, <1>6, <1>8, <1>9, <1>11, <1>12, <1>13 DEF IInv

(* Lock objects of one thread exchange what it owns, or lose a reference.    *)
LEMMA MoveKeeps ==
    ASSUME MutexAssumption, IInv, NEW t \in Threads, NEW l \in Locks, NEW m \in Locks,
           Move(t, l, m)
    PROVE  IInv'
<1>1. /\ pc[t] = "idle" /\ User[l] = t /\ User[m] = t
      /\ resource' = [resource EXCEPT ![l] = resource[m], ![m] = none]
      /\ UNCHANGED <<flag, ownerThread, refCount, pc, call, broken>>
  BY DEF Move, lockable
<1>2. /\ leaks' \in [Resources -> Nat]
      /\ \A q \in Resources : leaks'[q] = IF q = resource[l] THEN leaks[q] + 1 ELSE leaks[q]
  <2>1. CASE resource[l] = none
    BY <2>1 DEF MutexAssumption, IInv, TypeOK, Move
  <2>2. CASE resource[l] # none
    <3>1. leaks' = [leaks EXCEPT ![resource[l]] = @ + 1] /\ resource[l] \in Resources
      BY <2>2 DEF IInv, TypeOK, Move
    <3> QED
      BY <3>1 DEF IInv, TypeOK
  <2> QED
    BY <2>1, <2>2
<1>3. \A k \in Locks :
        resource'[k] = IF k = m THEN none ELSE IF k = l THEN resource[m] ELSE resource[k]
  BY <1>1 DEF IInv, TypeOK
<1>4. TypeOK'
  <2>1. resource' \in [Locks -> Resources \cup {none}]
    BY <1>1 DEF IInv, TypeOK
  <2> QED
    BY <1>1, <1>2, <2>1 DEF IInv, TypeOK
<1>5. \A u \in Threads : pc[u] \in Taking \cup Giving =>
        u # t /\ call[u].lock \in Locks /\ resource'[call[u].lock] = resource[call[u].lock]
  <2>1. \A u \in Threads : pc[u] \in Taking \cup Giving =>
          u # t /\ call[u].lock \in Locks /\ User[call[u].lock] = u
    BY <1>1 DEF IInv, InCall, Taking, Giving
  <2>2. User[l] = t /\ User[m] = t
    BY <1>1
  <2>3. ASSUME NEW u \in Threads, pc[u] \in Taking \cup Giving
        PROVE  u # t /\ call[u].lock \in Locks /\ resource'[call[u].lock] = resource[call[u].lock]
    <3>1. u # t /\ call[u].lock \in Locks /\ call[u].lock # l /\ call[u].lock # m
      BY <2>1, <2>2, <2>3
    <3> QED
      BY <1>3, <3>1
  <2> QED
    BY <2>3
<1>6. InCall'
  <2>1. \A u \in Threads : pc[u] \in Giving => Released(u)' = Released(u)
    BY <1>1, <1>5 DEF Released
  <2> QED
    BY <1>1, <2>1 DEF IInv, InCall
<1>7. \A k \in Locks : Uncounted(k)' = Uncounted(k) /\ (User[k] = t => ~Uncounted(k))
  BY <1>1 DEF Uncounted, Taking
<1>8. Counted'
  <2> SUFFICES ASSUME NEW q \in Resources \ broken
               PROVE  refCount[q] = Cardinality(Holders(q)') + leaks'[q]
    BY <1>1 DEF Counted
  <2>1. /\ refCount[q] = Cardinality(Holders(q)) + leaks[q] /\ leaks[q] \in Nat
        /\ q # none
    BY DEF MutexAssumption, IInv, TypeOK, Counted
  <2>2. /\ Holders(q) \subseteq Locks
        /\ l \in Holders(q) <=> resource[l] = q
        /\ m \in Holders(q) <=> resource[m] = q
    BY <1>1, <1>7 DEF Holders
  <2>3. \A k \in Locks : k \in Holders(q)' <=> resource'[k] = q /\ ~Uncounted(k)
    BY <1>7 DEF Holders
  <2>4. CASE resource[l] = q /\ resource[m] = q
    <3>1. Holders(q)' = Holders(q) \ {m}
      <4>1. l # m => l \in Holders(q) /\ l \in Holders(q)'
        BY <1>1, <1>3, <1>7, <2>1, <2>2, <2>3, <2>4
      <4>2. ASSUME NEW k \in Locks
            PROVE  k \in Holders(q)' <=> k \in Holders(q) \ {m}
        <5>1. CASE k = l \/ k = m
          BY <1>3, <2>1, <2>3, <4>1, <5>1
        <5>2. CASE k # l /\ k # m
          <6>1. resource'[k] = resource[k]
            BY <1>3, <5>2
          <6> QED
            BY <2>3, <5>2, <6>1 DEF Holders
        <5> QED
          BY <5>1, <5>2
      <4>3. Holders(q)' \subseteq Locks
        BY DEF Holders
      <4> QED
        BY <2>2, <4>2, <4>3
    <3>2. Cardinality(Holders(q) \ {m}) = Cardinality(Holders(q)) - 1 /\ Cardinality(Holders(q)) \in Nat
      BY <2>2, <2>4, HoldersFinite
    <3> QED
      BY <1>2, <2>1, <2>4, <3>1, <3>2
  <2>5. CASE resource[l] = q /\ resource[m] # q
    <3>1. Holders(q)' = Holders(q) \ {l}
      <4>1. ASSUME NEW k \in Locks
            PROVE  k \in Holders(q)' <=> k \in Holders(q) \ {l}
        <5>1. CASE k = l \/ k = m
          BY <1>3, <2>1, <2>2, <2>3, <2>5, <5>1
        <5>2. CASE k # l /\ k # m
          <6>1. resource'[k] = resource[k]
            BY <1>3, <5>2
          <6> QED
            BY <2>3, <5>2, <6>1 DEF Holders
        <5> QED
          BY <5>1, <5>2
      <4>2. Holders(q)' \subseteq Locks
        BY DEF Holders
      <4> QED
        BY <2>2, <4>1, <4>2
    <3>2. Cardinality(Holders(q) \ {l}) = Cardinality(Holders(q)) - 1 /\ Cardinality(Holders(q)) \in Nat
      BY <2>2, <2>5, HoldersFinite
    <3> QED
      BY <1>2, <2>1, <2>5, <3>1, <3>2
  <2>6. CASE resource[l] # q /\ resource[m] = q
    <3>1. Holders(q)' = (Holders(q) \ {m}) \cup {l}
      <4>1. l \in Locks /\ m \in Locks /\ l # m /\ ~Uncounted(l)
        BY <1>1, <1>7, <2>6
      <4>2. ASSUME NEW k \in Locks
            PROVE  k \in Holders(q)' <=> k \in (Holders(q) \ {m}) \cup {l}
        <5>1. CASE k = l
          BY <1>3, <2>3, <2>6, <4>1, <5>1
        <5>2. CASE k = m
          BY <1>3, <2>1, <2>3, <4>1, <5>2
        <5>3. CASE k # l /\ k # m
          <6>1. resource'[k] = resource[k]
            BY <1>3, <5>3
          <6> QED
            BY <2>3, <5>3, <6>1 DEF Holders
        <5> QED
          BY <5>1, <5>2, <5>3
      <4>3. Holders(q)' \subseteq Locks
        BY DEF Holders
      <4> QED
        BY <2>2, <4>1, <4>2, <4>3
    <3>2. Cardinality(Holders(q) \ {m}) = Cardinality(Holders(q)) - 1 /\ Cardinality(Holders(q)) \in Nat
      BY <2>2, <2>6, HoldersFinite
    <3>3. /\ Cardinality((Holders(q) \ {m}) \cup {l}) = Cardinality(Holders(q) \ {m}) + 1
          /\ Cardinality(Holders(q) \ {m}) \in Nat
      <4> DEFINE S == Holders(q) \ {m}
      <4>1. S \subseteq Locks /\ l \in Locks \ S
        BY <2>2, <2>6
      <4> HIDE DEF S
      <4>2. Cardinality(S \cup {l}) = Cardinality(S) + 1 /\ Cardinality(S) \in Nat
        BY <4>1, HoldersFinite
      <4> QED
        BY <4>2 DEF S
    <3> QED
      BY <1>2, <2>1, <2>6, <3>1, <3>2, <3>3
  <2>7. CASE resource[l] # q /\ resource[m] # q
    <3>1. \A k \in Locks : resource'[k] = q <=> resource[k] = q
      BY <1>3, <2>1, <2>7
    <3>2. Holders(q)' = Holders(q)
      BY <1>7, <3>1 DEF Holders
    <3> QED
      BY <1>2, <2>1, <2>7, <3>2
  <2> QED
    BY <2>4, <2>5, <2>6, <2>7
<1>9. PointsToOwn'
  <2>1. \A q \in Resources \ broken, k \in Locks : resource[k] = q /\ User[k] = t => ownerThread[q] = t
    BY <1>1 DEF IInv, PointsToOwn
  <2> QED
    BY <1>1, <1>3, <2>1 DEF MutexAssumption, IInv, PointsToOwn
<1>10. \A q \in Resources, u \in Threads : Busy(u, q)' <=> Busy(u, q)
  BY <1>1, <1>5 DEF Busy, Released, Giving
<1>11. (Exclusive /\ Owned)'
  BY <1>1, <1>10 DEF IInv, Exclusive, Owned
<1>12. StillMine'
  <2>1. \A u \in Threads : pc[u] \in Giving \cup {"count"} => Released(u)' = Released(u)
    BY <1>1, <1>5 DEF Released, Taking
  <2> QED
    BY <1>1, <2>1 DEF IInv, StillMine
<1> QED
  BY <1>4, <1>6, <1>8, <1>9, <1>11, <1>12 DEF IInv

(* Each step of the threads.                                                 *)
LEMMA NextKeeps ==
    ASSUME MutexAssumption, IInv, [Next]_vars
    PROVE  IInv'
<1>1. CASE UNCHANGED vars
  BY <1>1 DEF vars, lockable, history, IInv, TypeOK, InCall, Released, Counted, Holders, Uncounted,
              PointsToOwn, Exclusive, Busy, Owned, StillMine
<1>2. ASSUME NEW t \in Threads, NEW l \in Locks, NEW r \in Resources, Acquire(t, l, r)
      PROVE  IInv'
  BY <1>2, AcquireKeeps
<1>3. ASSUME NEW t \in Threads, NEW l \in Locks, NEW kind \in {"release", "destroy"},
             Release(t, l, kind)
      PROVE  IInv'
  BY <1>3, ReleaseKeeps
<1>4. ASSUME NEW t \in Threads, NEW l \in Locks, NEW m \in Locks, Move(t, l, m)
      PROVE  IInv'
  BY <1>4, MoveKeeps
<1>5. ASSUME NEW t \in Threads, Decrement(t) \/ Disown(t) \/ Clear(t)
      PROVE  IInv'
  BY <1>5, DecrementKeeps, DisownKeeps, ClearKeeps
<1>6. ASSUME NEW t \in Threads,
             TestAndSet(t) \/ Continue(t) \/ Own(t) \/ Count(t) \/ Throw(t)
      PROVE  IInv'
  BY <1>6, TestAndSetKeeps, ContinueKeeps, OwnKeeps, CountKeeps, ThrowKeeps
<1> QED
  BY <1>1, <1>2, <1>3, <1>4, <1>5, <1>6 DEF Next, Terminated

(* All that points to a Lockable is used by its owner.                       *)
LEMMA IInvExcludes == ASSUME MutexAssumption, IInv PROVE HeldByOne
<1> SUFFICES ASSUME NEW l \in Locks, NEW m \in Locks, resource[l] = resource[m],
                    User[l] # User[m], resource[l] \notin broken \cup {none}
             PROVE  FALSE
  BY DEF HeldByOne
<1> DEFINE r == resource[l]
<1>1. r \in Resources \ broken /\ User[l] \in Threads /\ User[m] \in Threads
  BY DEF MutexAssumption, IInv, TypeOK
<1>2. ASSUME NEW k \in {l, m}
      PROVE  \/ ownerThread[r] = User[k]
             \/ Busy(User[k], r) /\ ownerThread[r] = none /\ call[User[k]].lock = k
  <2>1. CASE ownerThread[r] = User[k]
    BY <2>1
  <2>2. CASE pc[User[k]] = "clear" /\ call[User[k]].lock = k
    <3>1. Busy(User[k], r)
      BY <2>2 DEF Busy, Released
    <3> QED
      BY <1>1, <2>2, <3>1 DEF IInv, Exclusive
  <2> QED
    BY <1>1, <2>1, <2>2 DEF IInv, PointsToOwn
<1> QED
  BY <1>1, <1>2 DEF MutexAssumption, IInv, Exclusive

(* At rest every lock object that points to a Lockable is counted.           *)
LEMMA IInvCounts == ASSUME MutexAssumption, IInv PROVE CountsItsLocks
<1>1. ASSUME NEW r \in Resources \ broken, ~Changing(r)
      PROVE  /\ refCount[r] = Cardinality({l \in Locks : resource[l] = r}) + leaks[r]
             /\ flag[r] = (refCount[r] > 0)
             /\ ownerThread[r] = none <=> ~flag[r]
  <2>1. \A l \in Locks : resource[l] = r => ~Uncounted(l)
    BY <1>1 DEF MutexAssumption, Changing, Released, Uncounted, Taking
  <2>2. Holders(r) = {l \in Locks : resource[l] = r}
    BY <2>1 DEF Holders
  <2>3. refCount[r] = Cardinality({l \in Locks : resource[l] = r}) + leaks[r]
    BY <2>2 DEF IInv, Counted
  <2>4. \A t \in Threads : ~Busy(t, r)
    BY <1>1 DEF MutexAssumption, IInv, InCall, Giving, Changing, Busy
  <2>5. /\ flag[r] <=> refCount[r] > 0
        /\ ownerThread[r] = none <=> ~flag[r]
    BY <2>4 DEF MutexAssumption, IInv, TypeOK, Owned
  <2>6. flag[r] \in BOOLEAN
    BY DEF IInv, TypeOK
  <2> QED
    BY <2>3, <2>5, <2>6
<1> QED
  BY <1>1, ThrowsOnBroken DEF CountsItsLocks

(* A mutex that nobody broke is free, held by one thread, or on its way.     *)
THEOREM Invariance == Spec => []IInv
<1>1. Init => IInv
  BY InitIInv, MutexAssumption
<1>2. IInv /\ [Next]_vars => IInv'
  BY NextKeeps, MutexAssumption
<1> QED
  BY <1>1, <1>2, PTL DEF Spec

(* However threads nest, exchange and destroy lock objects, two of them never *)
(* hold one Lockable, unless it was broken: mutual exclusion of CMutex.      *)
THEOREM MutualExclusion == Spec => []HeldByOne
<1>1. IInv => HeldByOne
  BY IInvExcludes, MutexAssumption
<1> QED
  BY <1>1, Invariance, PTL

(* The count of a Lockable that no call is changing is that of the lock      *)
(* objects on it, with the references that were assigned over; and neither   *)
(* exception is thrown over one that is not broken already.                  *)
THEOREM Counting == Spec => []CountsItsLocks
<1>1. IInv => CountsItsLocks
  BY IInvCounts, MutexAssumption
<1> QED
  BY <1>1, Invariance, PTL
=============================================================================
