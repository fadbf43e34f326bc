------------------------- MODULE ThreadManagerProofs -------------------------
(***************************************************************************)
(* Theorems about ThreadManager, for any number of threads and launchers.  *)
(*                                                                         *)
(* The argument: whatever is announced and in the table is at its very end *)
(* (Leaving), also when an identity is used anew, because until the exit   *)
(* the announced threads are forgotten before the mutex is given up, and   *)
(* what is launched gets into the table only with the mutex (Known).  At   *)
(* an exit without late streams all threads in the table are announced     *)
(* (Announced), so that a single pass of the janitor joins them.           *)
(***************************************************************************)
EXTENDS ThreadManager, SequenceTheorems, TLAPS

TypeOK ==
    /\ threads \subseteq Thread /\ joinable \subseteq threads
    /\ endedThreads \in Seq(Thread) /\ todo \in Seq(Thread)
    /\ globalMutex \in Process \cup {Nobody}
    /\ launching \in [Launcher -> Thread \cup {Nobody}]
    /\ beingDestroyed \in BOOLEAN /\ late \in BOOLEAN /\ swept \in BOOLEAN
    /\ pc \in [Process -> {"idle", "gone", "stalled", "callback", "janitor", "joining",
                           "ending", "exiting", "exited", "start", "sweep", "over", "threw"}]

(* Whoever joins has the mutex, and what it has still to join was announced. *)
Locking ==
    /\ \A p \in Process : pc[p] = "joining" <=> globalMutex = p
    /\ globalMutex # Nobody => ToSet(todo) \subseteq ToSet(endedThreads)

(* A thread in the table that was announced needs the mutex no more.         *)
Leaving ==
    \A t \in ToSet(endedThreads) \cap threads : pc[t] \in {"exiting", "exited"}

(* A launcher has a thread in its hands that is not yet in the table, a      *)
(* different one each.                                                       *)
Launched ==
    /\ \A l \in Launcher :
        /\ pc[l] \in {"idle", "janitor", "joining", "start"}
        /\ pc[l] = "idle" <=> launching[l] = Nobody
        /\ launching[l] \in Thread => pc[launching[l]] = "stalled" /\ launching[l] \notin threads
    /\ \A l, m \in Launcher : launching[l] = launching[m] => l = m \/ launching[l] = Nobody

Steps ==
    /\ \A t \in Thread : pc[t] \in {"gone", "stalled", "callback", "janitor", "joining",
                                    "ending", "exiting", "exited", "threw"}
    /\ \A t \in threads : pc[t] # "gone"
    /\ \A t \in Thread \ threads : pc[t] \in {"gone", "stalled", "exited"}
    /\ pc[Destroyer] \in {"idle", "janitor", "joining", "sweep", "over", "threw"}

(* Until the exit every thread in the table can be joined, and nothing that  *)
(* is announced is not in the table while nobody has the mutex.              *)
Known ==
    ~beingDestroyed =>
        /\ joinable = threads
        /\ globalMutex = Nobody => ToSet(endedThreads) \subseteq threads
        /\ pc[Destroyer] = "idle"

(* Before the exit no stream is late.                                        *)
Idle == ~beingDestroyed => ~late /\ ~swept

(* In the exit nobody launches.                                              *)
Exiting ==
    beingDestroyed => pc[Destroyer] # "idle" /\ \A l \in Launcher : pc[l] = "idle"

(* Unless a stream is late: who is past its end is yet to be joined.         *)
Announced ==
    ~late =>
        \A t \in threads : pc[t] \in {"exiting", "exited"} =>
            t \in IF globalMutex = Nobody THEN ToSet(endedThreads) ELSE ToSet(todo)

Clean ==
    ~late /\ beingDestroyed =>
        /\ \A t \in Thread : pc[t] \in {"gone", "exited"}
        /\ joinable = threads
        /\ swept \/ pc[Destroyer] \notin {"janitor", "joining"} => threads = {}
        /\ pc[Destroyer] # "threw"

IInv ==
    /\ TypeOK /\ Locking /\ Leaving /\ Launched
    /\ Steps /\ Known /\ Idle /\ Exiting /\ Announced /\ Clean

(* The elements of a sequence, from its head on and up to its last.          *)
LEMMA HeadAndTail ==
    ASSUME NEW S, NEW s \in Seq(S), s # <<>>
    PROVE  /\ Head(s) \in S /\ Tail(s) \in Seq(S)
           /\ ToSet(s) = {Head(s)} \cup ToSet(Tail(s))
<1>1. /\ Head(s) = s[1] /\ Tail(s) \in Seq(S) /\ Len(Tail(s)) = Len(s) - 1
      /\ Len(s) \in Nat \ {0} /\ DOMAIN s = 1 .. Len(s)
      /\ \A i \in 1 .. Len(s) - 1 : Tail(s)[i] = s[i + 1]
      /\ DOMAIN Tail(s) = 1 .. Len(s) - 1
  OBVIOUS
<1>2. \A x : x \in ToSet(s) => x = Head(s) \/ x \in ToSet(Tail(s))
  <2> SUFFICES ASSUME NEW i \in 1 .. Len(s), i # 1
               PROVE  s[i] \in ToSet(Tail(s))
    BY <1>1 DEF ToSet
  <2>1. i - 1 \in 1 .. Len(s) - 1 /\ (i - 1) + 1 = i
    BY <1>1
  <2> QED
    BY <1>1, <2>1 DEF ToSet
<1>3. \A x : x = Head(s) \/ x \in ToSet(Tail(s)) => x \in ToSet(s)
  <2>1. \A i \in 1 .. Len(s) - 1 : i + 1 \in 1 .. Len(s)
    BY <1>1
  <2> QED
    BY <1>1, <2>1 DEF ToSet
<1> QED
  BY <1>1, <1>2, <1>3

(* What is appended comes to the elements.                                   *)
LEMMA Appended ==
    ASSUME NEW S, NEW s \in Seq(S), NEW e \in S
    PROVE  Append(s, e) \in Seq(S) /\ ToSet(Append(s, e)) = ToSet(s) \cup {e}
<1>1. /\ Append(s, e) \in Seq(S) /\ Len(s) \in Nat
      /\ DOMAIN Append(s, e) = 1 .. Len(s) + 1 /\ DOMAIN s = 1 .. Len(s)
      /\ \A i \in 1 .. Len(s) + 1 : Append(s, e)[i] = IF i = Len(s) + 1 THEN e ELSE s[i]
  OBVIOUS
<1>2. \A i \in 1 .. Len(s) : i \in 1 .. Len(s) + 1 /\ i # Len(s) + 1
  BY <1>1
<1>3. \A i \in 1 .. Len(s) + 1 : i = Len(s) + 1 \/ i \in 1 .. Len(s)
  BY <1>1
<1>4. Len(s) + 1 \in 1 .. Len(s) + 1
  BY <1>1
<1> QED
  BY <1>1, <1>2, <1>3, <1>4 DEF ToSet

(* Nothing is in the empty sequence, and the elements are threads.           *)
LEMMA Elements ==
    ASSUME NEW S
    PROVE  ToSet(<<>>) = {} /\ <<>> \in Seq(S) /\ \A s \in Seq(S) : ToSet(s) \subseteq S
BY DEF ToSet

(* Nothing changes.                                                          *)
LEMMA StutterKeeps == ASSUME IInv, UNCHANGED vars PROVE IInv'
BY DEF vars, table, mutex, destruction, IInv, TypeOK, Locking, Leaving, Launched, Steps, Known,
       Idle, Exiting, Announced, Clean

(* No thread, no launcher.                                                   *)
LEMMA InitKeeps == ASSUME ThreadAssumption, Init PROVE IInv
<1>1. /\ threads = {} /\ joinable = {} /\ endedThreads = <<>> /\ todo = <<>>
      /\ beingDestroyed = FALSE /\ late = FALSE /\ swept = FALSE
      /\ globalMutex = Nobody /\ launching = [l \in Launcher |-> Nobody]
      /\ pc = [p \in Process |-> IF p \in Thread THEN "gone" ELSE "idle"]
  BY DEF Init
<1>2. /\ \A t \in Thread : pc[t] = "gone"
      /\ \A l \in Launcher : pc[l] = "idle" /\ launching[l] = Nobody
      /\ pc[Destroyer] = "idle" /\ \A p \in Process : pc[p] \in {"gone", "idle"}
  BY <1>1 DEF ThreadAssumption, Process
<1>3. TypeOK
  BY <1>1, Elements DEF TypeOK
<1>4. Locking /\ Leaving /\ Announced
  BY <1>1, <1>2, Elements DEF Locking, Leaving, Announced, ThreadAssumption
<1>5. Launched /\ Steps /\ Known /\ Exiting /\ Clean
  BY <1>1, <1>2, Elements DEF Launched, Steps, Known, Exiting, Clean, ThreadAssumption, Process
<1> QED
  BY <1>1, <1>3, <1>4, <1>5 DEF IInv, Idle
-----------------------------------------------------------------------------
(* The janitor.                                                              *)

(* Who takes the mutex has all that was announced before it.                 *)
LEMMA JanitorLockKeeps ==
    ASSUME ThreadAssumption, IInv, NEW p \in Process, JanitorLock(p)
    PROVE  IInv'
<1>1. /\ pc[p] = "janitor" /\ globalMutex = Nobody
      /\ globalMutex' = p /\ todo' = endedThreads /\ pc' = [pc EXCEPT ![p] = "joining"]
      /\ UNCHANGED <<threads, joinable, endedThreads, beingDestroyed, late, launching, swept>>
  BY DEF JanitorLock, Goto, table, destruction
<1>2. pc'[p] = "joining" /\ \A q \in Process : q # p => pc'[q] = pc[q]
  BY <1>1 DEF IInv, TypeOK
<1>3. TypeOK'
  BY <1>1 DEF IInv, TypeOK
<1>4. Locking'
  BY <1>1, <1>2 DEF IInv, Locking, ThreadAssumption
<1>5. Leaving'
  BY <1>1, <1>2 DEF IInv, Leaving, TypeOK, Process
<1>6. Launched'
  BY <1>1, <1>2 DEF IInv, Launched, Process
<1>7. Steps'
  BY <1>1, <1>2 DEF IInv, Steps, TypeOK, Process
<1>8. (Known /\ Exiting)'
  BY <1>1, <1>2 DEF IInv, Known, Exiting, Process, ThreadAssumption
<1>9. Announced'
  BY <1>1, <1>2 DEF IInv, Announced, TypeOK, Process, ThreadAssumption
<1>10. Clean'
  BY <1>1, <1>2 DEF IInv, Clean, Process
<1> QED
  BY <1>1, <1>3, <1>4, <1>5, <1>6, <1>7, <1>8, <1>9, <1>10 DEF IInv, Idle

(* A thread is joined: it leaves the table, or was not in it, or join()      *)
(* throws, which is not before a late stream's exit.                         *)
LEMMA JanitorJoinKeeps ==
    ASSUME ThreadAssumption, IInv, NEW p \in Process, JanitorJoin(p)
    PROVE  IInv'
<1> DEFINE t == Head(todo)
<1>1. /\ pc[p] = "joining" /\ todo # <<>>
      /\ UNCHANGED <<endedThreads, beingDestroyed, late, launching, swept>>
      /\ globalMutex = p /\ p # Nobody
  BY DEF JanitorJoin, destruction, IInv, Locking, ThreadAssumption
<1>2. /\ t \in Thread /\ Tail(todo) \in Seq(Thread) /\ ToSet(todo) = {t} \cup ToSet(Tail(todo))
      /\ t \in ToSet(endedThreads) /\ t \in Process
  <2>1. t \in Thread /\ Tail(todo) \in Seq(Thread) /\ ToSet(todo) = {t} \cup ToSet(Tail(todo))
    BY <1>1, HeadAndTail DEF IInv, TypeOK
  <2> QED
    BY <1>1, <2>1 DEF IInv, Locking, Process
<1>3. CASE t \in threads \ joinable
  <2>1. /\ globalMutex' = Nobody /\ todo' = <<>> /\ pc' = [pc EXCEPT ![p] = "threw"]
        /\ UNCHANGED <<threads, joinable>>
    BY <1>3 DEF JanitorJoin, Goto
  <2>2. pc'[p] = "threw" /\ \A q \in Process : q # p => pc'[q] = pc[q]
    BY <2>1 DEF IInv, TypeOK
  <2>3. beingDestroyed /\ late
    BY <1>3 DEF IInv, Known, Clean, TypeOK
  <2>4. p \notin Launcher
    BY <1>1, <2>3 DEF IInv, Exiting
  <2>5. TypeOK'
    BY <1>1, <2>1, Elements DEF IInv, TypeOK
  <2>6. Locking'
    BY <1>1, <2>1, <2>2 DEF IInv, Locking, ThreadAssumption
  <2>7. Leaving'
    BY <1>1, <2>1, <2>2 DEF IInv, Leaving, TypeOK, Process
  <2>8. Launched'
    BY <1>1, <2>1, <2>2, <2>4 DEF IInv, Launched, Process
  <2>9. Steps'
    BY <1>1, <2>1, <2>2 DEF IInv, Steps, TypeOK, Process
  <2>10. (Known /\ Exiting /\ Announced /\ Clean)'
    BY <1>1, <2>1, <2>2, <2>3, <2>4 DEF IInv, Known, Exiting, Process, Announced, Clean
  <2> QED
    BY <1>1, <2>5, <2>6, <2>7, <2>8, <2>9, <2>10 DEF IInv, Idle
<1>4. CASE ~(t \in threads \ joinable)
  <2>1. /\ t \in threads => pc[t] = "exited"
        /\ threads' = threads \ {t} /\ joinable' = joinable \ {t}
        /\ pc' = [pc EXCEPT ![t] = IF t \in threads THEN "gone" ELSE pc[t]]
        /\ todo' = Tail(todo) /\ globalMutex' = globalMutex
    BY <1>4 DEF JanitorJoin
  <2>2. /\ pc'[t] = IF t \in threads THEN "gone" ELSE pc[t]
        /\ \A q \in Process : q # t => pc'[q] = pc[q]
    BY <1>2, <2>1 DEF IInv, TypeOK
  <2>3. TypeOK'
    BY <1>1, <1>2, <2>1 DEF IInv, TypeOK
  <2>4. Locking'
    <3>1. \A q \in Process : pc'[q] = "joining" <=> pc[q] = "joining"
      BY <1>2, <2>1, <2>2
    <3> QED
      BY <1>1, <1>2, <2>1, <3>1 DEF IInv, Locking
  <2>5. Leaving'
    BY <1>1, <2>1, <2>2 DEF IInv, Leaving, TypeOK, Process
  <2>6. Launched'
    BY <1>1, <1>2, <2>1, <2>2 DEF IInv, Launched, Process, ThreadAssumption
  <2>7. Steps'
    BY <1>1, <1>2, <2>1, <2>2 DEF IInv, Steps, TypeOK, Process, ThreadAssumption
  <2>8. (Known /\ Exiting)'
    BY <1>1, <1>2, <2>1, <2>2 DEF IInv, Known, Exiting, Process, ThreadAssumption
  <2>9. Announced'
    BY <1>1, <1>2, <2>1, <2>2 DEF IInv, Announced, TypeOK, Process
  <2>10. Clean'
    BY <1>1, <1>2, <2>1, <2>2 DEF IInv, Clean, Process, ThreadAssumption
  <2> QED
    BY <1>1, <2>3, <2>4, <2>5, <2>6, <2>7, <2>8, <2>9, <2>10 DEF IInv, Idle
<1> QED
  BY <1>3, <1>4

(* The announced are forgotten and the mutex is given up: until the exit     *)
(* each of them was joined.                                                  *)
LEMMA JanitorDoneKeeps ==
    ASSUME ThreadAssumption, IInv, NEW p \in Process, NEW next, JanitorDone(p, next),
           \/ p \in Launcher /\ next = "start"
           \/ p \in Thread /\ next = "ending"
           \/ p = Destroyer /\ next = IF swept THEN "over" ELSE "sweep"
    PROVE  IInv'
<1>1. /\ pc[p] = "joining" /\ todo = <<>> /\ endedThreads' = <<>> /\ globalMutex' = Nobody
      /\ pc' = [pc EXCEPT ![p] = next]
      /\ UNCHANGED <<threads, joinable, todo, beingDestroyed, late, launching, swept>>
      /\ globalMutex = p /\ p # Nobody
  BY DEF JanitorDone, Goto, destruction, IInv, Locking, ThreadAssumption
<1>2. /\ pc'[p] = next /\ \A q \in Process : q # p => pc'[q] = pc[q]
      /\ next \in {"start", "ending", "over", "sweep"}
  BY <1>1 DEF IInv, TypeOK
<1>3. TypeOK'
  BY <1>1, <1>2, Elements DEF IInv, TypeOK
<1>4. Locking'
  BY <1>1, <1>2 DEF IInv, Locking, ThreadAssumption
<1>5. Leaving'
  BY <1>1, Elements DEF Leaving
<1>6. Launched'
  BY <1>1, <1>2 DEF IInv, Launched, Process, ThreadAssumption
<1>7. Steps'
  BY <1>1, <1>2 DEF IInv, Steps, TypeOK, Process, ThreadAssumption
<1>8. (Known /\ Exiting)'
  BY <1>1, <1>2, Elements DEF IInv, Known, Exiting, Process, ThreadAssumption
<1>9. ~late => \A t \in threads : pc[t] \notin {"exiting", "exited"}
  BY <1>1, Elements DEF IInv, Announced
<1>10. Announced'
  BY <1>1, <1>2, <1>9 DEF Announced, IInv, TypeOK, Process
<1>11. Clean'
  BY <1>1, <1>2, <1>9 DEF IInv, Clean, Process, TypeOK, ThreadAssumption, Steps
<1> QED
  BY <1>1, <1>3, <1>4, <1>5, <1>6, <1>7, <1>8, <1>10, <1>11 DEF IInv, Idle
-----------------------------------------------------------------------------
(* Launching, and the threads themselves.                                    *)

(* A thread that is launched is nobody else's, and in no table.              *)
LEMMA LaunchKeeps ==
    ASSUME ThreadAssumption, IInv, NEW l \in Launcher, NEW t \in Thread, Launch(l, t)
    PROVE  IInv'
<1>1. /\ pc[l] = "idle" /\ pc[t] = "gone" /\ ~beingDestroyed
      /\ launching' = [launching EXCEPT ![l] = t]
      /\ pc' = [pc EXCEPT ![l] = "janitor", ![t] = "stalled"]
      /\ UNCHANGED <<threads, joinable, endedThreads, globalMutex, todo, beingDestroyed, late, swept>>
  BY DEF Launch, table, mutex, destruction
<1>2. l \in Process /\ t \in Process /\ l # t /\ t # Nobody /\ l # Destroyer /\ t # Destroyer
  BY DEF ThreadAssumption, Process
<1>3. /\ pc'[l] = "janitor" /\ pc'[t] = "stalled"
      /\ \A q \in Process : q # l /\ q # t => pc'[q] = pc[q]
      /\ launching'[l] = t /\ \A m \in Launcher : m # l => launching'[m] = launching[m]
  BY <1>1, <1>2 DEF IInv, TypeOK
<1>4. TypeOK'
  BY <1>1 DEF IInv, TypeOK
<1>5. Locking'
  BY <1>1, <1>2, <1>3 DEF IInv, Locking
<1>6. t \notin threads
  BY <1>1 DEF IInv, Steps
<1>7. Leaving'
  BY <1>1, <1>2, <1>3, <1>6 DEF IInv, Leaving, TypeOK, Process, ThreadAssumption
<1>8. Launched'
  <2>1. \A m \in Launcher : launching[m] # t
    BY <1>1 DEF IInv, Launched
  <2>2. \A m \in Launcher : m # l => pc'[m] = pc[m]
    BY <1>3 DEF ThreadAssumption, Process
  <2>3. \A m \in Launcher : m # l /\ launching[m] \in Thread => pc'[launching[m]] = pc[launching[m]]
    BY <1>3, <2>1 DEF ThreadAssumption, Process
  <2>4. \A m, k \in Launcher :
            launching'[m] = launching'[k] => m = k \/ launching'[m] = Nobody
    BY <1>1, <1>3, <2>1 DEF IInv, Launched
  <2>5. pc'[launching'[l]] = "stalled" /\ launching'[l] \notin threads' /\ launching'[l] # Nobody
    BY <1>1, <1>2, <1>3, <1>6
  <2>6. ASSUME NEW m \in Launcher
        PROVE  /\ pc'[m] \in {"idle", "janitor", "joining", "start"}
               /\ pc'[m] = "idle" <=> launching'[m] = Nobody
               /\ launching'[m] \in Thread =>
                     pc'[launching'[m]] = "stalled" /\ launching'[m] \notin threads'
    <3>1. CASE m = l
      BY <1>3, <2>5, <3>1
    <3>2. CASE m # l
      <4>1. /\ pc'[m] = pc[m] /\ launching'[m] = launching[m] /\ threads' = threads
            /\ launching[m] \in Thread => pc'[launching[m]] = pc[launching[m]]
        BY <1>1, <1>3, <2>2, <2>3, <3>2
      <4>2. /\ pc[m] \in {"idle", "janitor", "joining", "start"}
            /\ pc[m] = "idle" <=> launching[m] = Nobody
            /\ launching[m] \in Thread =>
                  pc[launching[m]] = "stalled" /\ launching[m] \notin threads
        BY DEF IInv, Launched
      <4> QED
        BY <4>1, <4>2
    <3> QED
      BY <3>1, <3>2
  <2> QED
    BY <2>4, <2>6 DEF Launched
<1>9. Steps'
  BY <1>1, <1>2, <1>3, <1>6 DEF IInv, Steps, TypeOK, Process, ThreadAssumption
<1>10. (Known /\ Exiting /\ Clean)'
  BY <1>1, <1>2, <1>3 DEF IInv, Known, Exiting, Clean, Process
<1>11. Announced'
  BY <1>1, <1>2, <1>3, <1>6 DEF IInv, Announced, TypeOK, Process, ThreadAssumption
<1> QED
  BY <1>1, <1>4, <1>5, <1>7, <1>8, <1>9, <1>10, <1>11 DEF IInv, Idle

(* The thread gets into the table, which holds no announcement of an earlier *)
(* one with its identity.                                                    *)
LEMMA StartedKeeps ==
    ASSUME ThreadAssumption, IInv, NEW l \in Launcher, Started(l)
    PROVE  IInv'
<1> DEFINE t == launching[l]
<1>1. /\ pc[l] = "start" /\ globalMutex = Nobody
      /\ threads' = threads \cup {t} /\ joinable' = joinable \cup {t}
      /\ launching' = [launching EXCEPT ![l] = Nobody]
      /\ pc' = [pc EXCEPT ![l] = "idle"]
      /\ UNCHANGED <<endedThreads, globalMutex, todo, beingDestroyed, late, swept>>
  BY DEF Started, mutex, destruction, Goto
<1>2. /\ t \in Thread /\ pc[t] = "stalled" /\ t \notin threads /\ ~beingDestroyed
      /\ l \in Process /\ l \notin Thread
      /\ \A m \in Launcher : m # l => launching[m] # t
  BY <1>1 DEF IInv, Launched, TypeOK, Exiting, Process, ThreadAssumption
<1>3. /\ pc'[l] = "idle" /\ \A q \in Process : q # l => pc'[q] = pc[q]
      /\ launching'[l] = Nobody /\ \A m \in Launcher : m # l => launching'[m] = launching[m]
  BY <1>1, <1>2 DEF IInv, TypeOK
<1> HIDE DEF t
<1>4. TypeOK'
  BY <1>1, <1>2 DEF IInv, TypeOK
<1>5. Locking'
  BY <1>1, <1>2, <1>3 DEF IInv, Locking
<1>6. Leaving'
  BY <1>1, <1>2, <1>3 DEF IInv, Leaving, Known, TypeOK, Process
<1>7. Launched'
  <2>1. \A m \in Launcher : m # l => pc'[m] = pc[m]
    BY <1>3 DEF Process
  <2>2. \A m \in Launcher : launching[m] \in Thread => pc'[launching[m]] = pc[launching[m]]
    BY <1>2, <1>3 DEF Process, ThreadAssumption
  <2>3. Nobody \notin Thread
    BY DEF ThreadAssumption, Process
  <2> QED
    BY <1>1, <1>2, <1>3, <2>1, <2>2, <2>3 DEF IInv, Launched
<1>8. Steps'
  BY <1>1, <1>2, <1>3 DEF IInv, Steps, TypeOK, Process, ThreadAssumption
<1>9. (Known /\ Exiting /\ Clean)'
  BY <1>1, <1>2, <1>3 DEF IInv, Known, Exiting, Clean, Process, ThreadAssumption
<1>10. Announced'
  BY <1>1, <1>2, <1>3 DEF IInv, Announced, TypeOK, Process
<1> QED
  BY <1>1, <1>4, <1>5, <1>6, <1>7, <1>8, <1>9, <1>10 DEF IInv, Idle

(* A thread's step that leaves the table and the mutex alone.                *)
LEMMA ThreadMovesKeeps ==
    ASSUME ThreadAssumption, IInv, NEW t \in Thread, StallExistence(t) \/ CallbackReturns(t) \/ Exit(t)
    PROVE  IInv'
<1>1. PICK at \in {"callback", "janitor", "exited"} :
      /\ pc' = [pc EXCEPT ![t] = at]
      /\ at = "callback" => pc[t] = "stalled" /\ t \in threads
      /\ at = "janitor" => pc[t] = "callback"
      /\ at = "exited" => pc[t] = "exiting"
  BY DEF StallExistence, CallbackReturns, Exit, Goto
<1>2. UNCHANGED <<threads, joinable, endedThreads, globalMutex, todo, beingDestroyed, late,
                  launching, swept>>
  BY DEF StallExistence, CallbackReturns, Exit, table, mutex, destruction
<1>3. t \in Process /\ t \notin Launcher /\ t # Destroyer
  BY DEF ThreadAssumption, Process
<1>4. pc'[t] = at /\ \A q \in Process : q # t => pc'[q] = pc[q]
  BY <1>1, <1>3 DEF IInv, TypeOK
<1>5. TypeOK'
  BY <1>1, <1>2 DEF IInv, TypeOK
<1>6. Locking'
  BY <1>1, <1>2, <1>3, <1>4 DEF IInv, Locking
<1>7. Leaving'
  BY <1>1, <1>2, <1>3, <1>4 DEF IInv, Leaving, TypeOK, Process
<1>8. Launched'
  <2>1. \A l \in Launcher : pc'[l] = pc[l]
    BY <1>3, <1>4 DEF Process
  <2>2. \A l \in Launcher : launching[l] = t => pc[t] = "stalled" /\ t \notin threads
    BY DEF IInv, Launched
  <2>3. \A l \in Launcher : launching[l] \in Thread => pc'[launching[l]] = pc[launching[l]]
    BY <1>1, <1>4, <2>2 DEF Process
  <2> QED
    BY <1>2, <2>1, <2>3 DEF IInv, Launched
<1>9. Steps'
  BY <1>1, <1>2, <1>3, <1>4 DEF IInv, Steps, TypeOK, Process, ThreadAssumption
<1>10. (Known /\ Exiting)'
  BY <1>2, <1>3, <1>4 DEF IInv, Known, Exiting, Process
<1>11. Announced'
  BY <1>1, <1>2, <1>3, <1>4 DEF IInv, Announced, TypeOK, Process
<1>12. Clean'
  BY <1>1, <1>2, <1>3, <1>4 DEF IInv, Clean, Process
<1> QED
  BY <1>1, <1>2, <1>5, <1>6, <1>7, <1>8, <1>9, <1>10, <1>11, <1>12 DEF IInv, Idle

(* A thread announces its end, as the last thing that needs the mutex.       *)
LEMMA EndedKeeps ==
    ASSUME ThreadAssumption, IInv, NEW t \in Thread, Ended(t)
    PROVE  IInv'
<1>1. /\ pc[t] = "ending" /\ globalMutex = Nobody
      /\ endedThreads' = Append(endedThreads, t) /\ pc' = [pc EXCEPT ![t] = "exiting"]
      /\ UNCHANGED <<threads, joinable, globalMutex, todo, beingDestroyed, late, launching, swept>>
  BY DEF Ended, mutex, destruction, Goto
<1>2. t \in Process /\ t \notin Launcher /\ t # Destroyer /\ t \in threads
  BY <1>1 DEF ThreadAssumption, Process, IInv, Steps
<1>3. pc'[t] = "exiting" /\ \A q \in Process : q # t => pc'[q] = pc[q]
  BY <1>1, <1>2 DEF IInv, TypeOK
<1>4. endedThreads' \in Seq(Thread) /\ ToSet(endedThreads') = ToSet(endedThreads) \cup {t}
  BY <1>1, Appended DEF IInv, TypeOK
<1>5. TypeOK'
  BY <1>1, <1>4 DEF IInv, TypeOK
<1>6. Locking'
  BY <1>1, <1>2, <1>3 DEF IInv, Locking
<1>7. Leaving'
  BY <1>1, <1>2, <1>3, <1>4 DEF IInv, Leaving, TypeOK, Process
<1>8. Launched'
  <2>1. \A l \in Launcher : pc'[l] = pc[l]
    BY <1>2, <1>3 DEF Process
  <2>2. \A l \in Launcher : launching[l] \in Thread => pc'[launching[l]] = pc[launching[l]]
    BY <1>1, <1>3 DEF Process, IInv, Launched
  <2> QED
    BY <1>1, <2>1, <2>2 DEF IInv, Launched
<1>9. Steps'
  BY <1>1, <1>2, <1>3 DEF IInv, Steps, TypeOK, Process, ThreadAssumption
<1>10. (Known /\ Exiting)'
  BY <1>1, <1>2, <1>3, <1>4 DEF IInv, Known, Exiting, Process
<1>11. Announced'
  BY <1>1, <1>2, <1>3, <1>4 DEF IInv, Announced, TypeOK, Process
<1>12. Clean'
  BY <1>1 DEF IInv, Clean
<1> QED
  BY <1>1, <1>2, <1>5, <1>6, <1>7, <1>8, <1>9, <1>10, <1>11, <1>12 DEF IInv, Idle
-----------------------------------------------------------------------------
(* The destructor.                                                           *)

(* The exit begins, without a late stream when all threads are at their end. *)
LEMMA DestroyKeeps ==
    ASSUME ThreadAssumption, IInv, Destroy
    PROVE  IInv'
<1>1. /\ pc[Destroyer] = "idle" /\ \A l \in Launcher : pc[l] = "idle"
      /\ beingDestroyed' = TRUE /\ pc' = [pc EXCEPT ![Destroyer] = "janitor"]
      /\ late' = \E t \in Thread : pc[t] \notin {"gone", "exited"}
      /\ UNCHANGED <<threads, joinable, endedThreads, globalMutex, todo, launching, swept>>
  BY DEF Destroy, table, mutex, Goto
<1>2. Destroyer \in Process /\ Destroyer \notin Thread \cup Launcher
  BY DEF ThreadAssumption, Process
<1>3. pc'[Destroyer] = "janitor" /\ \A q \in Process : q # Destroyer => pc'[q] = pc[q]
  BY <1>1, <1>2 DEF IInv, TypeOK
<1>4. TypeOK'
  <2>1. late' \in BOOLEAN
    BY <1>1
  <2> QED
    BY <1>1, <2>1 DEF IInv, TypeOK
<1>5. Locking'
  BY <1>1, <1>2, <1>3 DEF IInv, Locking
<1>6. Leaving'
  BY <1>1, <1>2, <1>3 DEF IInv, Leaving, TypeOK, Process
<1>7. Launched'
  BY <1>1, <1>2, <1>3 DEF IInv, Launched, Process
<1>8. Steps'
  BY <1>1, <1>2, <1>3 DEF IInv, Steps, TypeOK, Process
<1>9. (Known /\ Exiting)'
  BY <1>1, <1>2, <1>3 DEF IInv, Known, Exiting, Process
<1>10. ~beingDestroyed /\ ~late /\ ~swept
  BY <1>1 DEF IInv, Idle, Exiting
<1>11. Announced'
  BY <1>1, <1>2, <1>3, <1>10 DEF IInv, Announced, TypeOK, Process
<1>12. Clean'
  BY <1>1, <1>2, <1>3, <1>10 DEF IInv, Clean, Known, Process
<1> QED
  BY <1>1, <1>4, <1>5, <1>6, <1>7, <1>8, <1>9, <1>10, <1>11, <1>12 DEF IInv, Idle

(* What is still joinable is joined, and when all is the janitor comes once  *)
(* more: without late streams there is nothing to do.                        *)
LEMMA SweepKeeps ==
    ASSUME ThreadAssumption, IInv, Sweep \/ Swept
    PROVE  IInv'
<1>1. Destroyer \in Process /\ Destroyer \notin Thread \cup Launcher
  BY DEF ThreadAssumption, Process
<1>2. /\ pc[Destroyer] = "sweep" /\ beingDestroyed
      /\ ~late => threads = {} /\ joinable = {}
  <2>1. pc[Destroyer] = "sweep"
    BY DEF Sweep, Swept
  <2> QED
    BY <2>1 DEF IInv, Known, Clean, TypeOK
<1>3. /\ joinable' \subseteq joinable /\ swept' \in BOOLEAN
      /\ pc' \in {pc, [pc EXCEPT ![Destroyer] = "janitor"]}
      /\ UNCHANGED <<threads, endedThreads, globalMutex, todo, beingDestroyed, late, launching>>
  BY DEF Sweep, Swept, table, mutex, destruction, Goto, IInv, TypeOK
<1>4. pc'[Destroyer] \in {"sweep", "janitor"} /\ \A q \in Process : q # Destroyer => pc'[q] = pc[q]
  BY <1>1, <1>2, <1>3 DEF IInv, TypeOK
<1>5. TypeOK'
  BY <1>1, <1>3 DEF IInv, TypeOK
<1>6. Locking'
  BY <1>1, <1>2, <1>3, <1>4 DEF IInv, Locking
<1>7. Leaving'
  BY <1>1, <1>3, <1>4 DEF IInv, Leaving, TypeOK, Process
<1>8. Launched'
  BY <1>1, <1>3, <1>4 DEF IInv, Launched, Process
<1>9. Steps'
  BY <1>1, <1>3, <1>4 DEF IInv, Steps, TypeOK, Process
<1>10. (Known /\ Exiting)'
  BY <1>1, <1>2, <1>3, <1>4 DEF IInv, Known, Exiting, Process
<1>11. Announced'
  BY <1>1, <1>3, <1>4 DEF IInv, Announced, TypeOK, Process
<1>12. Clean'
  BY <1>1, <1>2, <1>3, <1>4 DEF IInv, Clean, Process
<1> QED
  BY <1>2, <1>3, <1>5, <1>6, <1>7, <1>8, <1>9, <1>10, <1>11, <1>12 DEF IInv, Idle
-----------------------------------------------------------------------------
(* Theorems.                                                                 *)

(* Every step keeps the invariant.                                           *)
LEMMA NextKeeps == ASSUME ThreadAssumption, IInv, Next PROVE IInv'
<1>1. ASSUME NEW l \in Launcher, LauncherStep(l) PROVE IInv'
  <2>1. l \in Process
    BY DEF Process
  <2> QED
    BY <1>1, <2>1, JanitorLockKeeps, JanitorJoinKeeps, JanitorDoneKeeps, StartedKeeps
       DEF LauncherStep, Janitor
<1>2. ASSUME NEW t \in Thread, Entry(t) PROVE IInv'
  <2>1. t \in Process
    BY DEF Process
  <2> QED
    BY <1>2, <2>1, JanitorLockKeeps, JanitorJoinKeeps, JanitorDoneKeeps, ThreadMovesKeeps,
       EndedKeeps DEF Entry, Janitor
<1>3. CASE DestroyerStep
  <2>1. Destroyer \in Process
    BY DEF Process
  <2> QED
    BY <1>3, <2>1, JanitorLockKeeps, JanitorJoinKeeps, JanitorDoneKeeps, SweepKeeps
       DEF DestroyerStep, Janitor
<1>4. CASE Over
  BY <1>4, StutterKeeps DEF Over
<1> QED
  BY <1>1, <1>2, <1>3, <1>4, LaunchKeeps, DestroyKeeps DEF Next

(* The invariant holds throughout.                                           *)
THEOREM Invariance == Spec => []IInv
<1>1. Init => IInv
  BY InitKeeps, ThreadAssumption
<1>2. IInv /\ [Next]_vars => IInv'
  BY NextKeeps, StutterKeeps, ThreadAssumption
<1> QED
  BY <1>1, <1>2, PTL DEF Spec

(* Who joins a thread, with the mutex, waits for one that needs the mutex no *)
(* more (ThreadManager::janitorThreads()): no such join waits for itself.    *)
THEOREM JoinsEnd == Spec => []JoinsOnlyTheLeaving
<1>1. IInv => JoinsOnlyTheLeaving
  <2> SUFFICES ASSUME IInv, NEW p \in Process, pc[p] = "joining", todo # <<>>,
                      Head(todo) \in joinable
               PROVE  pc[Head(todo)] \in {"exiting", "exited"}
    BY DEF JoinsOnlyTheLeaving
  <2>1. Head(todo) \in ToSet(todo)
    BY HeadAndTail DEF IInv, TypeOK
  <2>2. globalMutex # Nobody
    BY ThreadAssumption DEF IInv, Locking, ThreadAssumption
  <2> QED
    BY <2>1, <2>2 DEF IInv, Locking, Leaving, TypeOK
<1> QED
  BY <1>1, Invariance, PTL

(* ~ThreadManager() leaves an empty table, and its assertion holds, when no  *)
(* stream outlives its beginning.                                            *)
THEOREM CleanExit == Spec => []CleanWithoutLate
<1>1. IInv => CleanWithoutLate
  BY DEF IInv, Clean, Known, CleanWithoutLate, ExitIsClean
<1> QED
  BY <1>1, Invariance, PTL
=============================================================================
