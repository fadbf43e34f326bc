---------------------------- MODULE ThreadManager ----------------------------
(***************************************************************************)
(* The threads of asynchronous audio streams (src/AudioStream.cpp): a      *)
(* process-wide table of std::threads, in which a thread waits to appear   *)
(* before it runs its stream, and of which threads that announced their    *)
(* end are joined by whoever comes by next: another thread that ends,      *)
(* somebody that launches one, or the table's destructor at exit.          *)
(*                                                                         *)
(* A step is what happens between two acquisitions or releases of          *)
(* globalMutex, or a join.  The identity of a thread may be used again as  *)
(* soon as it was joined, hence nothing here has to be bounded.            *)
(***************************************************************************)
EXTENDS Sequences, FiniteSets, SequencesExt

CONSTANTS Thread,       \* thread identities
          Launcher,     \* those that call launchThread()
          Destroyer,    \* runs ~ThreadManager()
          LateStreams   \* bound: streams that still run at exit

Process == Thread \cup Launcher \cup {Destroyer}
Nobody == "nobody"

(* One at most: with more of them the destructor walks the table, unlocked,  *)
(* while they change it.                                                     *)
ASSUME ThreadAssumption ==
    /\ Thread \cap Launcher = {} /\ Destroyer \notin Thread \cup Launcher
    /\ Nobody \notin Process
    /\ LateStreams \in {0, 1}

VARIABLES
    threads,        \* tm.threads
    joinable,       \* those of them that were not joined yet
    endedThreads,
    beingDestroyed,
    globalMutex,    \* its owner
    todo,           \* what the owner's loop over endedThreads has left
    pc,
    launching,      \* the std::thread a launcher has in its hands
    swept,          \* whether the destructor is past its loop
    late            \* whether a stream still ran when the destructor began

table == <<threads, joinable, endedThreads>>
mutex == <<globalMutex, todo>>
destruction == <<beingDestroyed, late>>
vars == <<table, mutex, destruction, pc, launching, swept>>

Goto(p, at) == pc' = [pc EXCEPT ![p] = at]

Init ==
    /\ threads = {} /\ joinable = {} /\ endedThreads = <<>>
    /\ beingDestroyed = FALSE /\ late = FALSE
    /\ globalMutex = Nobody /\ todo = <<>>
    /\ pc = [p \in Process |-> IF p \in Thread THEN "gone" ELSE "idle"]
    /\ launching = [l \in Launcher |-> Nobody] /\ swept = FALSE

-----------------------------------------------------------------------------
(* janitorThreads(), by p.                                                   *)

JanitorLock(p) ==
    /\ pc[p] = "janitor" /\ globalMutex = Nobody
    /\ globalMutex' = p /\ todo' = endedThreads
    /\ Goto(p, "joining")
    /\ UNCHANGED <<table, destruction, launching, swept>>

(* join() waits for the thread, and throws if it was joined before.  An      *)
(* identity that is not in the table is passed over.                         *)
JanitorJoin(p) ==
    /\ pc[p] = "joining" /\ todo # <<>>
    /\ LET t == Head(todo)
       IN  IF t \in threads \ joinable
           THEN /\ globalMutex' = Nobody /\ todo' = <<>>
                /\ Goto(p, "threw")
                /\ UNCHANGED <<threads, joinable>>
           ELSE /\ t \in threads => pc[t] = "exited"
                /\ threads' = threads \ {t} /\ joinable' = joinable \ {t}
                /\ pc' = [pc EXCEPT ![t] = IF t \in threads THEN "gone" ELSE @]
                /\ todo' = Tail(todo)
                /\ UNCHANGED globalMutex
    /\ UNCHANGED <<endedThreads, destruction, launching, swept>>

\* Mutant: the mutex stays locked.
Mutant_JanitorLocks(p, next) ==
    /\ pc[p] = "joining" /\ todo = <<>>
    /\ endedThreads' = <<>>
    /\ Goto(p, next)
    /\ UNCHANGED <<threads, joinable, mutex, destruction, launching, swept>>

JanitorDone(p, next) ==
    /\ pc[p] = "joining" /\ todo = <<>>
    /\ endedThreads' = <<>>
    /\ globalMutex' = Nobody
    /\ Goto(p, next)
    /\ UNCHANGED <<threads, joinable, todo, destruction, launching, swept>>

Janitor(p, next) ==
    JanitorLock(p) \/ JanitorJoin(p) \/ JanitorDone(p, next)

-----------------------------------------------------------------------------
(* launchThread(), by l: the thread is created, and only then known.         *)

Launch(l, t) ==
    /\ pc[l] = "idle" /\ pc[t] = "gone" /\ ~beingDestroyed
    /\ launching' = [launching EXCEPT ![l] = t]
    /\ pc' = [pc EXCEPT ![l] = "janitor", ![t] = "stalled"]
    /\ UNCHANGED <<table, mutex, destruction, swept>>

Started(l) ==
    /\ pc[l] = "start" /\ globalMutex = Nobody
    /\ threads' = threads \cup {launching[l]}
    /\ joinable' = joinable \cup {launching[l]}
    /\ launching' = [launching EXCEPT ![l] = Nobody]
    /\ Goto(l, "idle")
    /\ UNCHANGED <<endedThreads, mutex, destruction, swept>>

LauncherStep(l) == Janitor(l, "start") \/ Started(l)

-----------------------------------------------------------------------------
(* entry(), by thread t.                                                     *)

StallExistence(t) ==
    /\ pc[t] = "stalled" /\ globalMutex = Nobody /\ t \in threads
    /\ Goto(t, "callback")
    /\ UNCHANGED <<table, mutex, destruction, launching, swept>>

(* The callback is asyncAudioSystem(), and lasts as long as the stream.      *)
CallbackReturns(t) ==
    /\ pc[t] = "callback"
    /\ Goto(t, "janitor")
    /\ UNCHANGED <<table, mutex, destruction, launching, swept>>

\* Mutant: the end of a thread is not announced.
Mutant_Ended(t) ==
    /\ pc[t] = "ending"
    /\ Goto(t, "exiting")
    /\ UNCHANGED <<table, destruction, mutex, launching, swept>>

Ended(t) ==
    /\ pc[t] = "ending" /\ globalMutex = Nobody
    /\ endedThreads' = Append(endedThreads, t)
    /\ Goto(t, "exiting")
    /\ UNCHANGED <<threads, joinable, destruction, mutex, launching, swept>>

Exit(t) ==
    /\ pc[t] = "exiting"
    /\ Goto(t, "exited")
    /\ UNCHANGED <<table, mutex, destruction, launching, swept>>

\* Mutant: a thread announces its end before it looks after the others.
Mutant_Entry(t) ==
    \/ StallExistence(t)
    \/ /\ pc[t] = "callback" /\ globalMutex = Nobody
       /\ endedThreads' = Append(endedThreads, t)
       /\ Goto(t, "janitor")
       /\ UNCHANGED <<threads, joinable, destruction, mutex, launching, swept>>
    \/ Janitor(t, "exiting") \/ Exit(t)

Entry(t) ==
    StallExistence(t) \/ CallbackReturns(t) \/ Janitor(t, "ending") \/ Ended(t) \/ Exit(t)

-----------------------------------------------------------------------------
(* ~ThreadManager(): when nobody launches any more and all but LateStreams   *)
(* threads have come to their end.                                           *)
Destroy ==
    /\ pc[Destroyer] = "idle"
    /\ \A l \in Launcher : pc[l] = "idle"
    /\ Cardinality({t \in Thread : pc[t] \notin {"gone", "exited"}}) <= LateStreams
    /\ beingDestroyed' = TRUE
    /\ late' = \E t \in Thread : pc[t] \notin {"gone", "exited"}
    /\ Goto(Destroyer, "janitor")
    /\ UNCHANGED <<table, mutex, launching, swept>>

(* What is left is joined, without the lock, but stays in the table.         *)
Sweep ==
    /\ pc[Destroyer] = "sweep"
    /\ \E t \in joinable : pc[t] = "exited" /\ joinable' = joinable \ {t}
    /\ UNCHANGED <<threads, endedThreads, mutex, destruction, pc, launching, swept>>

Swept ==
    /\ pc[Destroyer] = "sweep" /\ joinable = {}
    /\ swept' = TRUE
    /\ Goto(Destroyer, "janitor")
    /\ UNCHANGED <<table, mutex, destruction, launching>>

DestroyerStep == Janitor(Destroyer, IF swept THEN "over" ELSE "sweep") \/ Sweep \/ Swept

Over ==
    /\ pc[Destroyer] \in {"over", "threw"} /\ \A t \in Thread : pc[t] \in {"gone", "exited"}
    /\ UNCHANGED vars

Next ==
    \/ \E l \in Launcher : LauncherStep(l) \/ \E t \in Thread : Launch(l, t)
    \/ \E t \in Thread : Entry(t)
    \/ Destroy \/ DestroyerStep \/ Over

(***************************************************************************)
(* Threads run and get the mutex in the end when it becomes free again and *)
(* again; but no stream has to end, be launched, or the process to exit.   *)
(***************************************************************************)
Spec ==
    /\ Init /\ [][Next]_vars
    /\ \A l \in Launcher : SF_vars(LauncherStep(l))
    /\ \A t \in Thread : SF_vars(Entry(t) /\ ~CallbackReturns(t))
    /\ SF_vars(DestroyerStep)
-----------------------------------------------------------------------------
(* Whoever joins a thread holds the mutex, so the thread must not need it    *)
(* any more: it has announced its end as the last thing it does.             *)
JoinsOnlyTheLeaving ==
    \A p \in Process : pc[p] = "joining" /\ todo # <<>> /\ Head(todo) \in joinable =>
        pc[Head(todo)] \in {"exiting", "exited"}

(* The assertion of ~ThreadManager(): when it is through, each thread was    *)
(* joined and none is in the table.                                          *)
ExitIsClean == pc[Destroyer] \in {"over", "threw"} => threads = {}

(* It does as long as no stream outlives the beginning of the destructor.    *)
CleanWithoutLate == ~late => ExitIsClean

(* A thread that was launched gets to run its stream, whatever it is that    *)
(* its launcher has to join before.                                          *)
StreamsStart == \A t \in Thread : pc[t] = "stalled" ~> pc[t] = "callback"

(* The destructor comes to its end when the streams do.                      *)
ExitEnds ==
    (beingDestroyed /\ \A t \in Thread : pc[t] \notin {"stalled", "callback"})
        ~> pc[Destroyer] \in {"over", "threw"}
=============================================================================
