------------------------------- MODULE Mutexes -------------------------------
(***************************************************************************)
(* CMutex and CFastMutex (src/CMutex.h, src/CMutex.cpp), which differ only *)
(* in how they spin: lock objects that share recursive spin locks.  A      *)
(* Lockable is a flag, an owner and a count, in three variables that are   *)
(* changed one after the other; a lock object points to the Lockable that  *)
(* it holds.  A thread that has spun for two seconds asks the user, who    *)
(* may have the resource taken from whoever holds it.                      *)
(*                                                                         *)
(* The accesses are sequentially consistent here.  In the code the flag is *)
(* taken with a relaxed test_and_set, with a fence after the owner and the *)
(* count have been written, and these two are no atomics: what the module  *)
(* shows is the algorithm's, on a machine that keeps the order of accesses *)
(* to a flag and what it guards.                                           *)
(***************************************************************************)
EXTENDS Naturals, FiniteSets, TLC

CONSTANTS Threads, Resources,
          Locks,    \* the lock objects
          User,     \* the thread that uses each of them
          none,     \* no thread, no resource
          MaxLeaks  \* bound: so many assignments over a lock that holds

ASSUME MutexAssumption ==
    /\ User \in [Locks -> Threads]
    /\ none \notin Threads \cup Resources \cup Locks
    /\ IsFiniteSet(Locks)
    /\ MaxLeaks \in Nat

VARIABLES
    flag, ownerThread, refCount, \* of each Lockable
    resource, \* what each lock object points to
    pc,       \* each thread's step
    call,     \* the lock object, the Lockable, what is called, lockOwnedByThread
    leaks,    \* history: references to each Lockable that were overwritten
    broken    \* history: the Lockables that the user had taken from their
              \* holders, or that a lock object gave up and still points to

lockable == <<flag, ownerThread, refCount>>
history == <<leaks, broken>>
vars == <<lockable, resource, pc, call, history>>

NoCall == [lock |-> none, for |-> none, kind |-> "none", mine |-> FALSE]

Init ==
    /\ flag = [r \in Resources |-> FALSE]
    /\ ownerThread = [r \in Resources |-> none]
    /\ refCount = [r \in Resources |-> 0]
    /\ resource = [l \in Locks |-> none]
    /\ pc = [t \in Threads |-> "idle"] /\ call = [t \in Threads |-> NoCall]
    /\ leaks = [r \in Resources |-> 0] /\ broken = {}

Running == \A t \in Threads : pc[t] # "terminated"

Steps(t, step) == pc' = [pc EXCEPT ![t] = step]
Returns(t, step) == Steps(t, step) /\ call' = [call EXCEPT ![t] = NoCall]

(* The Lockable that the private release() is called for.                    *)
Released(t) == resource[call[t].lock]
-----------------------------------------------------------------------------
(* acquire(): nothing is done when the lock object holds l already; what it  *)
(* holds else is released first.                                             *)
Acquire(t, l, r) ==
    /\ pc[t] = "idle" /\ User[l] = t
    /\ LET mine == ownerThread[r] = t
       IN  /\ ~(mine /\ resource[l] = r)
           /\ call' = [call EXCEPT ![t] =
                  [lock |-> l, for |-> r, kind |-> "acquire", mine |-> mine]]
           /\ Steps(t, IF resource[l] # none THEN "release"
                       ELSE IF mine THEN "count" ELSE "spin")
    /\ UNCHANGED <<lockable, resource, history>>

(* release(), and the destructor, after which the lock object is a new one.  *)
Release(t, l, kind) ==
    /\ pc[t] = "idle" /\ User[l] = t /\ resource[l] # none
    /\ call' = [call EXCEPT ![t] =
           [lock |-> l, for |-> none, kind |-> kind, mine |-> FALSE]]
    /\ Steps(t, "release")
    /\ UNCHANGED <<lockable, resource, history>>

(* Where the private release() returns to, with what l points to then.       *)
AfterRelease(t, points) ==
    LET c == call[t]
    IN  /\ resource' = [resource EXCEPT ![c.lock] =
               IF c.kind = "destroy" THEN none ELSE points]
        /\ IF c.kind = "acquire"
           THEN Steps(t, IF c.mine THEN "count" ELSE "spin") /\ UNCHANGED call
           ELSE Returns(t, "idle")

\* Mutant: each release frees the Lockable, not the last one only.
Mutant_Decrement(t) ==
    /\ pc[t] = "release" /\ refCount[Released(t)] > 0
    /\ refCount' = [refCount EXCEPT ![Released(t)] = @ - 1]
    /\ Steps(t, "disown")
    /\ UNCHANGED <<flag, ownerThread, resource, call, history>>

(* An inner release() keeps the pointer, and will be repeated on destruction.*)
Decrement(t) ==
    /\ pc[t] = "release" /\ refCount[Released(t)] > 0
    /\ refCount' = [refCount EXCEPT ![Released(t)] = @ - 1]
    /\ IF refCount'[Released(t)] = 0
       THEN Steps(t, "disown") /\ UNCHANGED <<resource, call, broken>>
       ELSE /\ AfterRelease(t, Released(t))
            /\ broken' = IF call[t].kind = "release"
                         THEN broken \cup {Released(t)} ELSE broken
    /\ UNCHANGED <<flag, ownerThread, leaks>>

Disown(t) ==
    /\ pc[t] = "disown"
    /\ ownerThread' = [ownerThread EXCEPT ![Released(t)] = none]
    /\ Steps(t, "clear")
    /\ UNCHANGED <<flag, refCount, resource, call, history>>

Clear(t) ==
    /\ pc[t] = "clear"
    /\ flag' = [flag EXCEPT ![Released(t)] = FALSE]
    /\ AfterRelease(t, none)
    /\ UNCHANGED <<ownerThread, refCount, history>>
-----------------------------------------------------------------------------
(* spinLock().                                                               *)
TestAndSet(t) ==
    LET r == call[t].for
    IN  /\ pc[t] = "spin" /\ ~flag[r]
        /\ flag' = [flag EXCEPT ![r] = TRUE]
        /\ Steps(t, "own")
        /\ UNCHANGED <<ownerThread, refCount, resource, call, history>>

(* The time is out, and the user answers "continue".                         *)
Continue(t) ==
    LET r == call[t].for
    IN  /\ pc[t] = "spin" /\ flag[r]
        /\ flag' = [flag EXCEPT ![r] = FALSE]
        /\ broken' = broken \cup {r}
        /\ UNCHANGED <<ownerThread, refCount, resource, pc, call, leaks>>

Own(t) ==
    /\ pc[t] = "own"
    /\ ownerThread' = [ownerThread EXCEPT ![call[t].for] = t]
    /\ Steps(t, "check")
    /\ UNCHANGED <<flag, refCount, resource, call, history>>

\* Mutant: a thread that owns the Lockable does not count another lock object.
Mutant_Count(t) ==
    LET c == call[t]
    IN  /\ pc[t] = "count" \/ (pc[t] = "check" /\ refCount[c.for] = 0)
        /\ refCount' = [refCount EXCEPT ![c.for] = 1]
        /\ resource' = [resource EXCEPT ![c.lock] = c.for]
        /\ Returns(t, "idle")
        /\ UNCHANGED <<flag, ownerThread, history>>

Count(t) ==
    LET c == call[t]
    IN  /\ pc[t] = "count" \/ (pc[t] = "check" /\ refCount[c.for] = 0)
        /\ refCount' = [refCount EXCEPT ![c.for] = @ + 1]
        /\ resource' = [resource EXCEPT ![c.lock] = c.for]
        /\ Returns(t, "idle")
        /\ UNCHANGED <<flag, ownerThread, history>>

(* The two exceptions.  What an acquire() gave up before it throws is still  *)
(* pointed to; and an exception from a destructor ends the process.          *)
ReleaseThrows(t) == pc[t] = "release" /\ refCount[Released(t)] = 0
AcquireThrows(t) == pc[t] = "check" /\ refCount[call[t].for] # 0

Throw(t) ==
    /\ ReleaseThrows(t) \/ AcquireThrows(t)
    /\ broken' = broken \cup ({Released(t)} \ {none})
    /\ Returns(t, IF call[t].kind = "destroy" THEN "terminated" ELSE "idle")
    /\ UNCHANGED <<lockable, resource, leaks>>

(* l = std::move(m), and l = std::move(l).                                   *)
Move(t, l, m) ==
    /\ pc[t] = "idle" /\ User[l] = t /\ User[m] = t
    /\ resource' = [resource EXCEPT ![l] = resource[m], ![m] = none]
    /\ IF resource[l] = none
       THEN UNCHANGED leaks
       ELSE /\ leaks[resource[l]] < MaxLeaks
            /\ leaks' = [leaks EXCEPT ![resource[l]] = @ + 1]
    /\ UNCHANGED <<lockable, pc, call, broken>>

Terminated == ~Running /\ UNCHANGED vars

Next ==
    \/ /\ Running
       /\ \E t \in Threads :
             \/ \E l \in Locks, r \in Resources : Acquire(t, l, r)
             \/ \E l \in Locks, kind \in {"release", "destroy"} : Release(t, l, kind)
             \/ \E l, m \in Locks : Move(t, l, m)
             \/ Decrement(t) \/ Disown(t) \/ Clear(t)
             \/ TestAndSet(t) \/ Continue(t) \/ Own(t) \/ Count(t) \/ Throw(t)
    \/ Terminated

Spec == Init /\ [][Next]_vars
-----------------------------------------------------------------------------
(* Two threads never have lock objects on one Lockable, nested or not, after *)
(* any exchange of what their lock objects hold: unless the user gave it to  *)
(* a second one, or an inner release() gave back what an outer one holds.    *)
HeldByOne ==
    \A l, m \in Locks : resource[l] = resource[m] /\ User[l] # User[m] =>
        resource[l] \in broken \cup {none}

(* While no call is changing it a Lockable counts the lock objects that hold *)
(* it and the references that were lost, and is free when there are none; so *)
(* neither exception is thrown unless the Lockable is broken already.        *)
Changing(r) ==
    \E t \in Threads :
        \/ pc[t] \in {"own", "check", "count"} /\ call[t].for = r
        \/ pc[t] # "idle" /\ call[t].lock # none /\ Released(t) = r

CountsItsLocks ==
    /\ \A r \in Resources \ broken : ~Changing(r) =>
        /\ refCount[r] = Cardinality({l \in Locks : resource[l] = r}) + leaks[r]
        /\ flag[r] = (refCount[r] > 0)
        /\ ownerThread[r] = none <=> ~flag[r]
    /\ \A t \in Threads :
        /\ ReleaseThrows(t) => Released(t) \in broken
        /\ AcquireThrows(t) => call[t].for \in broken
=============================================================================
