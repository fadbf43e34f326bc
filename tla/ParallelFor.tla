---------------------------- MODULE ParallelFor ----------------------------
(***************************************************************************)
(* jobs::parallel_for() of src/JobSystem.h, as built without the parallel  *)
(* standard algorithms, on the JobSystem: a client splits a loop of n      *)
(* iterations into equal jobs, runs the rest itself and completes the      *)
(* jobs.  The jobs refer to the client's locals.  Any iteration may throw; *)
(* a job's exception is rethrown when the client completes it.             *)
(***************************************************************************)
EXTENDS JobSystem

CONSTANTS MaxIterations, \* bound: n is at most this
          MaxThrows      \* bound: so many iterations throw

ASSUME LoopAssumption ==
    /\ MaxIterations \in Nat \ {0, 1}
    /\ MaxThrows \in Nat
    /\ 0 .. MaxIterations - 1 \subseteq Jobs

VARIABLES
    n,         \* the argument
    hw, share, rest, \* the locals hw, concurrency and remainder
    cpc,       \* the client's step
    next,      \* its loop counter: the next job, iteration or result
    progress,  \* each thread's counter c in the job that it executes
    calls,     \* how often callable(i) was called
    threw,     \* the jobs that ended with an exception
    left,      \* parallel_for() has returned or thrown
    thrown     \* the number of exceptions so far

clientVars == <<n, hw, share, rest, cpc, next>>
callVars == <<progress, calls, threw, thrown>>
pfVars == <<poolVars, clientVars, callVars, left>>

Smallest(a, b) == IF a < b THEN a ELSE b

(* hw, concurrency and remainder.                                            *)
\* Mutant: the client's share is empty when the split leaves no remainder.
Mutant_Partition(m) ==
    LET h == Smallest(m, Cardinality(Workers))
        c == m \div h
    IN  [hw |-> h - 1, share |-> c, rest |-> m - h * c]

Partition(m) ==
    LET h == Smallest(m, Cardinality(Workers))
        c == m \div h
        r == m - h * c
    IN  IF r = 0 THEN [hw |-> h - 1, share |-> c, rest |-> c]
                 ELSE [hw |-> h, share |-> c, rest |-> r]

PfInit ==
    /\ PoolInit
    /\ n \in 2 .. MaxIterations
    /\ hw = Partition(n).hw /\ share = Partition(n).share
    /\ rest = Partition(n).rest
    /\ cpc = "schedule" /\ next = 0
    /\ progress = [t \in Threads |-> 0]
    /\ calls = [i \in 0 .. 2 * MaxIterations |-> 0]
    /\ threw = {} /\ left = FALSE /\ thrown = 0

(* callable(i), which may throw.                                             *)
Call(i) == calls' = [calls EXCEPT ![i] = @ + 1]

-----------------------------------------------------------------------------
(* The client.                                                               *)

ScheduleNext ==
    /\ cpc = "schedule" /\ next < hw
    /\ PushJob(next)
    /\ next' = next + 1
    /\ UNCHANGED <<n, hw, share, rest, cpc, callVars, left>>

ScheduledAll ==
    /\ cpc = "schedule" /\ next = hw
    /\ cpc' = "own" /\ next' = 0
    /\ UNCHANGED <<poolVars, n, hw, share, rest, callVars, left>>

OwnCall ==
    /\ cpc = "own" /\ next < rest
    /\ Call(hw * share + next)
    /\ next' = next + 1
    /\ UNCHANGED <<poolVars, n, hw, share, rest, cpc, progress, threw, thrown, left>>

OwnThrow ==
    /\ cpc = "own" /\ next < rest /\ thrown < MaxThrows
    /\ Call(hw * share + next)
    /\ thrown' = thrown + 1
    /\ cpc' = "failed" /\ left' = TRUE
    /\ UNCHANGED <<poolVars, n, hw, share, rest, next, progress, threw>>

OwnDone ==
    /\ cpc = "own" /\ next = rest
    /\ cpc' = "complete" /\ next' = 0
    /\ UNCHANGED <<poolVars, n, hw, share, rest, callVars, left>>

(* complete() of the next handle: waits, then returns or rethrows.           *)
Complete ==
    /\ cpc = "complete" /\ next < hw
    /\ next \in finished \ threw
    /\ next' = next + 1
    /\ UNCHANGED <<poolVars, n, hw, share, rest, cpc, callVars, left>>

CompleteThrows ==
    /\ cpc = "complete" /\ next < hw
    /\ next \in finished \cap threw
    /\ cpc' = "failed" /\ left' = TRUE
    /\ UNCHANGED <<poolVars, n, hw, share, rest, next, callVars>>

Return ==
    /\ cpc = "complete" /\ next = hw
    /\ cpc' = "returned" /\ left' = TRUE
    /\ UNCHANGED <<poolVars, n, hw, share, rest, next, callVars>>

-----------------------------------------------------------------------------
(* The job: concurrency iterations, by the thread t that executes it.        *)

JobCall(t) ==
    /\ running[t] # noJob /\ progress[t] < share
    /\ Call(running[t] * share + progress[t])
    /\ progress' = [progress EXCEPT ![t] = @ + 1]
    /\ UNCHANGED <<poolVars, clientVars, threw, thrown, left>>

Completes(t) == IF t = Restarter THEN DrainPops ELSE WorkerCompletes(t)

JobThrow(t) ==
    /\ running[t] # noJob /\ progress[t] < share /\ thrown < MaxThrows
    /\ Call(running[t] * share + progress[t])
    /\ progress' = [progress EXCEPT ![t] = 0]
    /\ threw' = threw \cup {running[t]} /\ thrown' = thrown + 1
    /\ Completes(t)
    /\ UNCHANGED <<clientVars, left>>

JobEnds(t) ==
    /\ running[t] # noJob /\ progress[t] = share
    /\ progress' = [progress EXCEPT ![t] = 0]
    /\ Completes(t)
    /\ UNCHANGED <<clientVars, calls, threw, thrown, left>>

-----------------------------------------------------------------------------
Client ==
    \/ ScheduleNext \/ ScheduledAll \/ OwnCall \/ OwnThrow \/ OwnDone
    \/ Complete \/ CompleteThrows \/ Return

Job(t) == JobCall(t) \/ JobThrow(t) \/ JobEnds(t)

Worker(w) ==
    \/ WorkerMoves(w) /\ UNCHANGED <<clientVars, callVars, left>>
    \/ Job(w)

Restarting ==
    \/ RestarterMoves /\ UNCHANGED <<clientVars, callVars, left>>
    \/ Job(Restarter)

(* The program may go on without the pool; a pool whose wake-up was missed   *)
(* hangs.  Anything else that stops is a deadlock.                           *)
Stops == (left \/ WakeUpMissed) /\ UNCHANGED pfVars

PfNext ==
    \/ Client
    \/ \E w \in Workers : Worker(w)
    \/ Restarting
    \/ ShutdownQuits /\ UNCHANGED <<clientVars, callVars, left>>
    \/ Stops

(***************************************************************************)
(* Every thread that can run does; nobody is obliged to call restart().    *)
(***************************************************************************)
PfSpec ==
    /\ PfInit /\ [][PfNext]_pfVars
    /\ WF_pfVars(Client) /\ WF_pfVars(Restarting)
    /\ \A w \in Workers : WF_pfVars(Worker(w))
-----------------------------------------------------------------------------
InQueue == {jobs[i] : i \in DOMAIN jobs}
Executing == {running[t] : t \in Threads} \ {noJob}
Scheduled == IF cpc = "schedule" THEN 0 .. next - 1 ELSE 0 .. hw - 1

(* Each job that was scheduled is in one place only: waiting in the queue,   *)
(* executed by a single thread, or finished, whatever restarts come between; *)
(* only the drain executes a job that is still in the queue, its front.      *)
JobsAreKept ==
    /\ Scheduled = InQueue \cup Executing \cup finished
    /\ finished \cap (InQueue \cup Executing) = {}
    /\ Cardinality(InQueue) = Len(jobs)
    /\ \A t \in Threads : running[t] \in InQueue =>
            t = Restarter /\ running[t] = Head(jobs)
    /\ \A t, u \in Threads : running[t] = running[u] => t = u \/ running[t] = noJob

(* No iteration is run twice or past the end, by whichever thread; and when  *)
(* parallel_for() returns each has been run, and nobody is at work for it    *)
(* any more, so that the locals that its jobs refer to may go.               *)
EachIterationOnce ==
    /\ cpc # "failed" =>
        \A i \in DOMAIN calls : calls[i] <= IF i < n THEN 1 ELSE 0
    /\ cpc = "returned" =>
        /\ \A i \in 0 .. n - 1 : calls[i] = 1
        /\ Executing = {} /\ jobs = <<>>

(* parallel_for() ends and a restart gets through, unless a worker missed    *)
(* the shutdown's only wake-up: one that fell asleep between the test of     *)
(* quit and the wait, and then nothing but a later job wakes it.             *)
PoolProgresses ==
    /\ []<>(left \/ WakeUpMissed)
    /\ rpc # "idle" ~> (rpc = "idle" \/ WakeUpMissed)
=============================================================================
