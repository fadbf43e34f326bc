----------------------------- MODULE JobSystem -----------------------------
(***************************************************************************)
(* JobSystem of src/JobSystem.h: a pool of worker threads that pop jobs    *)
(* from a queue under a mutex and sleep on a condition variable, and the   *)
(* thread that restarts the pool, which runs what the workers left.        *)
(*                                                                         *)
(* A stretch of code that holds the mutex and touches only what the mutex  *)
(* guards is one step, taken when nobody holds it.  quit is stored and the *)
(* workers are notified without the mutex, so a worker's test of its       *)
(* condition and its falling asleep, both under the mutex, are two steps.  *)
(*                                                                         *)
(* A job is the number of a call of schedule().  The handle that           *)
(* schedule() returns never refers to its job, so that no job becomes the  *)
(* child of another and the parents given to schedule() are not waited     *)
(* for: the graph of jobs has no state here.                               *)
(***************************************************************************)
EXTENDS Naturals, FiniteSets, Sequences

CONSTANTS Workers,    \* the threads of the pool
          Restarter,  \* the thread that calls restart()
          nobody,     \* no thread
          Jobs,       \* the jobs that a client can schedule
          noJob,
          MaxRestarts \* bound: restart() is called this often

ASSUME PoolAssumption ==
    /\ Workers # {} /\ IsFiniteSet(Workers)
    /\ Restarter \notin Workers /\ nobody \notin Workers \cup {Restarter}
    /\ Jobs \subseteq Nat /\ noJob \notin Jobs
    /\ MaxRestarts \in Nat

VARIABLES
    jobs,     \* the queue of jobs
    mutex,    \* who holds the mutex across steps, or nobody
    quit,     \* std::atomic_bool
    asleep,   \* the workers that wait on the condition variable
    wpc,      \* each worker's step
    running,  \* the job that each thread executes, or noJob
    rpc,      \* the restarting thread's step
    finished, \* the jobs whose packaged_task has run
    restarts,
    late      \* history: the workers between test and sleep when notified

poolVars == <<jobs, mutex, quit, asleep, wpc, running, rpc, finished, restarts,
              late>>

Threads == Workers \cup {Restarter}

PoolInit ==
    /\ jobs = <<>> /\ mutex = nobody /\ quit = FALSE /\ asleep = {}
    /\ wpc = [w \in Workers |-> "enter"]
    /\ running = [t \in Threads |-> noJob]
    /\ rpc = "idle" /\ finished = {} /\ restarts = 0 /\ late = {}

Free == mutex = nobody

-----------------------------------------------------------------------------
(* push() of schedule(): the job is queued and one sleeper is woken.         *)

WakeOne ==
    IF asleep = {} THEN asleep' = asleep
                   ELSE \E w \in asleep : asleep' = asleep \ {w}

PushJob(j) ==
    /\ Free
    /\ jobs' = Append(jobs, j)
    /\ WakeOne
    /\ UNCHANGED <<mutex, quit, wpc, running, rpc, finished, restarts, late>>

-----------------------------------------------------------------------------
(* entry(), by a worker.                                                     *)

Becomes(w, step) == wpc' = [wpc EXCEPT ![w] = step]

(* The loop's top, under the mutex: quit, or pop a job and unlock, or go to  *)
(* the wait, which finds its condition false and keeps the mutex for now.    *)
WorkerQuits(w) ==
    /\ wpc[w] = "enter" /\ Free
    /\ quit
    /\ Becomes(w, "ended")
    /\ UNCHANGED <<jobs, mutex, quit, asleep, running, rpc, finished, restarts, late>>

WorkerPops(w) ==
    /\ wpc[w] = "enter" /\ Free
    /\ ~quit /\ jobs # <<>>
    /\ running' = [running EXCEPT ![w] = Head(jobs)]
    /\ jobs' = Tail(jobs)
    /\ Becomes(w, "execute")
    /\ UNCHANGED <<mutex, quit, asleep, rpc, finished, restarts, late>>

WorkerTests(w) ==
    /\ wpc[w] = "enter" /\ Free
    /\ ~quit /\ jobs = <<>>
    /\ mutex' = w
    /\ Becomes(w, "blocking")
    /\ UNCHANGED <<jobs, quit, asleep, running, rpc, finished, restarts, late>>

(* Gives the mutex up and sleeps, as one step.                               *)
WorkerBlocks(w) ==
    /\ wpc[w] = "blocking"
    /\ asleep' = asleep \cup {w}
    /\ mutex' = nobody
    /\ Becomes(w, "waiting")
    /\ UNCHANGED <<jobs, quit, running, rpc, finished, restarts, late>>

(* A woken worker tests its condition again, which is what the loop does.    *)
WorkerWakes(w) ==
    /\ wpc[w] = "waiting" /\ w \notin asleep
    /\ Becomes(w, "enter")
    /\ UNCHANGED <<jobs, mutex, quit, asleep, running, rpc, finished, restarts, late>>

(* The packaged_task is through: its future is ready.                        *)
WorkerCompletes(w) ==
    /\ wpc[w] = "execute"
    /\ finished' = finished \cup {running[w]}
    /\ running' = [running EXCEPT ![w] = noJob]
    /\ Becomes(w, "enter")
    /\ UNCHANGED <<jobs, mutex, quit, asleep, rpc, restarts, late>>

-----------------------------------------------------------------------------
(* restart(): shutdown() and start().                                        *)

RestarterBecomes(step) == rpc' = step

ShutdownQuits ==
    /\ rpc = "idle" /\ restarts < MaxRestarts
    /\ restarts' = restarts + 1
    /\ quit' = TRUE
    /\ RestarterBecomes("notify")
    /\ UNCHANGED <<jobs, mutex, asleep, wpc, running, finished, late>>

\* Mutant: only one worker is told to quit.
Mutant_ShutdownNotifies ==
    /\ rpc = "notify"
    /\ WakeOne
    /\ late' = {w \in Workers : wpc[w] = "blocking"}
    /\ RestarterBecomes("join")
    /\ UNCHANGED <<jobs, mutex, quit, wpc, running, finished, restarts>>

ShutdownNotifies ==
    /\ rpc = "notify"
    /\ asleep' = {}
    /\ late' = {w \in Workers : wpc[w] = "blocking"}
    /\ RestarterBecomes("join")
    /\ UNCHANGED <<jobs, mutex, quit, wpc, running, finished, restarts>>

\* Mutant: shutdown() does not wait for the workers.
Mutant_ShutdownJoins ==
    /\ rpc = "join" /\ Free
    /\ mutex' = Restarter
    /\ RestarterBecomes("drain")
    /\ UNCHANGED <<jobs, quit, asleep, wpc, running, finished, restarts, late>>

(* All threads are joined; then the mutex is taken for the whole drain.      *)
ShutdownJoins ==
    /\ rpc = "join"
    /\ \A w \in Workers : wpc[w] = "ended"
    /\ Free
    /\ mutex' = Restarter
    /\ RestarterBecomes("drain")
    /\ UNCHANGED <<jobs, quit, asleep, wpc, running, finished, restarts, late>>

(* A job is executed while it is still the queue's front, and popped after.  *)
(* That its future is ready and that it is popped are one step: the queue's  *)
(* mutex is held from before the one until after the other, so that nobody   *)
(* sees the queue between them.                                              *)
DrainExecutes ==
    /\ rpc = "drain" /\ jobs # <<>>
    /\ running' = [running EXCEPT ![Restarter] = Head(jobs)]
    /\ RestarterBecomes("execute")
    /\ UNCHANGED <<jobs, mutex, quit, asleep, wpc, finished, restarts, late>>

DrainPops ==
    /\ rpc = "execute"
    /\ finished' = finished \cup {running[Restarter]}
    /\ running' = [running EXCEPT ![Restarter] = noJob]
    /\ jobs' = Tail(jobs)
    /\ RestarterBecomes("drain")
    /\ UNCHANGED <<mutex, quit, asleep, wpc, restarts, late>>

DrainEnds ==
    /\ rpc = "drain" /\ jobs = <<>>
    /\ mutex' = nobody
    /\ RestarterBecomes("start")
    /\ UNCHANGED <<jobs, quit, asleep, wpc, running, finished, restarts, late>>

(* quit is reset and the threads begin; the number of workers is the same,   *)
(* so that concurrency() keeps its value.                                    *)
Start ==
    /\ rpc = "start"
    /\ quit' = FALSE /\ late' = {}
    /\ wpc' = [w \in Workers |-> "enter"]
    /\ RestarterBecomes("idle")
    /\ UNCHANGED <<jobs, mutex, asleep, running, finished, restarts>>

-----------------------------------------------------------------------------
(* The end of an execution belongs to whoever knows what the job does.       *)
WorkerMoves(w) ==
    \/ WorkerQuits(w) \/ WorkerPops(w) \/ WorkerTests(w) \/ WorkerBlocks(w)
    \/ WorkerWakes(w)

RestarterMoves ==
    \/ ShutdownNotifies \/ ShutdownJoins \/ DrainExecutes
    \/ DrainEnds \/ Start

(* A worker that shutdown() waits for and nobody will wake: it had tested    *)
(* quit before that was set and fell asleep after the notification.          *)
WakeUpMissed == rpc = "join" /\ asleep \cap late # {}
=============================================================================
