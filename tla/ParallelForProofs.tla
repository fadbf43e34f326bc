-------------------------- MODULE ParallelForProofs --------------------------
(***************************************************************************)
(* Theorems about ParallelFor, for any number of workers, iterations,      *)
(* restarts and exceptions.                                                *)
(*                                                                         *)
(* The argument: jobs are queued in the order of their numbers and leave   *)
(* the queue in that order, so that at any time those before Front are     *)
(* executed or finished and the others wait (Kept); the mutex keeps the    *)
(* workers off the front that a restart executes (Locking).  The split     *)
(* maps the iterations of the jobs and of the client, its job number hw,   *)
(* one to one to those of the loop, so that the count of each tells how    *)
(* far its job has come (Counted, Own, Beyond).                            *)
(***************************************************************************)
EXTENDS ParallelFor, FiniteSetTheorems, SequenceTheorems, TLAPS

Submitted == IF cpc = "schedule" THEN next ELSE hw
Front == Submitted - Len(jobs)
At(j, k) == j * share + k

(* What the client has split the loop into, and never changes.               *)
Split ==
    /\ n \in 2 .. MaxIterations /\ hw \in Nat /\ hw < n
    /\ share \in Nat \ {0} /\ rest \in Nat \ {0}
    /\ n = hw * share + rest

TypeOK ==
    /\ jobs \in Seq(Nat) /\ mutex \in Threads \cup {nobody}
    /\ wpc \in [Workers -> {"enter", "ended", "execute", "blocking", "waiting"}]
    /\ running \in [Threads -> (0 .. hw - 1) \cup {noJob}]
    /\ rpc \in {"idle", "notify", "join", "drain", "execute", "start"}
    /\ finished \subseteq 0 .. hw - 1 /\ threw \subseteq finished
    /\ cpc \in {"schedule", "own", "complete", "returned", "failed"}
    /\ next \in Nat
    /\ cpc \in {"schedule", "complete"} => next <= hw
    /\ cpc = "own" => next <= rest
    /\ progress \in [Threads -> Nat]
    /\ calls \in [0 .. 2 * MaxIterations -> Nat]

Locking ==
    /\ \A w \in Workers : wpc[w] = "blocking" <=> mutex = w
    /\ rpc \in {"drain", "execute"} <=> mutex = Restarter
    /\ \A w \in Workers : wpc[w] = "execute" <=> running[w] # noJob
    /\ rpc = "execute" <=> running[Restarter] # noJob
    /\ rpc \in {"drain", "execute", "start"} => \A w \in Workers : wpc[w] = "ended"

Kept ==
    /\ Len(jobs) <= Submitted
    /\ \A i \in 1 .. Len(jobs) : jobs[i] = Front + i - 1
    /\ \A w \in Workers : running[w] # noJob =>
            running[w] \in 0 .. Front - 1 /\ running[w] \notin finished
    /\ running[Restarter] # noJob => jobs # <<>> /\ running[Restarter] = Front
    /\ \A w, u \in Workers : running[w] = running[u] => w = u \/ running[w] = noJob
    /\ finished \subseteq 0 .. Front - 1
    /\ \A j \in 0 .. Front - 1 : j \in finished \/ \E w \in Workers : running[w] = j

(* How often the iterations of each job were called.                         *)
Counted ==
    /\ \A t \in Threads : progress[t] <= share /\ (running[t] = noJob => progress[t] = 0)
    /\ \A t \in Threads : running[t] # noJob =>
            \A k \in 0 .. share - 1 :
                calls[At(running[t], k)] = IF k < progress[t] THEN 1 ELSE 0
    /\ \A j \in finished \ threw : \A k \in 0 .. share - 1 : calls[At(j, k)] = 1
    /\ \A j \in threw : \A k \in 0 .. share - 1 : calls[At(j, k)] <= 1
    /\ \A j \in Front .. hw - 1 : j # running[Restarter] =>
            \A k \in 0 .. share - 1 : calls[At(j, k)] = 0

(* And those that the client runs itself, unless one of them threw.          *)
Own ==
    cpc # "failed" =>
        \A k \in 0 .. rest - 1 :
            calls[At(hw, k)] =
                IF cpc = "schedule" \/ (cpc = "own" /\ k >= next) THEN 0 ELSE 1

Beyond == \A i \in n .. 2 * MaxIterations : calls[i] = 0

(* The jobs that were completed returned.                                    *)
Completed ==
    /\ cpc = "complete" => 0 .. next - 1 \subseteq finished \ threw
    /\ cpc = "returned" => 0 .. hw - 1 \subseteq finished \ threw

IInv ==
    /\ Split /\ TypeOK /\ Locking /\ Kept
    /\ Counted /\ Own /\ Beyond /\ Completed

-----------------------------------------------------------------------------
(* The split.                                                                *)

(* A larger number of shares is larger by one of them at least.              *)
LEMMA Shares == \A a, b, c \in Nat : a < b => a * c + c <= b * c
<1> SUFFICES ASSUME NEW a \in Nat, NEW b \in Nat, NEW c \in Nat, a < b
             PROVE  a * c + c <= b * c
  OBVIOUS
<1>1. PICK d \in Nat : b = a + 1 + d
  <2>1. b - a - 1 \in Nat /\ b = a + 1 + (b - a - 1)
    OBVIOUS
  <2> QED
    BY <2>1
<1>2. b * c = a * c + c + d * c
  BY <1>1
<1>3. d * c \in Nat /\ a * c \in Nat
  OBVIOUS
<1> QED
  BY <1>2, <1>3

(* The iterations of a job are the loop's, before those of the client.       *)
LEMMA InTheLoop ==
    ASSUME Split
    PROVE  /\ \A j \in 0 .. hw - 1, k \in 0 .. share - 1 : At(j, k) \in 0 .. hw * share - 1
           /\ \A k \in 0 .. rest - 1 : At(hw, k) \in hw * share .. n - 1
           /\ hw * share \in Nat /\ hw * share <= n
           /\ 0 .. n - 1 \subseteq 0 .. 2 * MaxIterations
           /\ 0 .. hw - 1 \subseteq Jobs
<1>1. hw * share \in Nat
  BY DEF Split
<1>2. ASSUME NEW j \in 0 .. hw - 1, NEW k \in 0 .. share - 1
      PROVE  At(j, k) \in 0 .. hw * share - 1
  <2>1. j * share \in Nat /\ j \in Nat /\ j < hw
    BY DEF Split
  <2>2. j * share + share <= hw * share
    BY <2>1, Shares DEF Split
  <2>3. \A x, y, z \in Nat : x + y <= z /\ k < y => x + k \in 0 .. z - 1
    BY DEF Split
  <2> QED
    BY <1>1, <2>1, <2>2, <2>3 DEF At, Split
<1>3. \A k \in 0 .. rest - 1 : At(hw, k) \in hw * share .. n - 1
  BY <1>1 DEF At, Split
<1>4. 0 .. n - 1 \subseteq 0 .. 2 * MaxIterations /\ 0 .. hw - 1 \subseteq Jobs
  BY LoopAssumption DEF Split, LoopAssumption
<1>5. hw * share <= n
  BY <1>1 DEF Split
<1> QED
  BY <1>1, <1>2, <1>3, <1>4, <1>5

(* No iteration is two jobs', and none twice a job's.                        *)
LEMMA OneToOne ==
    ASSUME Split, NEW j \in 0 .. hw - 1, NEW k \in 0 .. share - 1,
           NEW l \in 0 .. hw - 1, NEW m \in 0 .. share - 1, At(j, k) = At(l, m)
    PROVE  j = l /\ k = m
<1>1. j \in Nat /\ l \in Nat /\ share \in Nat /\ j * share \in Nat /\ l * share \in Nat
  BY DEF Split
<1>2. ~(j < l)
  <2>1. j < l => j * share + share <= l * share
    BY <1>1, Shares
  <2>2. \A x, y \in Nat : x + k = y + m => ~(x + share <= y)
    BY <1>1
  <2> QED
    BY <1>1, <2>1, <2>2 DEF At
<1>3. ~(l < j)
  <2>1. l < j => l * share + share <= j * share
    BY <1>1, Shares
  <2>2. \A x, y \in Nat : x + k = y + m => ~(y + share <= x)
    BY <1>1
  <2> QED
    BY <1>1, <2>1, <2>2 DEF At
<1>4. j = l
  BY <1>1, <1>2, <1>3
<1>5. \A x \in Nat : x + k = x + m => k = m
  OBVIOUS
<1> QED
  BY <1>1, <1>4, <1>5 DEF At

(* Each iteration before the client's is a job's.                            *)
LEMMA SomeJobs ==
    ASSUME Split, NEW i \in 0 .. hw * share - 1
    PROVE  \E j \in 0 .. hw - 1, k \in 0 .. share - 1 : i = At(j, k)
<1> DEFINE j == i \div share
           k == i % share
<1>1. i \in Nat /\ share \in Nat \ {0} /\ hw \in Nat /\ i < hw * share
  BY InTheLoop DEF Split
<1>2. i = share * j + k /\ k \in 0 .. share - 1 /\ j \in Nat
  BY <1>1
<1>3. share * j = j * share /\ j * share \in Nat
  BY <1>1, <1>2
<1>4. j < hw
  <2>1. ~(j < hw) => hw * share <= j * share
    <3>1. hw < j => hw * share + share <= j * share
      BY <1>1, <1>2, Shares
    <3>2. hw * share \in Nat
      BY <1>1
    <3> QED
      BY <1>1, <1>2, <1>3, <3>1, <3>2
  <2> HIDE DEF j, k
  <2>2. hw * share \in Nat
    BY <1>1
  <2> QED
    BY <1>1, <1>2, <1>3, <2>1, <2>2
<1> HIDE DEF j, k
<1>5. j \in 0 .. hw - 1 /\ i = At(j, k)
  BY <1>1, <1>2, <1>3, <1>4 DEF At
<1> QED
  BY <1>2, <1>5

(* The split leaves nothing out.                                             *)
LEMMA Partitions ==
    ASSUME PoolAssumption, LoopAssumption, NEW m \in 2 .. MaxIterations
    PROVE  /\ Partition(m).hw \in Nat /\ Partition(m).hw < m
           /\ Partition(m).share \in Nat \ {0} /\ Partition(m).rest \in Nat \ {0}
           /\ m = Partition(m).hw * Partition(m).share + Partition(m).rest
<1> DEFINE h == Smallest(m, Cardinality(Workers))
           c == m \div h
           r == m - h * c
<1>1. Cardinality(Workers) \in Nat \ {0}
  BY FS_CardinalityType, FS_EmptySet DEF PoolAssumption
<1>2. m \in Nat /\ m >= 2 /\ h \in Nat \ {0} /\ h <= m
  BY <1>1 DEF Smallest, LoopAssumption
<1>3. c \in Nat /\ m = h * c + (m % h) /\ (m % h) \in 0 .. h - 1
  <2> HIDE DEF h
  <2> QED
    BY <1>2
<1>4. c # 0
  <2>1. c = 0 => m = m % h
    BY <1>2, <1>3
  <2> HIDE DEF c, h
  <2> QED
    BY <1>2, <1>3, <2>1
<1>5. r \in 0 .. h - 1 /\ m = h * c + r /\ h * c \in Nat
  <2>1. h * c \in Nat
    BY <1>2, <1>3
  <2> HIDE DEF c, h
  <2> QED
    BY <1>2, <1>3, <2>1
<1>6. Partition(m) = IF r = 0 THEN [hw |-> h - 1, share |-> c, rest |-> c]
                              ELSE [hw |-> h, share |-> c, rest |-> r]
  BY DEF Partition
<1> HIDE DEF h, c, r
<1>7. CASE r = 0
  <2>1. h * c = (h - 1) * c + c
    BY <1>2, <1>3
  <2>2. h * c = m
    BY <1>2, <1>5, <1>7
  <2> QED
    BY <1>2, <1>3, <1>4, <1>6, <1>7, <2>1, <2>2
<1>8. CASE r # 0
  <2>1. h < m
    <3>1. h = m => c = 1 \/ h * c # m
      BY <1>2, <1>3
    <3>2. c >= 1 => h * c >= h
      BY <1>2, <1>3
    <3> QED
      BY <1>2, <1>3, <1>4, <1>5, <1>8, <3>2
  <2> QED
    BY <1>2, <1>3, <1>4, <1>5, <1>6, <1>8, <2>1
<1> QED
  BY <1>7, <1>8
-----------------------------------------------------------------------------
(* The pool's steps in which no job begins, ends or is queued.               *)

(* Numbers that the proofs use: the front of the queue is the next to go.    *)
LEMMA Numbers ==
    ASSUME PoolAssumption, LoopAssumption, IInv
    PROVE  /\ hw \in Nat /\ Submitted \in 0 .. hw /\ Len(jobs) \in Nat
           /\ Front \in 0 .. hw /\ Front + Len(jobs) = Submitted
           /\ \A j \in 0 .. hw - 1 : j # noJob
           /\ jobs # <<>> => Front < hw /\ Head(jobs) = Front
<1>1. /\ hw \in Nat /\ Submitted \in 0 .. hw /\ Len(jobs) \in Nat
  BY DEF IInv, Split, TypeOK, Submitted
<1>2. Front \in 0 .. hw /\ Front + Len(jobs) = Submitted
  BY <1>1 DEF Front, IInv, Kept
<1>3. \A j \in 0 .. hw - 1 : j # noJob
  BY InTheLoop DEF PoolAssumption, IInv
<1>4. jobs # <<>> => Front < hw /\ Head(jobs) = Front
  <2> SUFFICES ASSUME jobs # <<>> PROVE Front < hw /\ Head(jobs) = Front
    OBVIOUS
  <2>1. Len(jobs) # 0 /\ Head(jobs) = jobs[1]
    BY DEF IInv, TypeOK
  <2>2. jobs[1] = Front + 1 - 1
    BY <1>1, <2>1 DEF IInv, Kept
  <2> QED
    BY <1>1, <1>2, <2>1, <2>2
<1> QED
  BY <1>1, <1>2, <1>3, <1>4

(* What is said of jobs and calls only depends on these variables.           *)
LEMMA QuietKeeps ==
    ASSUME IInv, UNCHANGED <<jobs, running, finished, clientVars, callVars>>, Locking',
           mutex' \in Threads \cup {nobody},
           wpc' \in [Workers -> {"enter", "ended", "execute", "blocking", "waiting"}],
           rpc' \in {"idle", "notify", "join", "drain", "execute", "start"}
    PROVE  IInv'
<1>1. UNCHANGED <<n, hw, share, rest, cpc, next, progress, calls, threw, thrown>>
  BY DEF clientVars, callVars
<1>2. Split' /\ TypeOK'
  BY <1>1 DEF IInv, Split, TypeOK
<1>3. Submitted' = Submitted /\ Front' = Front /\ \A j, k : At(j, k)' = At(j, k)
  BY <1>1 DEF Submitted, Front, At
<1>4. Kept'
  BY <1>1, <1>3 DEF IInv, Kept
<1>5. (Counted /\ Own)'
  BY <1>1, <1>3 DEF IInv, Counted, Own, At
<1>6. (Beyond /\ Completed)'
  BY <1>1 DEF IInv, Beyond, Completed
<1> QED
  BY <1>2, <1>4, <1>5, <1>6 DEF IInv

(* The workers' moves but for the one that takes a job.                      *)
LEMMA WorkerMovesKeeps ==
    ASSUME PoolAssumption, IInv, NEW w \in Workers, UNCHANGED <<clientVars, callVars>>,
           WorkerQuits(w) \/ WorkerTests(w) \/ WorkerBlocks(w) \/ WorkerWakes(w)
    PROVE  IInv'
<1>1. w # nobody /\ w # Restarter
  BY DEF PoolAssumption
<1>2. PICK at \in {"ended", "blocking", "waiting", "enter"} :
        /\ wpc' = [wpc EXCEPT ![w] = at] /\ wpc[w] \in {"enter", "blocking", "waiting"}
        /\ wpc[w] = "blocking" => mutex' = nobody
        /\ wpc[w] # "blocking" => mutex' = IF at = "blocking" THEN w ELSE mutex
        /\ at = "blocking" => mutex = nobody
        /\ wpc[w] = "blocking" => at # "blocking"
  BY DEF WorkerQuits, WorkerTests, WorkerBlocks, WorkerWakes, Becomes, Free
<1>3. UNCHANGED <<jobs, running, finished, rpc>>
  BY DEF WorkerQuits, WorkerTests, WorkerBlocks, WorkerWakes
<1>4. wpc'[w] = at /\ \A u \in Workers : u # w => wpc'[u] = wpc[u]
  BY <1>2 DEF IInv, TypeOK
<1>5. rpc \notin {"drain", "execute", "start"}
  BY <1>2 DEF IInv, Locking
<1>6. Locking'
  <2>1. wpc[w] = "blocking" => mutex = w
    BY DEF IInv, Locking
  <2>2. \A u \in Workers : wpc'[u] = "blocking" <=> mutex' = u
    BY <1>1, <1>2, <1>4, <2>1 DEF IInv, Locking, PoolAssumption
  <2>3. mutex' # Restarter
    BY <1>1, <1>2, <1>5, <2>1 DEF IInv, Locking, PoolAssumption
  <2>4. \A u \in Workers : wpc'[u] = "execute" <=> running'[u] # noJob
    BY <1>2, <1>3, <1>4 DEF IInv, Locking
  <2> QED
    BY <1>3, <1>5, <2>2, <2>3, <2>4 DEF IInv, Locking
<1>7. /\ mutex' \in Threads \cup {nobody}
      /\ wpc' \in [Workers -> {"enter", "ended", "execute", "blocking", "waiting"}]
      /\ rpc' \in {"idle", "notify", "join", "drain", "execute", "start"}
  BY <1>2, <1>3 DEF IInv, TypeOK, Threads
<1> QED
  BY <1>3, <1>6, <1>7, QuietKeeps

(* The restarter's moves but for the one that takes a job.                   *)
LEMMA RestarterMovesKeeps ==
    ASSUME PoolAssumption, IInv, UNCHANGED <<clientVars, callVars>>,
           ShutdownQuits \/ ShutdownNotifies \/ ShutdownJoins \/ DrainEnds \/ Start
    PROVE  IInv'
<1>1. UNCHANGED <<jobs, running, finished>>
  BY DEF ShutdownQuits, ShutdownNotifies, ShutdownJoins, DrainEnds, Start
<1>2. nobody # Restarter /\ \A w \in Workers : w # nobody /\ w # Restarter
  BY DEF PoolAssumption
<1>3. CASE ShutdownQuits \/ ShutdownNotifies
  <2>1. /\ rpc \in {"idle", "notify"} /\ rpc' \in {"notify", "join"}
        /\ UNCHANGED <<mutex, wpc>>
    BY <1>3 DEF ShutdownQuits, ShutdownNotifies, RestarterBecomes
  <2>2. Locking'
    BY <1>1, <2>1 DEF IInv, Locking
  <2> QED
    BY <1>1, <2>1, <2>2, QuietKeeps DEF IInv, TypeOK
<1>4. CASE ShutdownJoins
  <2>1. /\ rpc = "join" /\ rpc' = "drain" /\ mutex = nobody /\ mutex' = Restarter /\ wpc' = wpc
        /\ \A w \in Workers : wpc[w] = "ended"
    BY <1>4 DEF ShutdownJoins, RestarterBecomes, Free
  <2>2. Locking'
    BY <1>1, <1>2, <2>1 DEF IInv, Locking
  <2> QED
    BY <1>1, <2>1, <2>2, QuietKeeps DEF IInv, TypeOK, Threads
<1>5. CASE DrainEnds
  <2>1. rpc = "drain" /\ rpc' = "start" /\ mutex' = nobody /\ wpc' = wpc
    BY <1>5 DEF DrainEnds, RestarterBecomes
  <2>2. Locking'
    BY <1>1, <1>2, <2>1 DEF IInv, Locking
  <2> QED
    BY <1>1, <2>1, <2>2, QuietKeeps DEF IInv, TypeOK, Threads
<1>6. CASE Start
  <2>1. /\ rpc = "start" /\ rpc' = "idle" /\ mutex' = mutex
        /\ wpc' = [w \in Workers |-> "enter"]
    BY <1>6 DEF Start, RestarterBecomes
  <2>2. \A w \in Workers : wpc[w] = "ended" /\ mutex # w /\ running[w] = noJob
    BY <2>1 DEF IInv, Locking
  <2>3. Locking'
    BY <1>1, <1>2, <2>1, <2>2 DEF IInv, Locking
  <2> QED
    BY <1>1, <2>1, <2>3, QuietKeeps DEF IInv, TypeOK, Threads
<1> QED
  BY <1>3, <1>4, <1>5, <1>6
-----------------------------------------------------------------------------
(* The client's steps.                                                       *)

(* A job is queued behind the others.                                        *)
LEMMA ScheduleKeeps ==
    ASSUME PoolAssumption, LoopAssumption, IInv, ScheduleNext
    PROVE  IInv'
<1>1. /\ cpc = "schedule" /\ next < hw /\ next' = next + 1 /\ mutex = nobody
      /\ jobs' = Append(jobs, next)
      /\ UNCHANGED <<n, hw, share, rest, cpc, progress, calls, threw, left,
                     mutex, wpc, running, rpc, finished>>
  BY DEF ScheduleNext, PushJob, Free, callVars
<1>2. /\ hw \in Nat /\ Submitted \in 0 .. hw /\ Len(jobs) \in Nat
      /\ Front \in 0 .. hw /\ Front + Len(jobs) = Submitted
  BY Numbers
<1>3. /\ Submitted = next /\ Submitted' = next + 1 /\ next \in Nat
      /\ jobs' \in Seq(Nat) /\ Len(jobs') = Len(jobs) + 1
      /\ \A i \in 1 .. Len(jobs') : jobs'[i] = IF i = Len(jobs) + 1 THEN next ELSE jobs[i]
  BY <1>1 DEF IInv, TypeOK, Submitted
<1>4. Front' = Front
  BY <1>2, <1>3 DEF Front
<1>5. Split' /\ TypeOK'
  BY <1>1, <1>2, <1>3 DEF IInv, Split, TypeOK
<1>6. Locking'
  BY <1>1 DEF IInv, Locking
<1>7. Kept'
  <2>1. Len(jobs)' <= Submitted'
    BY <1>2, <1>3
  <2>2. ASSUME NEW i \in 1 .. Len(jobs') PROVE jobs'[i] = Front' + i - 1
    <3>1. CASE i = Len(jobs) + 1
      <4>1. next = Front + (Len(jobs) + 1) - 1
        BY <1>2, <1>3
      <4> QED
        BY <1>3, <1>4, <3>1, <4>1
    <3>2. CASE i # Len(jobs) + 1
      <4>1. i \in 1 .. Len(jobs)
        BY <1>2, <1>3, <3>2
      <4> QED
        BY <1>3, <1>4, <3>2, <4>1 DEF IInv, Kept
    <3> QED
      BY <3>1, <3>2
  <2>3. running[Restarter] = noJob
    BY <1>1 DEF IInv, Locking, PoolAssumption
  <2> QED
    BY <1>1, <1>4, <2>1, <2>2, <2>3 DEF IInv, Kept
<1>8. (Counted /\ Own)'
  BY <1>1, <1>4 DEF IInv, Counted, Own, At
<1>9. (Beyond /\ Completed)'
  BY <1>1 DEF IInv, Beyond, Completed
<1> QED
  BY <1>5, <1>6, <1>7, <1>8, <1>9 DEF IInv

(* The steps from one stage of parallel_for() to the next, and the           *)
(* completion of a job.                                                      *)
LEMMA ClientStageKeeps ==
    ASSUME PoolAssumption, LoopAssumption, IInv,
           ScheduledAll \/ OwnDone \/ Complete \/ CompleteThrows \/ Return
    PROVE  IInv'
<1>1. UNCHANGED <<n, hw, share, rest, progress, calls, threw, jobs, mutex, wpc, running, rpc, finished>>
  BY DEF ScheduledAll, OwnDone, Complete, CompleteThrows, Return, poolVars, callVars
<1>2. /\ Submitted' = Submitted
      /\ cpc' \in {"own", "complete", "returned", "failed"}
      /\ next' \in Nat /\ (cpc' = "complete" => next' <= hw) /\ (cpc' = "own" => next' <= rest)
  <2>1. hw \in Nat /\ rest \in Nat /\ next \in Nat
    BY DEF IInv, Split, TypeOK
  <2>2. CASE ScheduledAll
    BY <2>1, <2>2 DEF ScheduledAll, Submitted
  <2>3. CASE OwnDone
    BY <2>1, <2>3 DEF OwnDone, Submitted
  <2>4. CASE Complete
    BY <2>1, <2>4 DEF Complete, Submitted
  <2>5. CASE CompleteThrows \/ Return
    BY <2>1, <2>5 DEF CompleteThrows, Return, Submitted
  <2> QED
    BY <2>2, <2>3, <2>4, <2>5
<1>3. Split' /\ TypeOK'
  BY <1>1, <1>2 DEF IInv, Split, TypeOK
<1>4. (Locking /\ Beyond)'
  BY <1>1 DEF IInv, Locking, Beyond
<1>5. Front' = Front
  BY <1>1, <1>2 DEF Front
<1>6. Kept'
  BY <1>1, <1>2, <1>5 DEF IInv, Kept
<1>7. Counted'
  BY <1>1, <1>5 DEF IInv, Counted, At
<1>8. Own'
  <2>1. CASE ScheduledAll
    BY <1>1, <2>1 DEF ScheduledAll, IInv, Own, At, Split
  <2>2. CASE OwnDone
    BY <1>1, <2>2 DEF OwnDone, IInv, Own, At, Split
  <2>3. CASE Complete \/ CompleteThrows \/ Return
    BY <1>1, <2>3 DEF Complete, CompleteThrows, Return, IInv, Own, At
  <2> QED
    BY <2>1, <2>2, <2>3
<1>9. Completed'
  BY <1>1 DEF ScheduledAll, OwnDone, Complete, CompleteThrows, Return, IInv, Completed,
              TypeOK, Split
<1> QED
  BY <1>3, <1>4, <1>6, <1>7, <1>8, <1>9 DEF IInv

(* The client runs an iteration of its own, which no job has.                *)
LEMMA OwnKeeps ==
    ASSUME PoolAssumption, LoopAssumption, IInv, OwnCall \/ OwnThrow
    PROVE  IInv'
<1> DEFINE i == hw * share + next
<1>1. /\ cpc = "own" /\ next < rest /\ next \in Nat
      /\ calls' = [calls EXCEPT ![i] = calls[i] + 1]
      /\ \/ cpc' = "own" /\ next' = next + 1
         \/ cpc' = "failed" /\ next' = next
      /\ UNCHANGED <<n, hw, share, rest, progress, threw, jobs, mutex, wpc, running, rpc, finished>>
  BY DEF OwnCall, OwnThrow, Call, poolVars, IInv, TypeOK
<1>2. /\ next \in 0 .. rest - 1 /\ i = At(hw, next) /\ i \in hw * share .. n - 1
      /\ hw * share \in Nat /\ n \in Nat
      /\ i \in 0 .. 2 * MaxIterations
  <2>1. next \in 0 .. rest - 1 /\ i = At(hw, next) /\ n \in Nat
    BY <1>1 DEF At, IInv, Split
  <2>2. hw * share \in Nat /\ i \in hw * share .. n - 1 /\ 0 .. n - 1 \subseteq 0 .. 2 * MaxIterations
    BY <2>1, InTheLoop DEF IInv
  <2> HIDE DEF i
  <2>3. i \in 0 .. n - 1
    BY <2>1, <2>2
  <2> QED
    BY <2>1, <2>2, <2>3
<1>3. calls[i] = 0
  BY <1>1, <1>2 DEF IInv, Own
<1> HIDE DEF i
<1>4. /\ calls'[i] = 1 /\ \A m \in 0 .. 2 * MaxIterations : m # i => calls'[m] = calls[m]
      /\ calls' \in [0 .. 2 * MaxIterations -> Nat]
  BY <1>1, <1>2, <1>3 DEF IInv, TypeOK
<1>5. Split' /\ TypeOK'
  <2>1. next' \in Nat /\ (cpc' = "own" => next' <= rest)
    BY <1>1 DEF IInv, Split
  <2> QED
    BY <1>1, <1>4, <2>1 DEF IInv, Split, TypeOK
<1>6. Locking'
  BY <1>1 DEF IInv, Locking
<1>7. Submitted' = Submitted /\ Front' = Front
  BY <1>1 DEF Submitted, Front
<1>8. Kept'
  BY <1>1, <1>7 DEF IInv, Kept
<1>9. \A j \in 0 .. hw - 1, k \in 0 .. share - 1 : At(j, k)' = At(j, k) /\ calls'[At(j, k)] = calls[At(j, k)]
  <2>1. \A j \in 0 .. hw - 1, k \in 0 .. share - 1 :
          At(j, k) \in 0 .. hw * share - 1 /\ At(j, k) \in 0 .. n - 1
    BY <1>2, InTheLoop DEF IInv
  <2>2. \A j, k : At(j, k)' = At(j, k)
    BY <1>1 DEF At
  <2>3. 0 .. n - 1 \subseteq 0 .. 2 * MaxIterations
    BY InTheLoop DEF IInv
  <2> QED
    BY SMTT(30), <1>2, <1>4, <2>1, <2>2, <2>3
<1>10. Counted'
  <2>1. \A t \in Threads : running[t] # noJob =>
          \A k \in 0 .. share - 1 :
              calls'[At(running[t], k)'] = IF k < progress[t] THEN 1 ELSE 0
    BY <1>1, <1>9 DEF IInv, Counted, TypeOK
  <2>2. \A j \in finished \cup threw : j \in 0 .. hw - 1
    BY DEF IInv, TypeOK
  <2>3. /\ \A j \in finished \ threw : \A k \in 0 .. share - 1 : calls'[At(j, k)'] = 1
        /\ \A j \in threw : \A k \in 0 .. share - 1 : calls'[At(j, k)'] <= 1
    <3>1. ASSUME NEW j \in finished \cup threw, NEW k \in 0 .. share - 1
          PROVE  calls'[At(j, k)'] = calls[At(j, k)]
      BY <1>9, <2>2
    <3> QED
      BY <3>1 DEF IInv, Counted
  <2>4. \A j \in Front .. hw - 1 : j # running[Restarter] =>
            \A k \in 0 .. share - 1 : calls'[At(j, k)'] = 0
    <3>1. \A j \in Front .. hw - 1 : j \in 0 .. hw - 1
      BY Numbers
    <3> QED
      BY <1>9, <3>1 DEF IInv, Counted
  <2> QED
    BY <1>1, <1>7, <2>1, <2>3, <2>4 DEF IInv, Counted
<1>11. Own'
  <2>1. ASSUME cpc' # "failed", NEW k \in 0 .. rest - 1
        PROVE  calls'[At(hw, k)] = IF k >= next + 1 THEN 0 ELSE 1
    <3>1. At(hw, k) \in 0 .. 2 * MaxIterations /\ (At(hw, k) = i <=> k = next)
      <4>1. At(hw, k) \in hw * share .. n - 1 /\ 0 .. n - 1 \subseteq 0 .. 2 * MaxIterations
        BY InTheLoop DEF IInv
      <4>2. \A x \in Nat : x + k = x + next <=> k = next
        BY <1>1
      <4> QED
        BY <1>2, <4>1, <4>2 DEF At
    <3>2. calls[At(hw, k)] = IF k >= next THEN 0 ELSE 1
      BY <1>1 DEF IInv, Own
    <3> QED
      BY <1>1, <1>3, <1>4, <3>1, <3>2
  <2>2. \A j, k : At(j, k)' = At(j, k)
    BY <1>1 DEF At
  <2> QED
    BY <1>1, <2>1, <2>2 DEF Own
<1>12. Beyond'
  BY <1>1, <1>2, <1>4 DEF IInv, Beyond
<1>13. Completed'
  BY <1>1 DEF Completed
<1> QED
  BY <1>5, <1>6, <1>8, <1>10, <1>11, <1>12, <1>13 DEF IInv
-----------------------------------------------------------------------------
(* The jobs.                                                                 *)

(* No two threads execute one job.                                           *)
LEMMA OneThreadEach ==
    ASSUME PoolAssumption, LoopAssumption, IInv, NEW t \in Threads, running[t] # noJob
    PROVE  /\ running[t] \in 0 .. hw - 1 /\ running[t] \notin finished
           /\ \A u \in Threads : u # t => running[u] # running[t]
           /\ t \in Workers => running[t] < Front
           /\ t = Restarter => running[t] = Front /\ jobs # <<>>
           /\ \A j \in Front .. hw - 1 : j # running[Restarter] => j # running[t]
<1>1. running[t] \in 0 .. hw - 1
  BY DEF IInv, TypeOK
<1>2. Front \in 0 .. hw /\ finished \subseteq 0 .. Front - 1
  BY Numbers DEF IInv, Kept
<1>3. \A w \in Workers : running[w] # noJob =>
          running[w] \in 0 .. Front - 1 /\ running[w] \notin finished
  BY DEF IInv, Kept
<1>4. running[Restarter] # noJob => running[Restarter] = Front /\ jobs # <<>>
  BY DEF IInv, Kept
<1>5. \A u \in Threads : u \in Workers \/ u = Restarter
  BY DEF Threads
<1>6. \A u \in Threads : u # t => running[u] # running[t]
  BY <1>2, <1>3, <1>4, <1>5 DEF IInv, Kept
<1>7. Restarter \notin Workers
  BY DEF PoolAssumption
<1> QED
  BY <1>1, <1>2, <1>3, <1>4, <1>5, <1>6, <1>7

(* A worker takes the front of the queue.                                    *)
LEMMA PopKeeps ==
    ASSUME PoolAssumption, LoopAssumption, IInv, NEW w \in Workers, WorkerPops(w),
           UNCHANGED <<clientVars, callVars>>
    PROVE  IInv'
<1>1. /\ wpc[w] = "enter" /\ mutex = nobody /\ jobs # <<>>
      /\ running' = [running EXCEPT ![w] = Head(jobs)] /\ jobs' = Tail(jobs)
      /\ wpc' = [wpc EXCEPT ![w] = "execute"]
      /\ UNCHANGED <<mutex, rpc, finished>>
      /\ UNCHANGED <<n, hw, share, rest, cpc, next, progress, calls, threw, thrown>>
  BY DEF WorkerPops, Free, Becomes, clientVars, callVars
<1>2. /\ hw \in Nat /\ Submitted \in 0 .. hw /\ Len(jobs) \in Nat
      /\ Front \in 0 .. hw - 1 /\ Front + Len(jobs) = Submitted
      /\ \A j \in 0 .. hw - 1 : j # noJob
      /\ Head(jobs) = Front
  BY <1>1, Numbers
<1>3. /\ Submitted' = Submitted /\ Tail(jobs) \in Seq(Nat) /\ Len(Tail(jobs)) = Len(jobs) - 1
      /\ \A i \in 1 .. Len(jobs) - 1 : Tail(jobs)[i] = jobs[i + 1]
  BY <1>1 DEF Submitted, IInv, TypeOK
<1>4. Front' = Front + 1
  BY <1>1, <1>2, <1>3 DEF Front
<1>5. /\ running'[w] = Front /\ \A t \in Threads : t # w => running'[t] = running[t]
      /\ \A u \in Workers : u # w => wpc'[u] = wpc[u]
      /\ wpc'[w] = "execute" /\ running[w] = noJob /\ w \in Threads
      /\ running[Restarter] = noJob /\ w # Restarter /\ w # nobody /\ Restarter \in Threads
      /\ \A u \in Workers : u \in Threads
  BY <1>1, <1>2 DEF IInv, TypeOK, Locking, Threads, PoolAssumption
<1>6. rpc \notin {"drain", "execute", "start"}
  BY <1>1 DEF IInv, Locking
<1>7. Split' /\ TypeOK'
  BY <1>1, <1>2, <1>3 DEF IInv, Split, TypeOK
<1>8. Locking'
  BY <1>1, <1>2, <1>5, <1>6 DEF IInv, Locking
<1>9. Kept'
  <2>1. Len(jobs)' <= Submitted'
    BY <1>1, <1>2, <1>3
  <2>2. ASSUME NEW i \in 1 .. Len(jobs') PROVE jobs'[i] = Front' + i - 1
    <3>1. i + 1 \in 1 .. Len(jobs) /\ i \in 1 .. Len(jobs) - 1
      BY <1>1, <1>2, <1>3
    <3>2. jobs[i + 1] = Front + (i + 1) - 1
      BY <3>1 DEF IInv, Kept
    <3> QED
      BY <1>1, <1>2, <1>3, <1>4, <3>1, <3>2
  <2>3. finished \subseteq 0 .. Front - 1
    BY DEF IInv, Kept
  <2>4. ASSUME NEW u \in Workers, running'[u] # noJob
        PROVE  running'[u] \in 0 .. Front' - 1 /\ running'[u] \notin finished'
    BY <1>1, <1>2, <1>4, <1>5, <2>3, <2>4 DEF IInv, Kept
  <2>5. \A u, v \in Workers : running'[u] = running'[v] => u = v \/ running'[u] = noJob
    <3>1. \A u \in Workers : running[u] # Front
      BY <1>2, OneThreadEach DEF Threads
    <3> QED
      BY <1>5, <3>1 DEF IInv, Kept
  <2>6. finished' \subseteq 0 .. Front' - 1
    BY <1>1, <1>2, <1>4, <2>3
  <2>7. ASSUME NEW j \in 0 .. Front' - 1
        PROVE  j \in finished' \/ \E u \in Workers : running'[u] = j
    <3>1. CASE j = Front
      BY <1>5, <3>1
    <3>2. CASE j # Front
      <4>1. j \in 0 .. Front - 1
        BY <1>2, <1>4, <3>2
      <4> QED
        BY <1>1, <1>2, <1>5, <4>1 DEF IInv, Kept
    <3> QED
      BY <3>1, <3>2
  <2> QED
    BY <1>5, <2>1, <2>2, <2>4, <2>5, <2>6, <2>7 DEF Kept
<1>10. Counted'
  <2>1. /\ progress[w] = 0
        /\ \A k \in 0 .. share - 1 : calls[At(Front, k)] = 0
    BY <1>2, <1>5 DEF IInv, Counted
  <2>2. \A j, k : At(j, k)' = At(j, k)
    BY <1>1 DEF At
  <2>3. ASSUME NEW t \in Threads, running'[t] # noJob, NEW k \in 0 .. share - 1
        PROVE  calls[At(running'[t], k)] = IF k < progress[t] THEN 1 ELSE 0
    <3>1. CASE t = w
      BY <1>5, <2>1, <3>1
    <3>2. CASE t # w
      BY <1>5, <2>3, <3>2 DEF IInv, Counted
    <3> QED
      BY <3>1, <3>2
  <2>4. \A t \in Threads : progress[t] <= share /\ (running'[t] = noJob => progress[t] = 0)
    BY <1>2, <1>5 DEF IInv, Counted
  <2>5. \A j \in Front' .. hw - 1 : j # running'[Restarter] =>
            \A k \in 0 .. share - 1 : calls[At(j, k)] = 0
    BY <1>2, <1>4, <1>5 DEF IInv, Counted
  <2>6. \A t \in Threads : \A k : At(running[t], k)' = At(running'[t], k)
    BY <1>1 DEF At
  <2> QED
    BY <1>1, <2>2, <2>3, <2>4, <2>5, <2>6 DEF IInv, Counted
<1>11. (Own /\ Beyond /\ Completed)'
  BY <1>1 DEF IInv, Own, Beyond, Completed, At
<1> QED
  BY <1>7, <1>8, <1>9, <1>10, <1>11 DEF IInv

(* The drain executes the front and leaves it there.                         *)
LEMMA DrainKeeps ==
    ASSUME PoolAssumption, LoopAssumption, IInv, DrainExecutes, UNCHANGED <<clientVars, callVars>>
    PROVE  IInv'
<1>1. /\ rpc = "drain" /\ rpc' = "execute" /\ jobs # <<>>
      /\ running' = [running EXCEPT ![Restarter] = Head(jobs)]
      /\ UNCHANGED <<jobs, mutex, wpc, finished>>
      /\ UNCHANGED <<n, hw, share, rest, cpc, next, progress, calls, threw, thrown>>
  BY DEF DrainExecutes, RestarterBecomes, clientVars, callVars
<1>2. Front \in 0 .. hw - 1 /\ Head(jobs) = Front /\ \A j \in 0 .. hw - 1 : j # noJob
  BY <1>1, Numbers
<1>3. /\ running'[Restarter] = Front /\ \A t \in Threads : t # Restarter => running'[t] = running[t]
      /\ running[Restarter] = noJob /\ Restarter \in Threads /\ Restarter \notin Workers
      /\ \A u \in Workers : u \in Threads /\ running'[u] = running[u]
  BY <1>1, <1>2 DEF IInv, TypeOK, Locking, Threads, PoolAssumption
<1>4. Front' = Front /\ Submitted' = Submitted /\ \A j, k : At(j, k)' = At(j, k)
  BY <1>1 DEF Front, Submitted, At
<1>5. Split' /\ TypeOK'
  BY <1>1, <1>2 DEF IInv, Split, TypeOK
<1>6. Locking'
  BY <1>1, <1>2, <1>3 DEF IInv, Locking
<1>7. Kept'
  BY <1>1, <1>3, <1>4 DEF IInv, Kept
<1>8. Counted'
  <2>1. /\ progress[Restarter] = 0
        /\ \A k \in 0 .. share - 1 : calls[At(Front, k)] = 0
    BY <1>2, <1>3 DEF IInv, Counted
  <2>2. ASSUME NEW t \in Threads, running'[t] # noJob, NEW k \in 0 .. share - 1
        PROVE  calls[At(running'[t], k)] = IF k < progress[t] THEN 1 ELSE 0
    <3>1. CASE t = Restarter
      BY <1>3, <2>1, <3>1
    <3>2. CASE t # Restarter
      BY <1>3, <2>2, <3>2 DEF IInv, Counted
    <3> QED
      BY <3>1, <3>2
  <2>3. \A t \in Threads : progress[t] <= share /\ (running'[t] = noJob => progress[t] = 0)
    BY <1>2, <1>3 DEF IInv, Counted
  <2>4. \A j \in Front .. hw - 1 : \A k \in 0 .. share - 1 : calls[At(j, k)] = 0
    <3>1. \A j \in Front .. hw - 1 : j \in 0 .. hw - 1
      BY <1>2
    <3> QED
      BY <1>2, <1>3, <3>1 DEF IInv, Counted
  <2>5. \A t \in Threads : \A k : At(running[t], k)' = At(running'[t], k)
    BY <1>1 DEF At
  <2> QED
    BY <1>1, <1>4, <2>2, <2>3, <2>4, <2>5 DEF IInv, Counted
<1>9. (Own /\ Beyond /\ Completed)'
  BY <1>1 DEF IInv, Own, Beyond, Completed, At
<1> QED
  BY <1>5, <1>6, <1>7, <1>8, <1>9 DEF IInv

(* An iteration of a job: the next of that job, and of no other.             *)
LEMMA CallsOne ==
    ASSUME PoolAssumption, LoopAssumption, IInv, NEW t \in Threads, running[t] # noJob,
           progress[t] < share, Call(running[t] * share + progress[t])
    PROVE  /\ calls' \in [0 .. 2 * MaxIterations -> Nat]
           /\ \A k \in 0 .. share - 1 :
                  calls'[At(running[t], k)] = IF k < progress[t] + 1 THEN 1 ELSE 0
           /\ \A j \in 0 .. hw - 1, k \in 0 .. share - 1 : j # running[t] =>
                  calls'[At(j, k)] = calls[At(j, k)]
           /\ \A k \in 0 .. rest - 1 : calls'[At(hw, k)] = calls[At(hw, k)]
           /\ \A i \in n .. 2 * MaxIterations : calls'[i] = calls[i]
<1> DEFINE j == running[t]
           p == progress[t]
           i == At(j, p)
<1>1. j \in 0 .. hw - 1 /\ p \in 0 .. share - 1 /\ share \in Nat /\ n \in Nat
  BY DEF IInv, TypeOK, Split
<1>2. calls' = [calls EXCEPT ![i] = calls[i] + 1] /\ calls \in [0 .. 2 * MaxIterations -> Nat]
  BY DEF Call, At, IInv, TypeOK
<1>3. \A k \in 0 .. share - 1 : calls[At(j, k)] = IF k < p THEN 1 ELSE 0
  BY DEF IInv, Counted
<1> HIDE DEF j, p
<1>4. /\ i \in 0 .. hw * share - 1 /\ hw * share <= n /\ hw * share \in Nat
      /\ 0 .. n - 1 \subseteq 0 .. 2 * MaxIterations
      /\ \A l \in 0 .. hw - 1, k \in 0 .. share - 1 : At(l, k) \in 0 .. hw * share - 1
      /\ \A k \in 0 .. rest - 1 : At(hw, k) \in hw * share .. n - 1
  BY <1>1, InTheLoop DEF IInv
<1>5. \A l \in 0 .. hw - 1, k \in 0 .. share - 1 : At(l, k) = i => l = j /\ k = p
  BY <1>1, OneToOne DEF IInv
<1> HIDE DEF i
<1>6. 0 .. hw * share - 1 \subseteq 0 .. n - 1 /\ hw * share .. n - 1 \subseteq 0 .. n - 1
  BY <1>1, <1>4
<1>7. /\ calls'[i] = calls[i] + 1 /\ \A x \in 0 .. 2 * MaxIterations : x # i => calls'[x] = calls[x]
      /\ calls' \in [0 .. 2 * MaxIterations -> Nat]
  BY SMTT(30), <1>2, <1>4, <1>6
<1>8. \A k \in 0 .. share - 1 : calls'[At(j, k)] = IF k < p + 1 THEN 1 ELSE 0
  <2>1. i = At(j, p) /\ calls[i] = 0
    BY <1>1, <1>3 DEF i
  <2> SUFFICES ASSUME NEW k \in 0 .. share - 1
               PROVE  calls'[At(j, k)] = IF k < p + 1 THEN 1 ELSE 0
    OBVIOUS
  <2>2. CASE k = p
    BY <1>1, <1>7, <2>1, <2>2
  <2>3. CASE k # p
    <3>1. calls'[At(j, k)] = calls[At(j, k)]
      BY <1>1, <1>4, <1>5, <1>6, <1>7, <2>3
    <3>2. k < p + 1 <=> k < p
      BY <1>1, <2>3
    <3> QED
      BY <1>3, <3>1, <3>2
  <2> QED
    BY <2>2, <2>3
<1>9. \A l \in 0 .. hw - 1, k \in 0 .. share - 1 : l # j => calls'[At(l, k)] = calls[At(l, k)]
  BY <1>4, <1>5, <1>6, <1>7
<1>10. \A k \in 0 .. rest - 1 : calls'[At(hw, k)] = calls[At(hw, k)]
  BY <1>4, <1>6, <1>7
<1>11. \A x \in n .. 2 * MaxIterations : calls'[x] = calls[x]
  BY <1>1, <1>4, <1>7
<1> QED
  BY <1>7, <1>8, <1>9, <1>10, <1>11 DEF j, p

(* A job runs its next iteration.                                            *)
LEMMA JobCallKeeps ==
    ASSUME PoolAssumption, LoopAssumption, IInv, NEW t \in Threads, JobCall(t)
    PROVE  IInv'
<1>1. /\ running[t] # noJob /\ progress[t] < share
      /\ Call(running[t] * share + progress[t])
      /\ progress' = [progress EXCEPT ![t] = progress[t] + 1]
      /\ UNCHANGED <<n, hw, share, rest, cpc, next, threw, jobs, mutex, wpc, running, rpc, finished>>
  BY DEF JobCall, poolVars, clientVars
<1>2. /\ calls' \in [0 .. 2 * MaxIterations -> Nat]
      /\ \A k \in 0 .. share - 1 :
             calls'[At(running[t], k)] = IF k < progress[t] + 1 THEN 1 ELSE 0
      /\ \A j \in 0 .. hw - 1, k \in 0 .. share - 1 : j # running[t] =>
             calls'[At(j, k)] = calls[At(j, k)]
      /\ \A k \in 0 .. rest - 1 : calls'[At(hw, k)] = calls[At(hw, k)]
      /\ \A i \in n .. 2 * MaxIterations : calls'[i] = calls[i]
  BY <1>1, CallsOne
<1>3. /\ running[t] \in 0 .. hw - 1 /\ running[t] \notin finished
      /\ \A u \in Threads : u # t => running[u] # running[t]
      /\ \A j \in Front .. hw - 1 : j # running[Restarter] => j # running[t]
      /\ Front \in 0 .. hw /\ hw \in Nat
  BY <1>1, OneThreadEach, Numbers
<1>4. /\ progress[t] \in Nat /\ share \in Nat /\ progress'[t] = progress[t] + 1
      /\ \A u \in Threads : u # t => progress'[u] = progress[u]
      /\ \A u \in Threads : progress'[u] \in Nat
  BY <1>1 DEF IInv, TypeOK, Split
<1>5. Split' /\ TypeOK'
  BY <1>1, <1>2, <1>4 DEF IInv, Split, TypeOK
<1>6. Front' = Front /\ Submitted' = Submitted /\ \A j, k : At(j, k)' = At(j, k)
  BY <1>1 DEF Front, Submitted, At
<1>7. (Locking /\ Kept /\ Completed)'
  BY <1>1, <1>6 DEF IInv, Locking, Kept, Completed
<1>8. Counted'
  <2>1. \A u \in Threads : progress'[u] <= share /\ (running[u] = noJob => progress'[u] = 0)
    BY <1>1, <1>4 DEF IInv, Counted
  <2>2. ASSUME NEW u \in Threads, running[u] # noJob, NEW k \in 0 .. share - 1
        PROVE  calls'[At(running[u], k)] = IF k < progress'[u] THEN 1 ELSE 0
    <3>1. CASE u = t
      BY <1>2, <1>4, <3>1
    <3>2. CASE u # t
      <4>1. running[u] \in 0 .. hw - 1 /\ running[u] # running[t]
        BY <1>3, <2>2, <3>2 DEF IInv, TypeOK
      <4> QED
        BY <1>2, <1>4, <2>2, <3>2, <4>1 DEF IInv, Counted
    <3> QED
      BY <3>1, <3>2
  <2>3. ASSUME NEW j \in finished \cup threw, NEW k \in 0 .. share - 1
        PROVE  calls'[At(j, k)] = calls[At(j, k)]
    <3>1. j \in 0 .. hw - 1 /\ j # running[t]
      BY <1>3 DEF IInv, TypeOK
    <3> QED
      BY <1>2, <3>1
  <2>4. \A j \in Front .. hw - 1 : j # running[Restarter] =>
            \A k \in 0 .. share - 1 : calls'[At(j, k)] = 0
    <3>1. \A j \in Front .. hw - 1 : j \in 0 .. hw - 1
      BY <1>3
    <3> QED
      BY <1>2, <1>3, <3>1 DEF IInv, Counted
  <2>5. \A u \in Threads : \A k : At(running[u], k)' = At(running[u], k)
    BY <1>1 DEF At
  <2> QED
    BY <1>1, <1>6, <2>1, <2>2, <2>3, <2>4, <2>5 DEF IInv, Counted
<1>9. (Own /\ Beyond)'
  BY <1>1, <1>2, <1>6 DEF IInv, Own, Beyond
<1> QED
  BY <1>5, <1>7, <1>8, <1>9 DEF IInv

(* Where the front cuts what was submitted.                                  *)
LEMMA Intervals ==
    ASSUME NEW h, NEW a \in 0 .. h, NEW b \in 0 .. h, a <= b
    PROVE  /\ \A j \in 0 .. a - 1 : j \in 0 .. b - 1
           /\ 0 .. b - 1 = (a .. b - 1) \cup (0 .. a - 1)
<1>1. a \in Nat /\ b \in Nat
  OBVIOUS
<1>2. \A j \in 0 .. a - 1 : j \in 0 .. b - 1
  BY <1>1
<1>3. \A j \in a .. b - 1 : j \in 0 .. b - 1
  BY <1>1
<1>4. \A j \in 0 .. b - 1 : j \in a .. b - 1 \/ j \in 0 .. a - 1
  BY <1>1
<1> QED
  BY <1>2, <1>3, <1>4

(* A thread is through with its job, which has returned or thrown: it is     *)
(* finished, and the drain takes it off the queue.                           *)
LEMMA CompletionKeeps ==
    ASSUME PoolAssumption, LoopAssumption, IInv, NEW t \in Threads, running[t] # noJob,
           Completes(t), UNCHANGED clientVars, progress' = [progress EXCEPT ![t] = 0],
           threw' \in {threw, threw \cup {running[t]}},
           calls' \in [0 .. 2 * MaxIterations -> Nat],
           \A j \in 0 .. hw - 1, k \in 0 .. share - 1 : j # running[t] =>
               calls'[At(j, k)] = calls[At(j, k)],
           \A k \in 0 .. share - 1 :
               /\ calls'[At(running[t], k)] <= 1
               /\ running[t] \notin threw' => calls'[At(running[t], k)] = 1,
           \A k \in 0 .. rest - 1 : calls'[At(hw, k)] = calls[At(hw, k)],
           \A i \in n .. 2 * MaxIterations : calls'[i] = calls[i]
    PROVE  IInv'
<1>1. /\ finished' = finished \cup {running[t]}
      /\ running' = [running EXCEPT ![t] = noJob] /\ mutex' = mutex
      /\ t # Restarter => /\ wpc[t] = "execute" /\ wpc' = [wpc EXCEPT ![t] = "enter"]
                          /\ jobs' = jobs /\ rpc' = rpc
      /\ t = Restarter => /\ rpc = "execute" /\ rpc' = "drain"
                          /\ jobs' = Tail(jobs) /\ wpc' = wpc
  BY DEF Completes, DrainPops, WorkerCompletes, Becomes, RestarterBecomes
<1>2. UNCHANGED <<n, hw, share, rest, cpc, next>>
  BY DEF clientVars
<1>3. /\ running[t] \in 0 .. hw - 1 /\ running[t] \notin finished
      /\ \A u \in Threads : u # t => running[u] # running[t]
      /\ t # Restarter => running[t] < Front /\ t \in Workers
      /\ t = Restarter => running[t] = Front /\ jobs # <<>>
      /\ \A j \in Front .. hw - 1 : j # running[Restarter] => j # running[t]
  BY OneThreadEach DEF Threads
<1>4. /\ hw \in Nat /\ Submitted \in 0 .. hw /\ Len(jobs) \in Nat
      /\ Front \in 0 .. hw /\ Front + Len(jobs) = Submitted
      /\ \A j \in 0 .. hw - 1 : j # noJob
  BY Numbers
<1>5. /\ running'[t] = noJob /\ \A u \in Threads : u # t => running'[u] = running[u]
      /\ progress'[t] = 0 /\ \A u \in Threads : u # t => progress'[u] = progress[u]
      /\ \A u \in Workers : u \in Threads /\ u # Restarter /\ u # nobody
      /\ Restarter \in Threads
  BY <1>1 DEF IInv, TypeOK, Threads, PoolAssumption
<1>6. /\ Submitted' = Submitted /\ \A j, k : At(j, k)' = At(j, k)
      /\ t # Restarter => Front' = Front
  BY <1>1, <1>2 DEF Submitted, Front, At
<1>7. t = Restarter =>
          /\ Front' = Front + 1 /\ Front < hw /\ jobs' \in Seq(Nat) /\ Len(jobs') = Len(jobs) - 1
          /\ \A i \in 1 .. Len(jobs') : jobs'[i] = jobs[i + 1]
  <2> SUFFICES ASSUME t = Restarter
               PROVE  /\ Front' = Front + 1 /\ Front < hw /\ jobs' \in Seq(Nat)
                      /\ Len(jobs') = Len(jobs) - 1
                      /\ \A i \in 1 .. Len(jobs') : jobs'[i] = jobs[i + 1]
    OBVIOUS
  <2>1. jobs' = Tail(jobs) /\ jobs # <<>> /\ jobs \in Seq(Nat)
    BY <1>1, <1>3 DEF IInv, TypeOK
  <2>2. /\ jobs' \in Seq(Nat) /\ Len(jobs') = Len(jobs) - 1
        /\ \A i \in 1 .. Len(jobs') : jobs'[i] = jobs[i + 1]
    BY <2>1
  <2>3. Front' = Front + 1
    BY <1>4, <1>6, <2>2 DEF Front
  <2>4. Front < hw
    BY <2>1, Numbers
  <2> QED
    BY <2>2, <2>3, <2>4
<1>8. Front' \in 0 .. hw /\ Front <= Front'
  BY <1>4, <1>6, <1>7
<1>9. Split'
  BY <1>2 DEF IInv, Split
<1>10. TypeOK'
  <2>1. jobs' \in Seq(Nat)
    BY <1>1, <1>7 DEF IInv, TypeOK
  <2>2. /\ mutex' \in Threads \cup {nobody}
        /\ wpc' \in [Workers -> {"enter", "ended", "execute", "blocking", "waiting"}]
        /\ rpc' \in {"idle", "notify", "join", "drain", "execute", "start"}
    BY <1>1 DEF IInv, TypeOK
  <2>3. /\ running' \in [Threads -> (0 .. hw' - 1) \cup {noJob}]
        /\ finished' \subseteq 0 .. hw' - 1 /\ threw' \subseteq finished'
    BY <1>1, <1>2, <1>3 DEF IInv, TypeOK
  <2>4. progress' \in [Threads -> Nat]
    BY DEF IInv, TypeOK
  <2> QED
    BY <1>2, <2>1, <2>2, <2>3, <2>4 DEF IInv, TypeOK
<1>11. Locking'
  <2>1. CASE t = Restarter
    BY <1>1, <1>5, <2>1 DEF IInv, Locking
  <2>2. CASE t # Restarter
    <3>1. /\ wpc'[t] = "enter" /\ \A u \in Workers : u # t => wpc'[u] = wpc[u]
      BY <1>1, <1>3, <2>2 DEF IInv, TypeOK
    <3>2. mutex # t /\ rpc \notin {"drain", "execute", "start"}
      BY <1>1, <1>3, <2>2 DEF IInv, Locking
    <3>3. running'[Restarter] = running[Restarter]
      BY <1>5, <2>2
    <3> QED
      BY <1>1, <1>5, <2>2, <3>1, <3>2, <3>3 DEF IInv, Locking
  <2> QED
    BY <2>1, <2>2
<1>12. Kept'
  <2>1. Len(jobs') <= Submitted'
    BY <1>1, <1>4, <1>6, <1>7
  <2>2. ASSUME NEW i \in 1 .. Len(jobs') PROVE jobs'[i] = Front' + i - 1
    <3>1. CASE t # Restarter
      BY <1>1, <1>6, <3>1 DEF IInv, Kept
    <3>2. CASE t = Restarter
      <4>1. i + 1 \in 1 .. Len(jobs) /\ i \in Nat
        BY SMTT(30), <1>4, <1>7, <3>2
      <4>2. jobs[i + 1] = Front + (i + 1) - 1
        BY <4>1 DEF IInv, Kept
      <4>3. jobs'[i] = jobs[i + 1] /\ Front' = Front + 1
        BY <1>7, <3>2
      <4> QED
        BY <1>4, <4>1, <4>2, <4>3
    <3> QED
      BY <3>1, <3>2
  <2>3. ASSUME NEW u \in Workers, running'[u] # noJob
        PROVE  running'[u] \in 0 .. Front' - 1 /\ running'[u] \notin finished'
    <3>1. u \in Threads /\ u # t /\ running'[u] = running[u]
      BY <1>5, <2>3
    <3>2. running[u] \in 0 .. Front - 1 /\ running[u] \notin finished
      BY <2>3, <3>1 DEF IInv, Kept
    <3>3. running[u] # running[t]
      BY <1>3, <3>1
    <3> QED
      BY <1>1, <1>4, <1>8, <3>1, <3>2, <3>3
  <2>4. running'[Restarter] # noJob => jobs' # <<>> /\ running'[Restarter] = Front'
    BY <1>1, <1>5, <1>6 DEF IInv, Kept
  <2>5. \A u, v \in Workers : running'[u] = running'[v] => u = v \/ running'[u] = noJob
    BY <1>5 DEF IInv, Kept
  <2>6. finished' \subseteq 0 .. Front' - 1
    <3>1. running[t] \in 0 .. Front' - 1
      BY <1>3, <1>4, <1>6, <1>7
    <3>2. finished \subseteq 0 .. Front' - 1
      <4>1. \A j \in 0 .. Front - 1 : j \in 0 .. Front' - 1
        BY <1>4, <1>8, Intervals
      <4>2. finished \subseteq 0 .. Front - 1
        BY DEF IInv, Kept
      <4> QED
        BY <4>1, <4>2
    <3> QED
      BY <1>1, <3>1, <3>2
  <2>7. ASSUME NEW j \in 0 .. Front' - 1
        PROVE  j \in finished' \/ \E u \in Workers : running'[u] = j
    <3>1. CASE j = running[t]
      BY <1>1, <3>1
    <3>2. CASE j # running[t]
      <4>1. j \in 0 .. Front - 1
        BY <1>3, <1>4, <1>6, <1>7, <3>2
      <4>2. j \in finished \/ \E u \in Workers : running[u] = j
        BY <4>1 DEF IInv, Kept
      <4> QED
        BY <1>1, <1>5, <3>2, <4>2
    <3> QED
      BY <3>1, <3>2
  <2> QED
    BY <2>1, <2>2, <2>3, <2>4, <2>5, <2>6, <2>7 DEF Kept
<1>13. Counted'
  <2>1. \A u \in Threads : progress'[u] <= share /\ (running'[u] = noJob => progress'[u] = 0)
    BY SMTT(30), <1>5 DEF IInv, Counted, Split
  <2>2. ASSUME NEW u \in Threads, running'[u] # noJob, NEW k \in 0 .. share - 1
        PROVE  calls'[At(running'[u], k)] = IF k < progress'[u] THEN 1 ELSE 0
    <3>1. u # t /\ running'[u] = running[u] /\ progress'[u] = progress[u]
      BY <1>5, <2>2
    <3>2. running[u] \in 0 .. hw - 1 /\ running[u] # running[t]
      BY <1>3, <2>2, <3>1 DEF IInv, TypeOK
    <3>3. calls'[At(running[u], k)] = calls[At(running[u], k)]
      BY <3>2
    <3>4. calls[At(running[u], k)] = IF k < progress[u] THEN 1 ELSE 0
      BY <2>2, <3>1 DEF IInv, Counted
    <3> QED
      BY <3>1, <3>3, <3>4
  <2>3. ASSUME NEW j \in finished' \ threw', NEW k \in 0 .. share - 1
        PROVE  calls'[At(j, k)] = 1
    <3>1. CASE j = running[t]
      BY <3>1
    <3>2. CASE j # running[t]
      <4>1. j \in finished \ threw /\ j \in 0 .. hw - 1
        BY <1>1, <3>2 DEF IInv, TypeOK
      <4> QED
        BY <3>2, <4>1 DEF IInv, Counted
    <3> QED
      BY <3>1, <3>2
  <2>4. ASSUME NEW j \in threw', NEW k \in 0 .. share - 1
        PROVE  calls'[At(j, k)] <= 1
    <3>1. CASE j = running[t]
      BY <3>1
    <3>2. CASE j # running[t]
      <4>1. j \in threw /\ j \in 0 .. hw - 1
        BY <3>2 DEF IInv, TypeOK
      <4> QED
        BY <3>2, <4>1 DEF IInv, Counted
    <3> QED
      BY <3>1, <3>2
  <2>5. ASSUME NEW j \in Front' .. hw - 1, j # running'[Restarter], NEW k \in 0 .. share - 1
        PROVE  calls'[At(j, k)] = 0
    <3>1. j \in Front .. hw - 1 /\ j \in 0 .. hw - 1
      BY <1>4, <1>8
    <3>2. j # running[Restarter]
      <4>1. CASE t = Restarter
        BY <1>3, <1>4, <1>7, <4>1
      <4>2. CASE t # Restarter
        BY <1>5, <2>5, <4>2
      <4> QED
        BY <4>1, <4>2
    <3>3. j # running[t]
      BY <1>3, <3>1, <3>2
    <3>4. calls'[At(j, k)] = calls[At(j, k)]
      BY <3>1, <3>3
    <3> QED
      BY <3>1, <3>2, <3>4 DEF IInv, Counted
  <2>6. \A u \in Threads : \A k : At(running[u], k)' = At(running'[u], k)
    BY <1>2 DEF At
  <2> QED
    BY SMTT(30), <1>2, <1>6, <2>1, <2>2, <2>3, <2>4, <2>5, <2>6 DEF Counted
<1>14. (Own /\ Beyond)'
  BY <1>2, <1>6 DEF IInv, Own, Beyond
<1>15. Completed'
  <2>1. finished \ threw \subseteq finished' \ threw'
    BY <1>1, <1>3
  <2> QED
    BY <1>2, <2>1 DEF IInv, Completed
<1> QED
  BY <1>9, <1>10, <1>11, <1>12, <1>13, <1>14, <1>15 DEF IInv

(* The end of a job.                                                         *)
LEMMA JobEndKeeps ==
    ASSUME PoolAssumption, LoopAssumption, IInv, NEW t \in Threads, JobThrow(t) \/ JobEnds(t)
    PROVE  IInv'
<1>1. progress[t] \in Nat /\ share \in Nat
  BY DEF IInv, TypeOK, Split
<1>2. CASE JobThrow(t)
  <2>1. /\ running[t] # noJob /\ progress[t] < share
        /\ Call(running[t] * share + progress[t]) /\ Completes(t) /\ UNCHANGED clientVars
        /\ progress' = [progress EXCEPT ![t] = 0] /\ threw' = threw \cup {running[t]}
    BY <1>2 DEF JobThrow
  <2>2. /\ calls' \in [0 .. 2 * MaxIterations -> Nat]
        /\ \A k \in 0 .. share - 1 :
               calls'[At(running[t], k)] = IF k < progress[t] + 1 THEN 1 ELSE 0
        /\ \A j \in 0 .. hw - 1, k \in 0 .. share - 1 : j # running[t] =>
               calls'[At(j, k)] = calls[At(j, k)]
        /\ \A k \in 0 .. rest - 1 : calls'[At(hw, k)] = calls[At(hw, k)]
        /\ \A i \in n .. 2 * MaxIterations : calls'[i] = calls[i]
    BY <2>1, CallsOne
  <2>3. \A k \in 0 .. share - 1 :
            /\ calls'[At(running[t], k)] <= 1
            /\ running[t] \notin threw' => calls'[At(running[t], k)] = 1
    BY <2>1, <2>2
  <2> QED
    BY <2>1, <2>2, <2>3, CompletionKeeps
<1>3. CASE JobEnds(t)
  <2>1. /\ running[t] # noJob /\ progress[t] = share /\ calls' = calls /\ threw' = threw
        /\ Completes(t) /\ UNCHANGED clientVars /\ progress' = [progress EXCEPT ![t] = 0]
    BY <1>3 DEF JobEnds
  <2>2. \A k \in 0 .. share - 1 : calls[At(running[t], k)] = 1
    BY <1>1, <2>1 DEF IInv, Counted
  <2>3. \A k \in 0 .. share - 1 :
            /\ calls'[At(running[t], k)] <= 1
            /\ running[t] \notin threw' => calls'[At(running[t], k)] = 1
    BY <2>1, <2>2
  <2>4. calls' \in [0 .. 2 * MaxIterations -> Nat]
    BY <2>1 DEF IInv, TypeOK
  <2> QED
    BY <2>1, <2>3, <2>4, CompletionKeeps
<1> QED
  BY <1>2, <1>3
-----------------------------------------------------------------------------
(* The theorems.                                                             *)

(* No job is queued yet and nothing called.                                  *)
LEMMA InitKeeps ==
    ASSUME PoolAssumption, LoopAssumption, PfInit
    PROVE  IInv
<1>1. /\ jobs = <<>> /\ mutex = nobody /\ wpc = [w \in Workers |-> "enter"]
      /\ running = [t \in Threads |-> noJob] /\ rpc = "idle" /\ finished = {}
      /\ n \in 2 .. MaxIterations /\ hw = Partition(n).hw /\ share = Partition(n).share
      /\ rest = Partition(n).rest /\ cpc = "schedule" /\ next = 0
      /\ progress = [t \in Threads |-> 0] /\ calls = [i \in 0 .. 2 * MaxIterations |-> 0]
      /\ threw = {}
  BY DEF PfInit, PoolInit
<1>2. Split
  BY <1>1, Partitions DEF Split
<1>3. TypeOK
  <2>1. hw \in Nat /\ jobs \in Seq(Nat)
    BY <1>1, <1>2 DEF Split
  <2> QED
    BY <1>1, <2>1 DEF TypeOK
<1>4. /\ nobody # Restarter /\ Restarter \in Threads
      /\ \A w \in Workers : w # nobody /\ w # Restarter /\ w \in Threads
      /\ \A t \in Threads : running[t] = noJob /\ progress[t] = 0
  BY <1>1 DEF PoolAssumption, Threads
<1>5. Locking
  BY <1>1, <1>4 DEF Locking
<1>6. Submitted = 0 /\ Len(jobs) = 0 /\ Front = 0
  BY <1>1 DEF Submitted, Front
<1>7. Kept
  BY <1>1, <1>4, <1>6 DEF Kept
<1>8. /\ \A j \in 0 .. hw - 1, k \in 0 .. share - 1 : calls[At(j, k)] = 0
      /\ \A k \in 0 .. rest - 1 : calls[At(hw, k)] = 0
  <2>1. /\ \A j \in 0 .. hw - 1, k \in 0 .. share - 1 : At(j, k) \in 0 .. hw * share - 1
        /\ \A k \in 0 .. rest - 1 : At(hw, k) \in hw * share .. n - 1
        /\ hw * share \in Nat /\ hw * share <= n
        /\ 0 .. n - 1 \subseteq 0 .. 2 * MaxIterations
    BY <1>2, InTheLoop
  <2>2. n \in Nat /\ \A i \in 0 .. n - 1 : calls[i] = 0
    BY SMTT(30), <1>1, <1>2, <2>1 DEF Split
  <2>3. \A i \in 0 .. hw * share - 1 : i \in 0 .. n - 1
    BY <2>1, <2>2
  <2>4. \A i \in hw * share .. n - 1 : i \in 0 .. n - 1
    BY <2>1, <2>2
  <2> QED
    BY <2>1, <2>2, <2>3, <2>4
<1>9. Counted
  <2>1. share \in Nat
    BY <1>2 DEF Split
  <2> QED
    BY <1>1, <1>4, <1>6, <1>8, <2>1 DEF Counted
<1>10. Own
  BY <1>1, <1>8 DEF Own
<1>11. Beyond
  BY <1>1, <1>2 DEF Beyond, Split
<1>12. Completed
  BY <1>1 DEF Completed
<1> QED
  BY <1>2, <1>3, <1>5, <1>7, <1>9, <1>10, <1>11, <1>12 DEF IInv

(* Every step keeps it.                                                      *)
LEMMA NextKeeps ==
    ASSUME PoolAssumption, LoopAssumption, IInv, [PfNext]_pfVars
    PROVE  IInv'
<1>1. CASE Client
  BY <1>1, ScheduleKeeps, ClientStageKeeps, OwnKeeps DEF Client
<1>2. ASSUME NEW t \in Threads, Job(t) PROVE IInv'
  BY <1>2, JobCallKeeps, JobEndKeeps DEF Job
<1>3. ASSUME NEW w \in Workers, Worker(w) PROVE IInv'
  <2>1. CASE WorkerMoves(w) /\ UNCHANGED <<clientVars, callVars, left>>
    BY <2>1, PopKeeps, WorkerMovesKeeps DEF WorkerMoves
  <2>2. CASE Job(w)
    BY <1>2, <2>2 DEF Threads
  <2> QED
    BY <1>3, <2>1, <2>2 DEF Worker
<1>4. CASE Restarting
  <2>1. CASE RestarterMoves /\ UNCHANGED <<clientVars, callVars, left>>
    BY <2>1, DrainKeeps, RestarterMovesKeeps DEF RestarterMoves
  <2>2. CASE Job(Restarter)
    BY <1>2, <2>2 DEF Threads
  <2> QED
    BY <1>4, <2>1, <2>2 DEF Restarting
<1>5. CASE ShutdownQuits /\ UNCHANGED <<clientVars, callVars, left>>
  BY <1>5, RestarterMovesKeeps
<1>6. CASE UNCHANGED pfVars
  <2>1. UNCHANGED <<jobs, running, finished, clientVars, callVars, mutex, wpc, rpc>>
    BY <1>6 DEF pfVars, poolVars
  <2>2. Locking'
    BY <2>1 DEF IInv, Locking
  <2> QED
    BY <2>1, <2>2, QuietKeeps DEF IInv, TypeOK
<1> QED
  BY <1>1, <1>3, <1>4, <1>5, <1>6 DEF PfNext, Stops

(* The inductive invariant holds of every behaviour: what the split, the     *)
(* queue, the threads and the counts of the calls have to do with each other *)
(* whatever is scheduled, restarted or thrown.                               *)
THEOREM Invariance == PfSpec => []IInv
<1> USE PoolAssumption, LoopAssumption
<1>1. PfInit => IInv
  BY InitKeeps
<1>2. IInv /\ [PfNext]_pfVars => IInv'
  BY NextKeeps
<1> QED
  BY <1>1, <1>2, PTL DEF PfSpec

(* The jobs that wait are the ones from the front on, each of them once.     *)
LEMMA QueueIsInterval ==
    ASSUME PoolAssumption, LoopAssumption, IInv
    PROVE  InQueue = Front .. Submitted - 1 /\ Cardinality(InQueue) = Len(jobs)
<1>1. /\ hw \in Nat /\ Submitted \in 0 .. hw /\ Len(jobs) \in Nat
      /\ Front \in 0 .. hw /\ Front + Len(jobs) = Submitted
  BY Numbers
<1>2. DOMAIN jobs = 1 .. Len(jobs)
  BY DEF IInv, TypeOK
<1>3. \A i \in 1 .. Len(jobs) : jobs[i] = Front + i - 1
  BY DEF IInv, Kept
<1>4. \A j \in InQueue : j \in Front .. Submitted - 1
  BY <1>1, <1>2, <1>3 DEF InQueue
<1>5. ASSUME NEW j \in Front .. Submitted - 1 PROVE j \in InQueue
  <2>1. j - Front + 1 \in 1 .. Len(jobs)
    BY <1>1
  <2>2. jobs[j - Front + 1] = j
    BY <1>1, <1>3, <2>1
  <2> QED
    BY <1>2, <2>1, <2>2 DEF InQueue
<1>6. InQueue = Front .. Submitted - 1
  BY <1>4, <1>5
<1>7. Cardinality(Front .. Submitted - 1) = Len(jobs)
  <2>1. Front \in Int /\ Submitted - 1 \in Int
    BY <1>1
  <2>2. Cardinality(Front .. Submitted - 1) =
            IF Front > Submitted - 1 THEN 0 ELSE (Submitted - 1) - Front + 1
    BY <2>1, FS_Interval
  <2> QED
    BY <1>1, <2>2
<1> QED
  BY <1>6, <1>7

(* A job that was scheduled waits, is executed by one thread or is finished, *)
(* and only one of these, through any number of restarts.                    *)
THEOREM NoJobIsLost == PfSpec => []JobsAreKept
<1> USE PoolAssumption, LoopAssumption
<1>1. ASSUME IInv PROVE JobsAreKept
  <2>1. InQueue = Front .. Submitted - 1 /\ Cardinality(InQueue) = Len(jobs)
    BY <1>1, QueueIsInterval
  <2>2. /\ hw \in Nat /\ Submitted \in 0 .. hw /\ Front \in 0 .. hw
        /\ Len(jobs) \in Nat /\ Front + Len(jobs) = Submitted
        /\ jobs # <<>> => Head(jobs) = Front
    BY <1>1, Numbers
  <2>3. Scheduled = 0 .. Submitted - 1
    BY DEF Scheduled, Submitted
  <2>4. \A t \in Threads : running[t] # noJob =>
            /\ running[t] \notin finished
            /\ \A u \in Threads : u # t => running[u] # running[t]
            /\ t = Restarter => running[t] = Front /\ jobs # <<>>
            /\ t # Restarter => running[t] \in 0 .. Front - 1
    <3>1. \A w \in Workers : running[w] # noJob => running[w] \in 0 .. Front - 1
      BY <1>1 DEF IInv, Kept
    <3> QED
      BY <1>1, <3>1, OneThreadEach DEF Threads
  <2>5. finished \subseteq 0 .. Front - 1
    BY <1>1 DEF IInv, Kept
  <2>6. 0 .. Front - 1 \subseteq Executing \cup finished
    <3>1. ASSUME NEW j \in 0 .. Front - 1 PROVE j \in Executing \cup finished
      <4>1. j # noJob
        <5>1. j \in 0 .. hw - 1
          BY <2>2
        <5> QED
          BY <1>1, <5>1, Numbers
      <4>2. j \in finished \/ \E w \in Workers : running[w] = j
        BY <1>1 DEF IInv, Kept
      <4> QED
        BY <4>1, <4>2 DEF Executing, Threads
    <3> QED
      BY <3>1
  <2>7. \A j \in Executing : j \notin finished /\ (j \in 0 .. Front - 1 \/ (j = Front /\ jobs # <<>>))
    BY <2>4 DEF Executing
  <2>8. 0 .. Submitted - 1 = InQueue \cup (0 .. Front - 1)
    <3>1. Front <= Submitted
      BY <2>2
    <3>2. 0 .. Submitted - 1 = (Front .. Submitted - 1) \cup (0 .. Front - 1)
      BY <2>2, <3>1, Intervals
    <3> QED
      BY <2>1, <3>2
  <2>9. jobs # <<>> => Front \in InQueue
    <3>1. jobs # <<>> => Len(jobs) # 0
      BY <1>1 DEF IInv, TypeOK
    <3> QED
      BY <2>1, <2>2, <3>1
  <2>10. Scheduled = InQueue \cup Executing \cup finished
    <3>1. \A j \in Executing : j \in 0 .. Front - 1 \/ j \in InQueue
      BY <2>7, <2>9
    <3> QED
      BY <2>3, <2>5, <2>6, <2>8, <3>1
  <2>11. \A j \in InQueue : j \notin 0 .. Front - 1
    BY <2>1, <2>2
  <2>12. finished \cap (InQueue \cup Executing) = {}
    BY <2>5, <2>7, <2>11
  <2>13. noJob \notin InQueue
    <3>1. \A j \in Front .. Submitted - 1 : j \in 0 .. hw - 1
      BY <2>2
    <3> QED
      BY <1>1, <2>1, <3>1, Numbers
  <2>14. ASSUME NEW t \in Threads, running[t] \in InQueue
         PROVE  t = Restarter /\ running[t] = Head(jobs)
    BY <2>2, <2>4, <2>11, <2>13, <2>14
  <2>15. \A t, u \in Threads : running[t] = running[u] => t = u \/ running[t] = noJob
    BY <2>4
  <2> QED
    BY <2>1, <2>10, <2>12, <2>14, <2>15 DEF JobsAreKept
<1> QED
  BY <1>1, Invariance, PTL

(* Each iteration of the loop is one of a job or one of the client's.        *)
LEMMA Iterations ==
    ASSUME IInv, NEW i \in 0 .. n - 1
    PROVE  \/ \E j \in 0 .. hw - 1, k \in 0 .. share - 1 : i = At(j, k)
           \/ \E k \in 0 .. rest - 1 : i = At(hw, k)
<1>1. Split /\ hw * share \in Nat /\ n = hw * share + rest /\ rest \in Nat
  BY InTheLoop DEF IInv, Split
<1>2. CASE i < hw * share
  BY <1>1, <1>2, SomeJobs
<1>3. CASE ~(i < hw * share)
  <2>1. i - hw * share \in 0 .. rest - 1 /\ i = hw * share + (i - hw * share)
    BY <1>1, <1>3
  <2> QED
    BY <2>1 DEF At
<1> QED
  BY <1>2, <1>3

(* No job's iteration was called twice.                                      *)
LEMMA JobsCallOnce ==
    ASSUME PoolAssumption, LoopAssumption, IInv,
           NEW j \in 0 .. hw - 1, NEW k \in 0 .. share - 1
    PROVE  calls[At(j, k)] <= 1
<1>1. Front \in 0 .. hw /\ hw \in Nat /\ j # noJob
  BY Numbers
<1>2. CASE j \in threw
  BY <1>2 DEF IInv, Counted
<1>3. CASE j \in finished \ threw
  <2>1. calls[At(j, k)] = 1
    BY <1>3 DEF IInv, Counted
  <2> QED
    BY <2>1
<1>4. ASSUME NEW t \in Threads, running[t] = j PROVE calls[At(j, k)] <= 1
  <2>1. calls[At(running[t], k)] = IF k < progress[t] THEN 1 ELSE 0
    BY <1>1, <1>4 DEF IInv, Counted
  <2>2. calls[At(j, k)] \in {0, 1}
    BY <1>4, <2>1
  <2> QED
    BY <2>2
<1>5. CASE j \in Front .. hw - 1 /\ j # running[Restarter]
  <2>1. calls[At(j, k)] = 0
    BY <1>5 DEF IInv, Counted
  <2> QED
    BY <2>1
<1>6. j \in 0 .. Front - 1 => j \in finished \/ \E w \in Workers : running[w] = j
  BY DEF IInv, Kept
<1>7. j \in 0 .. Front - 1 \/ j \in Front .. hw - 1
  BY <1>1
<1> QED
  BY <1>2, <1>3, <1>4, <1>5, <1>6, <1>7 DEF Threads

(* No iteration is run twice or past the end, however the jobs are executed; *)
(* and when parallel_for() returns each has been, with nobody at work for it.*)
THEOREM LoopIsComplete == PfSpec => []EachIterationOnce
<1> USE PoolAssumption, LoopAssumption
<1>1. ASSUME IInv, cpc # "failed", NEW i \in DOMAIN calls
      PROVE  calls[i] <= IF i < n THEN 1 ELSE 0
  <2>1. i \in 0 .. 2 * MaxIterations /\ n \in Nat /\ i \in Nat
    BY <1>1 DEF IInv, TypeOK, Split
  <2>2. CASE i >= n
    <3>1. MaxIterations \in Nat
      BY DEF LoopAssumption
    <3>2. i \in n .. 2 * MaxIterations
      BY <2>1, <2>2, <3>1
    <3>3. calls[i] = 0
      BY <1>1, <3>2 DEF IInv, Beyond
    <3> QED
      BY <2>1, <2>2, <3>3
  <2>3. CASE i < n
    <3>1. i \in 0 .. n - 1
      BY <2>1, <2>3
    <3>2. ASSUME NEW k \in 0 .. rest - 1, i = At(hw, k) PROVE calls[i] <= 1
      <4>1. calls[At(hw, k)] \in {0, 1}
        BY <1>1 DEF IInv, Own
      <4> QED
        BY <3>2, <4>1
    <3>3. calls[i] <= 1
      BY <1>1, <3>1, <3>2, Iterations, JobsCallOnce
    <3> QED
      BY <2>3, <3>3
  <2> QED
    BY <2>1, <2>2, <2>3
<1>2. ASSUME IInv, cpc = "returned"
      PROVE  (\A i \in 0 .. n - 1 : calls[i] = 1) /\ Executing = {} /\ jobs = <<>>
  <2>1. 0 .. hw - 1 \subseteq finished \ threw
    BY <1>2 DEF IInv, Completed
  <2>2. ASSUME NEW i \in 0 .. n - 1 PROVE calls[i] = 1
    <3>1. \A j \in 0 .. hw - 1, k \in 0 .. share - 1 : calls[At(j, k)] = 1
      BY <1>2, <2>1 DEF IInv, Counted
    <3>2. \A k \in 0 .. rest - 1 : calls[At(hw, k)] = 1
      BY <1>2 DEF IInv, Own
    <3> QED
      BY <1>2, <3>1, <3>2, Iterations
  <2>3. \A t \in Threads : running[t] = noJob
    BY <1>2, <2>1, OneThreadEach
  <2>4. jobs = <<>>
    <3>1. jobs # <<>> => Front \in 0 .. hw - 1
      BY <1>2, Numbers
    <3>2. finished \subseteq 0 .. Front - 1 /\ Front \in Int
      BY <1>2, Numbers DEF IInv, Kept
    <3>3. Front \notin finished
      BY <3>2
    <3> QED
      BY <2>1, <3>1, <3>3
  <2> QED
    BY <2>2, <2>3, <2>4 DEF Executing
<1>3. IInv => EachIterationOnce
  BY <1>1, <1>2 DEF EachIterationOnce
<1> QED
  BY <1>3, Invariance, PTL
=============================================================================
