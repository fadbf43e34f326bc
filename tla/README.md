# A formal model of cpl

cpl ("cross-platform library") is the C++ library under the Signalizer audio plug-in. This directory holds
TLA+ models of its concurrent core, the TLC configurations that check them on small instances, and proofs
about them that TLAPS checks. Source paths are relative to the repository, which `PROJECT.json` calls `src/`.

## 1. What the system is

An audio plug-in lives on several threads that must not wait for one another. The host calls it on a real-time
*audio thread*. A background thread per stream, the *async thread*, does what takes long. The *user interface*
draws and edits. cpl supplies the data structures between them. Its centre is the **audio stream**: an `Input`
that the audio thread feeds, a lock-free queue of frames, the async thread, and an `Output` that calls listeners
and keeps a history of the audio for whoever wants to draw it.

```
 audio thread                async thread (one per stream)                    listeners, user interface
 -------------               ------------------------------                   --------------------------
 Input                       asyncAudioSystem()             Output
  processIncomingRTAudio --> pop / grow / batches --------> FrameBatch ------> onStreamAudio, ...
  initializeInfo             |                               inputCommandMutex <- addListener, removeListener,
  ~Input: releaseConsumer    |                               |                    modifyConsumerInfo
        \____ CBlockingLockFreeQueueMovable ____/            aBufferMutex  <----- getAudioBufferViews
                                                             CLIFOStream per channel
                     ThreadManager: launches, stalls, joins the async threads of the process
```

### Inventory

| Component (source) | State it keeps | Operations | How it interacts; what is hard | What makes it correct |
|---|---|---|---|---|
| Blocking lock-free queue (`lib/BlockingLockFreeQueue.h`) | two ring pointers, fill and growth bookkeeping, a semaphore | push, blocking pop, grow, releaseConsumer | the consumer replaces the ring while the producer is inside a push, and deletes the old one | no element is lost, repeated or reordered; no deleted ring is used; no lost wake-up; the pop says "no more" only when so |
| Polling lock-free queue (`lib/LockFreeQueue.h`) | the same without semaphore | push, pop, grow | as above, but nothing ties a look at a ring to an element | as above |
| Async thread (`AudioStream.inl`, `asyncAudioSystem`) | batch counters | the loop: pop, grow, open a batch, drain, final batch | the queue grows within the loop; the end of the stream comes at any time | every frame is handled; the thread ends, after one last batch |
| Output (`AudioStream.h`, `.inl`) | info, batch, deferred audio, history, listeners, commands, three playheads | batches, listeners and info commands, history views, destruction | two mutexes, callbacks under a lock, `try_lock` with deferral, changes of format inside a batch | a listener is told before it hears, hears all, and is not called after its removal; the history is the audio that went by, in place |
| Input (`AudioStream.h`, `.inl`) | its playhead, drop and halt flags | initializeInfo, isAnyoneListening, processIncomingRTAudio, destruction | the bounded queue drops frames, the host plays, stops and seeks | the Output's transport is that of the samples it has |
| Thread manager (`AudioStream.cpp`) | table of threads, list of ended ones | launch, stall, end, janitor, destructor | joins under a lock; identities are used again; process exit | each thread is joined once, no deadlock, the table is empty at exit |
| Circular sample stream (`lib/CLIFOStream.h`) | memory, size, cursor, access flags | write, read in three ways, resize | wrap-around, in-place resizing | always the newest samples, oldest first |
| Object swapper (`ConcurrentServices.h`) | two entries, a pointer and a flag each | tryReplace, tryRemoveOld, getObject | reclamation of memory without a lock | what is in use is not deleted; nothing leaks; the newest gets through |
| Lazy flag (`ConcurrentServices.h`) | an atomic boolean | set, test and clear | set by one thread while another clears it and acts on it | a change is noticed |
| Heap-element queue (`lib/LockFreeDataQueue.h`) and message system (`lib/CMessageSystem.h`) | queues of pointers, recycled elements | push, pop, recycle; post, poll | recycling races with popping | an element has one owner |
| Mutexes (`CMutex.*`) | flag, owner and recursion count of a `Lockable`; what each lock object points to | acquire, release, destroy, move | three variables changed one after the other; after two seconds the user may break the lock | two threads never hold one; counts balance |
| Job system (`JobSystem.*`) | job queue, quit flag, sleeping workers | schedule, complete, restart, parallel_for | shutdown races with waiting; jobs change hands; exceptions | a job runs once; a loop's iterations run once and are over when it returns; a restart ends |
| Parameters (`infrastructure/parameters`) | value, change flag, slots of real-time listeners | update from user interface, processor and host, pulseUI, add and remove listeners | three sources at once; slots changed while they are called | no change goes unannounced; a removed listener is not called; host and value agree |
| Presets and exclusive files (`CPresetManager.*`, `CExclusiveFile.*`, `gui/widgets/CPresetWidget.*`) | a file, its lock, the object whose state it holds | save, load | several programs at one file; failure, refusal or a kill at any step | what was saved is what is read |
| Serialisation (`state`) | archive tree, state of closed editors | serialize, deserialize, compile, build | an object whose deserialization throws half way | an object is not left between two states |
| Lifetime helpers (`Utility.h`, `gui/Tools.h`) | lists of observers | delayed calls, notification of destruction | callbacks that destroy their target | no call into a dead object |
| Everything else | | | graphics, DSP, SIMD, platform calls, vendored code | not protocol: see section 7 |

`PROJECT.json` has the same list with its files, the map from definitions to source lines, and the *hazards*:
places where the code can go wrong in a way that tests would hardly reach, each with the properties aimed at it.

## 2. Modules

| Module | Models | Built on |
|---|---|---|
| `FifoQueue` | what a queue promises (abstract) | |
| `BlockingQueue` | `CBlockingLockFreeQueueMovable`, one action per shared access | refines `FifoQueue` |
| `LockFreeQueue` | `CLockFreeQueue`, as the difference to the above | `BlockingQueue` |
| `FrameLoop` | the way of the frames between Input and Output, as these two see it (abstract) | |
| `AsyncAudioSystem` | the loop of the async thread | `BlockingQueue`; refines `FrameLoop` |
| `BlockingQueueProofs` | theorems about the queue and the thread | `AsyncAudioSystem` |
| `SlidingWindow` | what a history of samples promises (abstract) | |
| `CircularBuffer` | the functions of `CLIFOStream`, as operators | |
| `LifoStream` | `CLIFOStream` with views and writers | `CircularBuffer`; steps are those of `SlidingWindow` (proved) |
| `AudioOutput`, `MCAudioOutput` | `AudioStream::Output` | `CircularBuffer` |
| `AudioStream`, `MCAudioStream` | `Input`, queue and async thread around the Output | `AudioOutput`, `FrameLoop` |
| `AudioOutputProofs` | theorems about the Output, the stream and the circular buffer | `AudioStream`, `LifoStream` |
| `ThreadManager` | the process-wide table of stream threads | |
| `ThreadManagerProofs` | theorems | `ThreadManager` |
| `ObjectRegister` | what the swapper promises (abstract) | |
| `ObjectSwapper` | `ConcurrentObjectSwapper`, one action per atomic access | refines `ObjectRegister` |
| `ObjectSwapperProofs` | theorems | `ObjectSwapper` |
| `JobSystem` | the pool: queue, workers, restart | |
| `ParallelFor` | `jobs::parallel_for` and its jobs | `JobSystem` |
| `ParallelForProofs` | theorems | `ParallelFor` |
| `RealtimeListeners` | the slots of a `ParameterGroup` | |
| `Parameters` | a parameter between user interface, processor and host | `RealtimeListeners` |
| `ParametersProofs` | theorems about both | `Parameters` |
| `PresetFiles` | saving and loading through `CExclusiveFile`, the file system | |
| `PresetWidget` | the object that is saved and loaded, and its user | `PresetFiles` |
| `PresetWidgetProofs` | theorems about both | `PresetWidget` |
| `Mutexes`, `MCMutexes` | `CMutex` and `CFastMutex` | |
| `MutexesProofs` | theorems | `Mutexes` |

Composition is by levels of detail. `BlockingQueue` is proved to be a FIFO; `AsyncAudioSystem` puts the loop over the
detailed queue, and the two together are proved to implement `FrameLoop`, a bounded FIFO with a loop of six steps.
`AudioStream` is built on that, so that the whole stream, from the audio callback to the listeners, fits into one state
space. In the same way `LifoStream` checks the circular buffer
for itself, and `AudioOutput` uses its operators for the history. `ParallelFor` supplies the pool's jobs with a body
and `Parameters` the listeners' slots with callers, `PresetWidget` the files with something to save: in each the upper
module's steps are the lower one's steps with what happens around them.

### Correspondence to the code

* **BlockingQueue.** `queue`, `oldQueue`, `currentNumElements`, `enqueuedDataAllocations` are the members of those
  names, `tickets` the semaphore, `live` the rings that were not deleted. A ring is named by the size it was made
  for, which only grows, and its moodycamel implementation (external) is an atomic bounded sequence with the real
  capacity (`2^k - 1`). `ppc`/`cpc` are where producer and consumer are; `accepted` and `popped` count, and
  an element is its number, so that loss, repetition and reordering all show. `growthRequirement` is an integer
  percentage. The user is the audio stream: one releases the consumer once, after its last push.
* **LockFreeQueue** replaces the wait and the signal; the rest is the same code in the source, too.
* **AsyncAudioSystem.** `loop` is the position in the loop; `pops`, `remaining` are `pops` and `numExtraEntries`;
  `batch` says whether the weak pointer to the Output could be locked. It counts what is queued in the ring
  in use, as `enqueuededElements()` does, and not what is left in the old one. To `FrameLoop` a frame is in the queue
  until it is handled (`Unhandled`, with the one `InHand`), and `Stage` says where the thread is.
* **FrameLoop.** Two things are not as a plain FIFO would have them. A batch may end with frames left, those of the
  ring that the queue grew out of; and a push may be refused while the queue holds less than it could, since it grows:
  from `FifoLeast` frames on, which is what the smallest ring holds.
* **CircularBuffer / LifoStream.** A stream is memory, size and cursor; the constant `Garbage`, which is no sample,
  stands for what was never written. `copyIntoHead`, `configureNewSize` and the others are operators that do the same
  moves and rotations; a `Writer` works on its own copy of the cursor, as in the code.
* **AudioOutput.** Samples are numbered in the order they come and equal on all channels. `pc` leads the
  processor through `endFrameProcessing()`: read flags, lock and apply commands, resize the history, notify each
  listener, advance the playhead, publish or defer. Listeners may look at the history from a callback
  (`Peeking`) or spool deferred audio (`Spooling`); another thread takes views and gives them back. `told`,
  `heard`, `quiet` and `died` record what the listeners saw. `clock` and `transport` are the playhead: the steady clock
  and the `TransportData`, whose position advances while it plays (`Advanced`). The history is lined up by the steady
  clock, which always advances. Callers, which are outside the repository, are assumed to add a listener that is not
  there and to remove what they added; the code also accepts a second addition, after which it calls the listener
  twice, and a removal that finds nothing, which it skips but counts (`AudioStream.h:586-605`). The mutexes are
  variables with an owner, so that waiting and the order of locks are part of the model. A callback that calls back
  into the Output's commands would lock `inputCommandMutex` twice and is not among the listeners' actions.
* **AudioStream.** Samples are numbered as they are handed to the Input. `hostTransport` is what the host says, which goes
  on with each call if it plays, and which `HostMoves` sets, starts or stops between calls; `inputTransport` and the
  Output's `transport` are the playheads at the two ends, compared as a whole, as in the code. A packet carries `at`,
  the transport of its first sample, for the property to look at. A call of `processIncomingRTAudio()` leaves frames
  `pending`, which are submitted or dropped one by one while the async thread runs. Its steps are those of `FrameLoop`,
  joined with what the Input and the Output do in them. Threads that hold the history (`TakeViews`) are left to the
  Output's own runs.
* **ThreadManager.** Thread identities can be used again as soon as they were joined. A step is what happens between
  two acquisitions of `globalMutex`, or one `join()`, which throws on a thread that was joined before.
* **ObjectSwapper.** Objects are numbered as they are stored. `held` is what the consumer may use by the contract of
  `getObject()`: what it got since it last called it. The consumer may call before there is an object, and gets none.
* **JobSystem / ParallelFor.** A job is the number of a call of `schedule()`. A stretch of code under the pool's mutex is
  one step, except that a worker keeps the mutex between the test of its wait's condition and its falling asleep, because
  `shutdown()` changes `quit` and notifies without the mutex. `rpc` leads the thread in `restart()` through quit, notify,
  join, drain and start. The client of `parallel_for` schedules, runs its own share and completes the jobs in order; an
  exception of a job is kept until its completion. The dependencies between jobs have no state in the model because they
  have none in the code: `schedule()` returns a handle whose `job` is never set (`JobSystem.h:159-186`).
* **RealtimeListeners.** A slot is a pointer and a spin lock. `rpc`/`rat` lead each registering thread along the
  slots, and `cat`/`calling` each thread that changes a parameter. Looking at a slot and writing to it are separate
  steps.
* **Parameters.** `pc` leads each caller through the function its `source` names; the order of the store, the message to
  the host, the listeners and the flag differs between the three functions, and the model keeps each one's. `ABoolFlag` is
  set in `SetFlag` and tested and cleared in `Pulse`. Values are whole numbers of which the largest are out of range.
* **PresetFiles.** The file system is external: `path` names an inode or none, `content` and `lock` belong to inodes,
  `fd` is what an instance has open; to open for writing creates or truncates, `flock` is not asked for before that,
  and an inode lives until its name and its last descriptor are gone. `pc` goes through `savePreset()` (create, lock,
  remove, create again, lock again, write, close) and `loadPreset()` (open, lock, size, read, build). Any instance may
  be killed at any step.
* **PresetWidget.** An object's state is the number of the edit that made it, or `torn`. `safeState` is the archive that
  `deserializeObject()` keeps to go back to. Serialization may throw, and leave a part of the state in the archive or
  nothing (`Serialized`, with the empty archive `void`), which neither a save nor `deserializeObject()` looks at. The
  way back may throw as well (`RevertThrows`). `excuse` remembers why an object was left half changed.
* **Mutexes.** `flag`, `ownerThread`, `refCount` and each lock object's `resource` are the members of those names, changed
  in the code's order; `call` holds the arguments and `lockOwnedByThread`. `broken` names the Lockables whose protocol was
  left by the program's own decision: the user's answer "continue", an inner `release()`, an exception.

## 3. Runs

| Run | What it asks | Instance |
|---|---|---|
| `lock_free_queue_loss` (violated) | "This will NOT delete any enqueued elements" without the semaphore | one growth, 4 elements |
| `async_audio_system` | Is the queue a FIFO under growth, with every wake-up and the end of the stream? Is every frame handled, the last batch run, the end reached? Do the two implement `FrameLoop`? | rings of 1, 2 and 4 (two growths), 6 frames, growth at the first batches |
| `lifo_stream` | Is the circular stream always the newest samples, through every wrap and resize? | capacities up to 4, 7 samples, blocks up to 5 |
| `output_listeners` | Who is called, told what, when, and hears which samples? | 2 listeners, one peeking; 1 or 2 channels; 3 commands |
| `output_history` | Does the history stay in place with readers, deferral, spooling and growth? | 2 channels, 4 samples, 3 commands, sizes 2 and 3, blocking and not; a listener that peeks and spools |
| `audio_stream` | Does audio come with its transport when frames drop, the host stops, starts and seeks or the Input is suspended? Are commands applied, and does the stream end? | queue of 2 frames that may refuse from 1 on, packets of 1, 4 calls of up to 2 samples, 3 samples, 2 commands |
| `thread_manager` | Joins, deadlock, reuse of identities, exit | 3 identities, 2 launchers, 1 stream that runs on at exit |
| `object_swapper` | Is memory in use safe, does nothing leak, does the newest arrive? | 4 objects, a consumer that may call first |
| `job_system` | Is each job in one place, does each iteration run once, what can hang? | 2 workers, loops of 2 to 5, 2 restarts, 1 exception |
| `parameters` | Who is called, and do views and host end up with the value? | 2 listeners, 2 slots, 2 callers, 1 view, 2 updates |
| `presets` | What is in the file, and in the object, after saves and loads that overlap, fail or are killed? | 2 programs, 1 edit |
| `mutexes` | Do two threads ever hold one lock, do the counts balance? | 2 threads, 2 lock objects each, 2 resources, 1 leak |

**Why these bounds.** The queue's hazards need a producer stalled in a push across a growth, and a second growth that
is refused until the first has drained; sizes 1, 2, 4 give both, and 6 elements overfill either of the first two
rings. The thread's counters are given small initial values, since their real ones (20 and 10) only delay the first
growth. In the circular stream the blocks are shorter than, equal to and longer than each capacity. In the Output the
two listener sets, one reader, two sizes and three commands are enough for a command to arrive at each step of a
batch. A queue of two frames that may refuse the second, with calls of up to two packets and a transport frame before
them, drops each subset of what a call sends; the first of the four calls announces the format, and of those that are
left two can lose frames, or one can and the host then move, before one that must be right again. Two commands are a
listener that comes and goes. Three identities let one thread be stalled, one run and one end while a fourth launch
uses an identity again. A swapper has two entries, and the fourth object is the second in either. Loops of 2 to 5
iterations over two workers split into jobs of one and two iterations, with and without a rest; two restarts let one
begin while jobs of the first drain are under way. Two slots are one more than a listener needs, so that it can find
itself, another or nothing in either, and two updates overlap in each pair of functions. One edit makes two contents
that tell whose save a file holds; a third inode is there when both programs have one open and the path names another.
Two lock objects per thread nest, and two resources can be taken in opposite orders and exchanged. All runs but the
one with a violation are exhaustive, and check deadlock.

**Type invariants** are proved rather than run: type correctness is a part of every inductive invariant of section 5, and
so holds for all constants. For the circular stream on its own it is that its state is one of `Streams`, a part of
`LifoInv`.

**Conditions in properties.** Where the code admits a behaviour that is not wanted, the property says precisely where:
`crowded`, `doubled`, `overlap`, `spoilt`, `crossed`, `broken` and `late` are history variables that remember that the
program went through it, and the property says that nothing else breaks it. Section "Behaviours the passing runs
exclude" lists them.

**Mutants.** For each checked property `PROJECT.json` names a plausible mistake (a dropped signal, a missing
reset, the wrong order), as an operator in front of the definition it spoils, with which the property fails.

### Fairness

* `BlockingQueue`: a push or grow that has begun ends, and the consumer keeps popping (it is a loop). Nobody has to
  push, grow or release. `AsyncAudioSystem`: the thread runs, and pushes that began end.
* `AudioOutput`: the processor, once it is ending a batch, takes its steps (strongly fair, since it waits on mutexes that
  others take again and again, and a blocked `std::mutex` waiter is served in the end), and a view of the history is given
  back. Nobody has to begin a batch.
* `AudioStream`: the async thread runs. The Input may stop at any time, also in the middle of a call.
* `ThreadManager`: each thread gets the mutex in the end (strong fairness, as above), streams need not end.
* `ParallelFor`: the client, each worker and a restart that has begun take their steps. Nobody has to restart the pool.
* `Parameters`: an update that has begun ends, and the user interface pulses again and again, as its timer does.
  Nobody has to update a parameter or touch the listeners. `PresetWidget` and `Mutexes` state no fairness and are
  asked for safety only.
* `ObjectSwapper`: the producer tries again and the consumer's callback comes again and again (strong fairness of
  the call: it is disabled while another call of its runs).

## 4. What the violation shows

**A growing polling queue can delete an element** (`lib/LockFreeQueue.h:120`). The consumer finds the old ring
empty; a producer that had loaded the old pointer puts an element there, then one into the new ring; the consumer
finds the second and deletes the old ring with the first. The blocking queue is safe because of its semaphore:
a consumer that is inside a pop holds a unit for an element, and if that is not in the old ring it can only be in the
new one, so the producer has seen the new one. That is the heart of the proof in section 5.

### Behaviours the passing runs exclude

These are assumptions of the passing runs, each a constant, a guard or a condition in a property that can be changed
to see the effect. Audio stream, queue and swapper:

* `Shrinks`: a *smaller* history size with samples stored breaks `HistoryInPlace`, because the cursor from before the
  resize is restored (`AudioStream.inl:322-327`), which after a shrink is not where the oldest sample is.
* `Consumers`: switching the storing off and on again leaves the samples from before the gap beside those after it
  (`AudioStream.inl:229`), which breaks `HistoryInPlace` too.
* `ModifyConsumerInfo` is called by threads that do not hold the history. Otherwise it takes the two mutexes in the order
  opposite to that of a listener which looks at the history from `onStreamPropertiesChanged` (`AudioStream.h:620-625`,
  `AudioStream.inl:149-167`), and they wait for each other.
* An info frame that finds the queue full is lost without anybody noticing (`AudioStream.h:792`); `AudioAsTold` is
  therefore not asked of the stream with drops. What remains true is proved: `StreamAudioIsAnnounced` and
  `StreamStorageFits` in section 5.
* `droppedFrames` counts frames and, for audio, samples as well (`AudioStream.h:989`, `AudioStream.inl:400,429`), though
  its comment (`AudioStream.h:332`) speaks of frames; the model counts as the code does, and no property uses it.
  `framesWereDropped` is never reset (`AudioStream.inl:438`), so that after the first drop the transport is sent with
  every call; `Discontinuity` says so.
* `Overtaken = FALSE`: a call of `getObject()` that loaded the entry which is current, and empty, at the beginning, may
  be overtaken by two calls of `tryReplace()`: the first fills the other entry, the second the one the call waits at
  (`ConcurrentServices.h:186-197,212-218`). The call then signals that entry, and returns its object, before it
  is current. The next call may load the entry of the first object; as soon as the other becomes current, already
  signaled, `tryRemoveOld()` deletes the first object, and that call returns it. With `Overtaken = TRUE` TLC finds
  this violation of `HeldIsAlive` in 14 states. A consumer that calls before the first object, and is not overtaken
  so, is part of the run and of the theorems.
* `Spool` waits for an Output with as many histories as entries of deferred audio. `endFrameProcessing()` makes the
  entries whether audio is stored or not (`AudioStream.inl:181`), the histories only if it is (195), so a listener that
  calls `getAudioBufferViews(true)` while storing is off runs into the assertion in `mergeInputToBuffer()` (276), which
  throws. `SpoolFits` states the assertion. TLC finds it violated in eleven states, since nothing is stored before
  the first `modifyConsumerInfo()`; `StorageAlwaysFits` proves that it cannot happen while storing is on.
* `RemovedIsQuiet`: a listener that is added and removed between two batches is still told the info in the second of
  them, as its addition is applied (`AudioStream.inl:164-167`), unless all listeners are to be told anyway. The
  property allows this one call, with the removal next in line, and no other.
* `AddListener` and `RemoveListener` are called by turns for each listener (section 2).
* `releaseConsumer()` is used as the stream does it. Called by "any thread" during a push it leaves a unit of
  the semaphore with no element, and the blocking queue has the polling queue's defect.
* One view or one writer at a time: the views' `hasReader` is a flag and not a count (`lib/CLIFOStream.h:756`), so
  that two views and a writer do not exclude each other. All uses in the library are under a mutex. `setSize()` hands
  the fill value and the flag to `configureNewSize()` in the opposite order (`lib/CLIFOStream.h:550` against 669), and
  has no caller.
* `ChannelCounts` has one member in the run over the history, so that this run says nothing of changes of format.
  A channel that is added while audio is deferred gets an empty entry of the deferred input (`AudioStream.inl:181`);
  the merge puts the deferred samples into the other channels and advances their cursors alone (294), so that the
  channels are out of step from then on.
* `isAnyoneListening()` overwrites the flag that remembers a pause without listeners in the call that finds one again
  (`AudioStream.h:819`), before `processIncomingRTAudio()` looks at it, so that the playhead is not sent again on its
  account.
* A stream that still runs at exit is joined by the destructor (`AudioStream.cpp:109`), lists itself as ended, and is
  joined again by the destructor's second janitor, which throws. `CleanWithoutLate` shows that all is well when no
  stream outlives the start of the destructor. At most one stream runs on at exit in the run; with more the destructor
  walks the table without its lock while they change it.

Jobs, parameters, presets and mutexes:

* `WakeUpMissed`: `shutdown()` stores `quit` and notifies without the mutex (`JobSystem.h:221-222`), so that a worker
  between its test of `quit` and its wait (272) sleeps through it, and the join waits for a worker that only a later
  job would wake. `PoolProgresses` says that nothing else hangs.
* The dependencies that `schedule()` takes are never waited for: `ret.job` is not set, so each handle is empty and
  each job pushed at once. The mutex and the counters of the job graph therefore never see two threads.
* An exception leaves `parallel_for()` with jobs that refer to its locals still queued or running; `EachIterationOnce`
  is about normal returns. A job that schedules a job while `shutdown()` drains the queue locks the mutex it runs
  under (229).
* `crowded`: two threads that add at once may choose one free slot, and the second overwrites the first's listener
  (`ParameterSystem.h:513-528`). `doubled`: a listener that is added again may find a nearer free slot before its own,
  is then called twice, and stays in one slot after its removal, since `removeRTListener()` clears only the first.
* `overlapped`: updates that overlap may leave the host with the value that lost. The next update sets it right.
* `overlap`: opening for writing truncates before the lock is asked for (`CExclusiveFile.cpp:104-133`), although
  `CExclusiveFile.h:28-30` speaks of exclusive access. Two saves that both return true may have written to one file,
  the shorter preset over the beginning of the longer one; its checksum then fails on every load.
* `spoilt`: a save that fails, is refused the lock or is killed leaves no file, an empty one or a part of one, as the
  old preset is removed first. An empty file passes `loadPreset()` up to the header, which is read at the address of
  an empty vector (`CSerializer.cpp:396-399`): the model takes that for the end of the process. `crossed`: so does a
  load that coincides with a save.
* `accepted`: the user may keep an object whose deserialization, or serialization, threw half way, or load what was
  saved so. `stranded`: on cancel, `deserializeObject()` restores `safeState` from within the catch handler
  (`SafeSerializableObject.cpp:199,224,247,271,295`). That state may hold a part or nothing, since the result of
  `serializeObject()` is ignored (157), and restoring it may throw, out of the function and with the object half
  changed, though the user is told that cancel will "revert the changes to the last known, safe state" (164).
  `CancelReverts` states that promise, and is violated.
* `broken`: an inner `release()` of a nested lock object keeps its pointer (`CMutex.cpp:51-58`), so that its
  destructor releases a second time, which frees what the outer one holds or throws; an `acquire()` that throws leaves
  the pointer to what it had given up (121-136); and "continue" clears the flag under the holder (97). `leaks`: a move
  assignment forgets what its target held (`CMutex.h:108`).

## 5. What is proved

TLAPS checks every theorem for all values of the constants, under the assumptions named in the modules: any number of
threads, listeners, samples and so on, and of steps. Each proof has the same form. An inductive invariant (`IInv`, or a
name given below) holds at first and is kept by each action, one lemma per action; the theorems follow from it. TLC
checked each of them on the instance of the component's run before it was proved. All safety properties that the runs
check are proved.

**The blocking queue** (`BlockingQueueProofs`, from `SizeAssumption`: sizes are numbers, the initial one is positive, and
`CapacityAssumption`: no ring holds less than the first).
`Invariance` establishes the inductive invariant `IInv`, from which follow `TypeCorrect`, `NothingIsLost`,
`DeletionIsSafe`, `TicketsAreCovered` and `QuitsDrained`; with it every step is a step of the abstract queue or leaves
that unchanged (`RefinesFifo`). The invariants alone are not inductive. `IInv` adds:

* `Consecutive`: the old ring holds the elements after `popped`, the new one those after these;
* `Covered`: units of the semaphore, units in the hands of a pop, and elements balance, with the one of the release;
* `Fresh`: rings larger than the current one are empty, and at most two are alive;
* `StaleProducer`: a producer that loaded the old pointer has put nothing into the new ring;
* `ConsumerSteps`: a consumer past the old ring found it empty, and at its deletion no push holds it.

The argument is the one of section 4: a pop that took a unit and found the old ring empty has its element in the new ring
by `Covered`, so by `StaleProducer` no push in progress can still use the old ring, which may go.

**The async thread** (same module, from `PopsAssumption`). Each of its steps is a step of the queue or leaves the
queue alone, so that the queue's theorems hold in it, and `AsyncRefinesFifo` with them. On top,
`AsyncInvariance` says where in the queue's code the thread is at each position of its loop (`InQueueCode`), that the
elements it still expects in a batch were accepted (`Expected`), and that the Output was handed what was popped
(`Handed`). `Expected` is what makes an inner pop that returns false impossible (`NoInnerPopFails`), which would
leave the loop past the final batch; `AllFramesAreHandled` follows from `Handed`. `AsyncRefinesLoop` maps all of it to
`FrameLoop`: an inner pop that returns takes the oldest frame that is unhandled, whichever ring it comes from, and the
loop is left when the Input is gone and none is left. `OnlyFullQueuesRefuse` says when a push fails: a ring is full of
frames that are yet to be handled, though the queue may be a larger one by then.

**The object swapper** (`ObjectSwapperProofs`, for any number of objects, assuming `~Overtaken`). `Invariance` again, then
`TypeCorrect`, `HeldIsNeverDeleted`, `NeverLeaks`, `SignalsHaveObjects` and `RefinesRegister`: what the consumer gets
is the object that was newest at some time during its call, never an older one after a newer one. The heart is
`Signals`: once the current entry is signalled, the consumer is in no call that loaded the other entry and holds
nothing of it. It is kept because an entry becomes current unsignalled (`Unused`), and a call that signals starts with
nothing held (`InCall`).

**The Output's listeners** (`AudioOutputProofs`, from `OutputAssumption`). The commands, in the order they wait, lead
from the listeners registered to those `asked` for: each adds one that is missing there or removes one that is there
(`Registered`, through `Leads`), so that the vector never has one twice and no removal misses. Whoever is `quiet` is
not among those a batch is still to call (`Silenced`), and if its addition is yet to be applied its removal is in line
behind that (`LeadsAway`), hence `RemovalIsFinal`, with the one exception that the property names. A listener was told
of the present info, or it is `Untold` and was told of `oldInfo` or of none (`Informed`, hence `ChangesAreAsTold`). So
far nothing depends on what the frames are, and these parts together are `Listening`, which the stream shares. With
the channels that the producer announced (`Announced`) this gives `AudioComesAsTold`. Its last sample is the one
before the batch or the last of it, as it is yet to be called or not (`InOrder`, hence `AudioComesInOrder`).

**The circular buffer** (same module). `WritingSlides` and `ResizingKeepsTheNewest` are about the operators that the
history and `LifoStream` share: for each size, cursor, block and capacity, a write moves the window on, and a new size
pads it with silence or drops its oldest samples. Each follows the moves and rotations through the cases of the cursor.
`StreamIsWindow` lifts both to `LifoStream` with its writers, whose own copy of the cursor makes a stream with the
memory (`LifoInv`, inductive by `LifoInvariance`), and so proves `IsSlidingWindow`. What is read is the window:
`RunsMakeTheWindow` for the two runs of an iterator, `CopiesGoRound` for `copyFromHead()`, which goes round them as
often as it takes. That one is by induction on the number of samples, not with the library's rule (see below) but by
the least number, with the run to begin with, for which it fails. `ReadsAlwaysAgree` joins the two.

**The history** (same module, under `Steady`: one number of channels, storing always on, a size between 1 and the
capacity, `~Shrinks`). These are the conditions of the run `output_history`; section 4 says what happens without them.
`HistoryInvariance` establishes that the channels are alike (`Counted`), that the history has its size before it is
written to (`Kept`), that the clock counts the samples that went by (`Played`), that what is deferred are the last of them
(`Deferred`), and that each sample in the history is in place relative to the time published with it (`Published`).
`SamplesAreInPlace` and `AudioIsKept` follow, through deferral, merging, spooling and growth.

**The room for the audio** (same module, without `Steady`, for the Output by itself and in the stream). Formats and
sizes may change in any way, storing may be turned on and off, and the frame that announces a number of channels may
be lost, so that the audio has another. Still each channel of a batch has as many samples as the others (`Even`); the
channels of the history have one size, that of the info except between a command and the resize it causes (`Sized`);
and a history that does not suit the batch is noticed, before and after the commands, and made to (`Suited`). So,
while storing is on, batch, deferred audio and history have the same channels whenever `mergeInputToBuffer()` or the
deferral goes along them (`StorageAlwaysFits`, `StreamStorageFits`), which is what `CPL_RUNTIME_ASSERTION(channels ==
audioHistoryBuffers.size())` says (`AudioStream.inl:276`). And outside the resize a channel only slides on, by what
was deferred and then the batch (`HistorySlidesOn`, `StreamHistorySlides`). What `Steady` adds is that the channels
slide in step and the resize keeps the order.

**The whole stream** (same module, with `StreamAssumption`). The frames in the queue, each taking the transport on by
its samples, if it plays, or setting it, lead from where the Output is (`Place`) to where the call under way goes on,
and that call's frames, as long as it lost none, lead from there to the Input's transport (`Plays`, `OnTrack`). A loss
is remembered in `framesWereDropped` or `problemsPushingPlayHead`, which makes the next call begin with its transport.
`PlayheadStaysRight` is read off the first frame of the queue. `Ending` says that the thread leaves the loop with the
queue empty and its last batch after the last command, and with `Registered` gives `CommandsGetApplied`. The queue and
the loop are those of `FrameLoop` (`StreamFollowsLoop`), so that by `AsyncRefinesLoop` the detailed ones may stand in
their place. Since the stream keeps `Listening`, a removed listener is quiet in it (`StreamRemovalIsFinal`), changes
are as told (`StreamChangesAreAsTold`) and audio comes after the info in force (`StreamAudioIsAnnounced`), whatever
frames are lost.

**The thread manager** (`ThreadManagerProofs`, from `ThreadAssumption`). What is announced and still in the table is past
its last use of the mutex (`Leaving`), so that a join under the mutex ends (`JoinsEnd`). Until the exit what is in the table
can be joined (`Known`); without a late stream whoever is past its end is on the list or in the hands of the
janitor (`Announced`), and so the destructor finds all of them and none twice (`Clean`, hence `CleanExit`).

**The pool and its loops** (`ParallelForProofs`, from `PoolAssumption` and `LoopAssumption`). Jobs leave the queue in
the order of their numbers: those before `Front` are executed by one worker or finished, the others wait (`Kept`,
hence `NoJobIsLost`). The mutex keeps the workers off the job at the front that a restart executes before it removes
it (`Locking`). The split of the loop is exact (`Split`), so that jobs and iterations correspond one to one, and the
number of calls of each iteration tells how far its job is (`Counted`, `Own`, `Beyond`); with `Completed` this is
`LoopIsComplete`.

**Parameters and listeners** (`ParametersProofs`, from `SlotAssumption` and `ParameterAssumption`). A caller's lock pins
the listener it calls (`Locking`); what the registering thread knows of the slots it has passed stays true (`Searching`);
and what it found in a slot is still there unless two threads met (`Undisturbed`). From these `RemovalIsFinal` and
`AdditionLasts`. An update that overlaps no other is the only one and knows what it has written where (`Agreement`, hence
`HostFollows`). `StaleIsPending` is inductive by itself with `Sources` (`NoViewIsForgotten`).

**Presets** (`PresetWidgetProofs`, from `PresetAssumption` and `WidgetAssumption`). As long as no save failed, either
a save is on its way to a file of its own under the path, or what the path names was written by a save that is through
or about to be (`Durable`, with `Written` and `Alone`), whence `SavedPresets`. A load that no save coincides with
reads what the path names (`Loading`), whence `LoadsOfEmptyFiles`; a save that one coincides with excuses it whether it fails
or not. `ObjectsAreWhole` needs that a half-changed state is kept to go back to only where the object already was so
or its serialization threw, and its user did not mind.

**Mutexes** (`MutexesProofs`, from `MutexAssumption`; the lock objects are finitely many). A Lockable that nobody
broke has an owner from the step after its flag is set to the step before it is cleared (`Exclusive`, `Owned`), and
what points to it is used by its owner (`PointsToOwn`), hence `MutualExclusion`. Its count is that of the lock objects
that point to it, those in the middle of an acquire or a release aside, and of the leaks (`Counted`, hence
`Counting`). `StillMine` is about a lock object that gives up one Lockable for another its thread owns already.

**Assumptions.** They say that names which must differ do (`none` is no thread; `Nobody` is no process), that what is
counted is finite, that bounds are numbers, and that a ring made larger holds no less (`CapacityAssumption`, on the
`2^k - 1` of the implementation, which TLC evaluates for the sizes of the run). The conditions that leave a behaviour
of the code out are those of section 4: `~Overtaken` and `Steady`, which the theorems about the swapper and the history
name as hypotheses, and the conditions within the properties themselves.

**Only model-checked**: all liveness (`ThreadEnds`, `EveryFrameHandled`, `BatchFinishes`, `StreamEnds`,
`StreamsStart`, `ExitEnds`, `NewestGetsThrough`, `PoolProgresses`, `ViewsCatchUp`, and the fairness part of
`ImplementsFifo`), which is out of this prover's reach, as are the library's induction rules: they take an operator as a
parameter. `FrameLoop` states no fairness, so that what the stream's liveness rests on, a thread that runs, is assumed of
the loop and checked of the detailed thread. The violation of section 4 is a run.

## 6. Plan

Modelled, in this order: the queue and its thread (most traffic, least tested), the history and the Output, the stream
as a whole, the thread manager, the object swapper, the pool, the parameters, the presets, the mutexes. What is left:

1. **Proofs**: the order of the history without `Steady`: what the windows of the channels hold after a change of their
   number, and up to the first resize that shrinks them. The capacity of a ring as a theorem instead of an assumption.
2. **Heap-element queue**, the archive tree, lifetime helpers, as far as they have a protocol and a user.

## 7. Not modelled, and why

* **Graphics, user interface, DSP, SIMD, values and formatters**: numeric or visual code without a protocol, mostly
  floating-point.
* **Platform layers**: processes, signals and structured exceptions, timers, dynamic libraries: thin wrappers whose
  behaviour is the operating system's.
* **Vendored code** (`lib/readerwriterqueue`, `ffts/pffft`, `octave`, `lib/md5`, `external`): the reader-writer queue is
  modelled by what `lib/` uses of it.
* **Heap-element queue and message system** (`lib/LockFreeDataQueue.h`, `lib/CMessageSystem.h`): nothing in the repository
  instantiates them.
* **Lifetime helpers** (`Utility.h`, `gui/Tools.h`): lists of observers, in the repository used on the main thread
  only. Their rules can be read off: a listener that adds or removes itself from `onServerDestruction()` locks the
  mutex it is called under (`gui/Tools.h:64-70`), and `MainEventBlocking()` tests `contextWasDeleted` on another
  thread than sets it.
* **The archive** (`state/CSerializer.*`): a tree whose layout in memory is data; of its build the model keeps that a
  wrong checksum is refused. **`DecoupledStateObject`** (state of closed editors) is one thread's.
* **FIFO event system** (`lib/CFIFOEventSystem.h`): it names members that do not exist, so it has no behaviour.
* Within the modelled parts: channel names and the arrangement (copied through, but they end a batch as the transport
  does), performance measurements, the iteration templates over the history, `CLIFOStream::setCapacity`, `setSize` and
  external memory (no caller), the synchronous stream's direct calls; jobs that schedule jobs, a pool without workers;
  update flags other than `All`, registration and sealing of groups, bundles, change gestures; the preset dialogs,
  directory listings, the Windows build, waiting for a file lock; `addRTListener()` and `removeRTListener()` with
  `spin = false`, which pass over a slot whose lock they do not get. `shutdown()` runs a job of its drain and removes it in
  one step: between the two (`JobSystem.h:234-235`) a `parallel_for()` may return with a job in the queue that has run,
  which is not run again.
* **Memory is sequentially consistent** in all models, which is an assumption. The pointers and flags of the queue and
  the swapper are atomics of the default order, and what the Output and the pool share is under a `std::mutex` or such
  an atomic. The weak ones (`inputChanges`, `enqueuedDataAllocations`) are flags that their reader may see late, by a
  batch or a growth, which is an interleaving the models have anyway. For two parts the assumption goes beyond what the
  code asks of the machine: `CMutex` sets its flag with a relaxed `test_and_set` (`CMutex.cpp:71,211`), with fences after
  it, and reads and writes the plain fields `ownerThread` and `refCount`, the owner also without the lock
  (111, 135, 149), which its own comment calls a race; and a slot's lock in `ParameterSystem.h` is taken with a
  relaxed `test_and_set`, its listener read with acquire. What `Mutexes` and `RealtimeListeners` show holds of the order
  of the statements, and not of reorderings below it.

## 8. How to run

```
tlc -config AsyncAudioSystem.cfg AsyncAudioSystem.tla  # any run: <cfg> and <module> as in PROJECT.json
for m in *Proofs.tla; do tlapm $m; done                # AudioOutputProofs takes minutes, the others one or less
```
