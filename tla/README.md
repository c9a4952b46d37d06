# TLA+ models of the MicroEJ port for the Sony Spresense

The repository ports the MicroEJ virtual machine to the Spresense board (NuttX).
Its own logic is a set of C components between the virtual machine and the
operating system. They share one shape: *natives* run in the virtual machine
task, one at a time, and must not block; blocking work is handed to another
task, the calling Java thread is suspended through SNI and resumed by that task.
What goes wrong in such code goes wrong between two tasks, which is what these
modules describe.

Paths below are relative to `src/microej`. SNI, the graphics engine, POSIX and
the Sony middleware are outside the repository: they are modelled as far as the
code uses them and marked external.

## Inventory

| component | state | operations | interacts with | hard because | correct when |
|---|---|---|---|---|---|
| async worker (`microej_async_worker`) | free jobs, circular list of waiting threads, parameters and thread of each job | initialize, allocate, free, async_exec, get_job_done, worker loop | SNI (suspend, resume), an OSAL queue and task, the fs natives | the worker may be done before the thread is suspended; natives barge in; the loop keeps its last job | no job leaked or shared, each call executed once, in order, and called back once, with its own result; waiting threads resumed |
| OSAL queue (`osal`) | linked list, mutex, condition | create, post, fetch, delete | async worker | signals against timeouts, failed allocations, several fetchers | order kept, no message or wake-up lost, status says what happened |
| OSAL tasks, semaphores, mutexes | POSIX objects | create, take, give, delete, sleep | only the creation of tasks is used by other components | deadlines on the wall clock, word widths, status of the timed lock | deadlines are the ones asked for |
| fs natives (`fs/src/LLFS_*.c`) | parameters of each job | about 25 natives and their on-done callbacks | async worker, fs actions | results and arrays cross two tasks | results of a native are those of its action, every error path frees the job |
| fs actions (`fs_helper_posix.c`) | file descriptors | open, read, write, seek, skip, available, directories | POSIX | mixed integer widths, positions past the end | positions and counts within the file |
| display (`ui/src/LLDISPLAY.c`) | buffer, region, two semaphores | flush, synchronize, flush_display task | graphics engine, LCD driver | semaphores tested before they are posted; a copy of 40 ms beside running Java code | no tearing, nothing flushed is lost, the caller is released |
| list (`microej_list`) | nodes, free nodes | initialize, add, delete, get, visit, cleanup, consume | GNSS | no lock, two tasks; initialised again | no node lost or in two lists |
| GNSS (`gnss`) | running, data_ready, waiting threads, last position | init, start, fetch, stop, close, signalling thread | list, SNI, driver signals | fetch races with the signal; close leaves threads | every waiting thread is resumed, data read is fresh |
| audio natives (`audio_player_LLAPI.cxx`) | one command record, one semaphore | initialize, play, pause, gain, close, calling thread | SNI, audio player | one record for all threads | a result belongs to the command of the thread that reads it |
| audio player (`audio_player_functions.cxx`) | player state, file, FIFO | initialize, play, pause, refill loop | Sony audio middleware | FIFO limits, state against file | all of the file is played, once |
| shielded plug (`LLSP_impl.c`) | two semaphores | block enter and exit, wait, wakeup, initialize | Java and C tasks | may be initialised while in use | exclusive access to a block, a wake-up reaches its task |
| virtual machine port (`LLMJVM_nuttx.c`, `posix_time.c`) | wake-up semaphore, next wake-up | scheduleRequest, idle, wakeup, tick hook | tick interrupt, all tasks that resume threads | an interrupt between test and post; 64-bit to 32-bit ticks | no wake-up is lost |
| UART (`LLCOMM_UART.c`) | descriptor, enables, shouldPollout | send, receive, enables, initialize, release, polling task | communication library | flags shared without lock; release against poll | every notification asked for is given |

LEDs, device identity, board support, start-up and the audio memory layouts have
no state worth a model. The platform configuration, the front panel and the Java
mocks contain no code of the port.

`PROJECT.json` lists under `hazards` what is hard to test in all of this, at the
line where it bites, with the properties that cover it or the reason why none does.

## Modules

- **`OSALQueue`**: `osal_posix.c`, queue create, post and fetch. A critical
  section under the queue's mutex is one step; a fetcher that has left
  `pthread_cond_timedwait` takes the mutex in a later step, so that posts and
  other fetches come in between. `waiting_msg` is the linked list, `fetch` the
  place of each fetcher, `msg` the variable it passes. A signal wakes one waiter;
  the deadline (`Expire`) and spurious wake-ups are possible at any time, with
  `OSAL_INFINITE_TIME` too, because the code turns it into a deadline of
  2^32 - 1 ms on the settable clock. `empty_returns` is a history variable:
  who got `OSAL_OK` without a message.
- **`OSALQueueClients`**: posters and looping fetchers around one `OSALQueue`.
  Messages are numbered by their posts; `delivered` is the history of what the
  fetchers got.
- **`AsyncWorker`**: the async worker, its queue (an instance of `OSALQueue`
  with the worker task as only fetcher), the client natives and SNI. Variables
  keep the names of the C fields. Each action is one function, or the part of
  one between two points where the other task can see a difference:

  | action | code |
  |---|---|
  | `Initialize` | `MICROEJ_ASYNC_WORKER_initialize` and its failure |
  | `AllocateJob`, `AllocateJobWait`, `AllocateJobFull` | the three outcomes of `allocate_job`, at the start of a native or of its retry |
  | `Setup`, `SetupFailed` | the native sets the parameters, or fails and frees the job |
  | `AsyncExec`, `Suspend` | `async_exec` up to the post, and from the post to the suspension |
  | `AsyncExecFailed` | the post fails, the native frees the job |
  | `FetchJob`, `RunAction`, `ResumeThread` | the three statements of the worker loop |
  | `RunGarbage` | the action call through a `job` never written |
  | `OnDone` | the on-done callback: read the result, free the job |
  | `FetchEnds` | the wait of the fetch ends without a post |

  `FreeJob` is `MICROEJ_ASYNC_WORKER_free_job`, part of every action that frees.
  The natives of `LLFS_impl.c` and `LLFS_File_impl.c` differ in parameters and
  results only, which `params` reduces to *whose arguments* and *computed or
  not*. A job is a member of `1 .. JobCount`. SNI is modelled by its contract: a
  resume of a thread that is about to suspend stays pending (`resumed`). That
  initialisation failed means that no native is called (`LLFS_IMPL_initialize`
  throws); a task that runs although `OSAL_task_create` failed is not modelled.
- **`AsyncCall`**: the abstract specification. Calls are bounded, wait first
  come first served, execute one at a time in the order accepted, each exactly
  once, and return after they executed. There are no jobs, no queue and no
  worker in it. It promises nothing after the first fetch that came back with
  `OSAL_OK` and no message.
- **`MCAsyncWorker`**: `AsyncWorker` for TLC, with a symmetry set and a constraint.
- **`AsyncWorkerProofs`**: theorems about the types, the jobs and the calls of `AsyncWorker`,
  and its refinement of `AsyncCall`.
- **`LLDisplay`**: `LLDISPLAY.c`. Each access to a semaphore or to the region is
  a step of its own, a row is copied in one step. The graphics engine is
  external: after a flush it synchronizes before it draws or flushes again.
- **`LLDisplayProofs`**: theorems about `LLDisplay`.
- **`AudioPlayer`**: `audio_player_LLAPI.cxx` and `audio_player_functions.cxx`. A
  native is a record in `vm`; `sni_ctx` is the variables `order_id`,
  `java_thread_id`, `result`, `args` (are its `args` and `size` those of a song),
  `audio_file_info`. The calling thread goes from `TakeOrder`, the switch on the
  order, through `TakeSong`, its assertion and the load of the song, `Open`, the
  first push (`Read`, `Offer`), `Clock`, `AppStart`, `Run`, the refill loop
  (`Refill`, `Again`) to the same `Pause` that a native runs, and `PlayEnd`. `Pause`
  is therefore a parameterised action: the two tasks may be inside it at once. Files
  and the FIFO are numbers of bytes (`unread`, `fifo`, `read_buf`). The subsystem
  may refuse any command, of a pause (`Pause_StopFails`) and of `error_leave_player`
  (`PowerOff`) too, and then stays as it is; it accepts a power-on only when it is
  off. A close of the file may fail and releases the descriptor all the same, as
  NuttX does (`Pause_CloseFails`); the FIFO is then not cleared, nor is it after a
  failed initial setting (`ClockFails`): the history variable `uncleared` says so
  until it is. A suspension takes effect when the native returns, as SNI has it.
  Java calls initialize and close in turn; that `pthread_create` may fail is left
  out. Playlists are compiled out and left out.
- **`AudioPlayerProofs`**: theorems about `AudioPlayer`.
- **`FileStreams`**: the natives of `LLFS_File_impl.c` with their callbacks,
  create and delete, their actions in `fs_helper_posix.c`, and
  `SNI_Array_helper.c`. `Native` is a native up to its post, `Open` ... `Available`
  are the actions in the worker, `OnDone` the callbacks. The module takes
  `AsyncCall` for granted instead of composing `AsyncWorker`: calls execute once,
  one at a time, in the order posted, as they do until an empty fetch returns
  `OSAL_OK` (an action and the resume after it are one
  step, and there is a job for each thread). `params` is the job's union;
  whatever an earlier call left in its buffer is `Junk`. Bytes are 0 and 1,
  `Narrow` and `Wide` the numbers of values of `int32_t` and `int64_t`: skip and
  available compute with the conversions of the code. `SizeOfFile` has every outcome of
  `FS_size_of_file`: its seek back may fail without being told, and leaves the stream
  at the end of the file. POSIX is external: open, create, delete, read, write and
  each seek may fail, a file may be full; a file that is
  open is not removed. Java uses a stream from one thread.
- **`MCFileStreams`**: `FileStreams` for TLC, with a symmetry set.
- **`FileStreamsProofs`**: theorems about `FileStreams`.
- **`Gnss`**: `gnss_functions.c` and `microej_list.c`. The list is its array of
  nodes, `next` the pointers, 0 is `NULL`. `microej_list_add` runs in the virtual
  machine task (`Add_*`), `microej_list_consume` and the `microej_list_delete` in
  it in the signalling thread (`Consume_*`, `Delete_*`, `Free_*`); a step is a
  load or a store that the other task can tell apart. A thread whose suspension
  timed out stays in the list, as in the code, until the next signal. The signalling
  thread may be missing after a successful initialisation, since the result of
  `pthread_create` is ignored. The history variable `raced` says that the two tasks
  were, once, where one's store undoes the other's (`Race`): at the head of the free
  list, or at a node that is unlinked under a walk.
- **`MCGnss`**: `Gnss` for TLC, up to the first race.
- **`GnssProofs`**: theorems about `Gnss`.
- **`LLMJvm`**: `LLMJVM_nuttx.c` and the platform and application time of
  `posix_time.c`. `LLMJVM_IMPL_wakeupVM` is three steps (`WakeupTest`, `WakeupReset`,
  `WakeupPost`) of whatever task calls it, native tasks and the virtual machine's
  own; the tick interrupt (`Tick`: the clock, `board_timerhook` and all it calls)
  is one. `LLMJVM_IMPL_scheduleRequest` compares in one step (`Request`) and
  stores in another (`Arm`, `Disarm`). A clock reading is the clock times
  `MSEC_PER_TICK`, a request the deadline times `TICK_PER_MSEC`, both cut to
  `Uint32` values. `LLMJVM_IMPL_shutdown` asserts on a variable it has not
  written: `Finalize` ends either way. External is the scheduler of the virtual
  machine: what `LLMJVM_schedule` notes (`pending`), when it idles (`Idle`), and that it
  asks for the earliest sleeping thread (`sleeper`) again before each idle, as
  every wake-up cancels the request.
- **`LLShieldedPlug`**: `LLSP_impl.c`. `Enter` and `Exit`, `ExitPost` are those of a read
  and of a write, which are the same; looking at a semaphore and posting to it
  are two steps. A `sem_wait` may be interrupted, for a block (second disjunct of
  `Enter`) and in `LLSP_IMPL_wait` (`WaitInterrupted`); any task may initialize at any
  time, in two steps, one per `sem_init`; any number of tasks wait, and the external
  Shielded Plug wakes up those that do. Two history variables: `intrusions` counts the
  interrupted waits for a block and the initializations that handed the semaphore out
  while a block was in use, and `unheard` says that no wait has ended with the semaphore
  since the last wake-up.
- **`CorePort`**: the composition of the two. A task is in one function of the
  port at a time (`Free`); Java code accesses blocks in the virtual machine's
  task, and does not wait there for a write. Every task uses the plug; `Resumers` are
  the native tasks that resume Java threads besides.
- **`MCCorePort`**: `CorePort` for TLC, with a view without `system_time_offset`, on
  which no other variable depends and which no property names.
- **`CorePortProofs`**: theorems about `CorePort`.
- **`LLCommUart`**: `LLCOMM_UART.c`, its natives and the task `UART2_RX`, of which
  each initialization starts one (`Initialize`; or none, as the result of
  `task_create` is ignored). `Poll` to `CallbackReturns` are a turn of that task's
  loop, `sendData` is a `write` and the flag behind it (`Write`, `AskForNotification`),
  by Java or by a callback. The four switches are the set `enabled`. Bytes are
  counted, not told apart. A file closed under a poll leaves the task in a
  "stray" wait that may end or not, since that is up to the driver. `fd` is 0 until a
  first successful open, and that is the console.
- **`LLCommUartProofs`**: theorems about `LLCommUart`.

Operators marked `Mutant:` are plausible mistakes in the code; they are used by
no specification and serve to show that each property can fail.

## Runs

| run | shows |
|---|---|
| `osal_queue` | `NoLostWakeup`: nobody sleeps while a message is not promised to a woken fetcher. `InOrderExactlyOnce`: delivered and waiting messages are the posted ones, in order. `EveryMessageDelivered`. |
| `worker` | `JobOwnership`, `CompletionOwed` (exactly one of queued, in the worker, resumed, for every awaited job), `ResultReady`, `NewJobToExecute`, `NoJobIdleWhileWaiting`, `NoStrayResume`, `RefusedOnlyWhenFull`, and `ImplementsAsyncCall`: the refinement of `AsyncCall`. |
| `worker_liveness` | `CallsComplete`: every posted call is called back. `WaitersResumed`: every thread in the waiting list is resumed. |
| `worker_stale` (violation) | `DoneMeansFinished` fails: after an empty fetch the worker executes its previous job again; when another thread has got that job, that thread's callback comes before its action. |
| `display` | `NoTearing`, `ShownWhenSynchronized`, `SynchronizeReturns`. |
| `audio` | `PlayingFromOpenFile`, `FileClosedAfterSong`, `ResidueBounded` and `NothingDropped` (a pause may leave an element behind, and yet no byte of a song is dropped, but in the first push of one that follows a song that failed and left its bytes), `PlayReturns` (a play is answered), `NativesReturn` (every native ends, unless the calling thread aborted). |
| `gnss` | `NodeOwnership` (every node free or waiting, once), `WaitersListed` (who sleeps with a node is in the list), `NativesReturn`; adding and consuming overlap in every way but a race. |
| `gnss_overlap` (violation) | `AddedIsListed` fails when they race: a thread is linked to a node that has left the list. |
| `gnss_restart` (violation) | `InitializesItsNodes` fails: the second initialisation starts at the head of the free list and writes past the array. |
| `file_streams` | `DescriptorsOwned` (none leaked, none in two hands, although numbers are reused), `WrittenAsGiven` and `OnlyReadBytes` (bytes between Java arrays and files, through reused buffers), `SkipWithinFile` and `AvailableIsRest` (for every argument, conversions included, and whichever seek fails). |
| `core` | `AsleepOnlyIfArmed`: no interleaving of interrupt, native tasks and request loses a wake-up or a request. `SleeperRuns`: a thread runs when its sleep is over. `ExclusiveAccess`: one task more in a block for each interrupted wait and each initialization of a block in use, and none for anything else. `WakeupHeard`: the last wake-up for a write is in its semaphore or on its way until a wait hears of it. |
| `uart` | `NotificationOwed` (no request for a transmit-ready notification is lost to the race for `shouldPollout`), `ByteAnnounced` (received bytes are announced, whatever is sent meanwhile), `ReadyAnnounced` (a sender is told of room, if one polling task does not already sleep without `POLLOUT`). |

The violation of the worker has its cause in the queue: `OSAL_queue_fetch` leaves `OSAL_OK` in `result` on its error branches, and the
worker trusts it. It takes an expired deadline, a spurious wake-up or a post
that found no memory. Everything else about the worker holds until then, and
therefore is stated under `Intact`; only `TypeOK` and `JobOwnership` hold
without it.

The properties of the audio player are stated under `Undisturbed`: there is one
`sni_ctx`, and a play or a close that comes before the previous play was
answered replaces its order, whose thread is then never resumed. `Undisturbed`
says that no thread waits but that of the order in `sni_ctx`. A thread whose order
was replaced waits for ever, so it speaks of the whole past: once an order was
replaced it never holds again (proved, `AloneNext`). Counting the waiting threads
is not enough: with three threads one may be stuck while a second one is answered,
and two songs may then have been under way at once. `PlayReturns`
and `NativesReturn` also exclude `OrderLost`: the calling thread initialises the
semaphore itself, so that an order posted before is lost. `NativesReturn` needs no
`Undisturbed`: a close that replaces an order ends too, but if it comes between the
calling thread's switch on `PLAY_FILE` and its assertion `sni_ctx.size == sizeof(...)`
(`audio_player_LLAPI.cxx:59`, `:68`): the close has set `args` to `NULL` and `size` to 0
(`:149-150`), the assertion fails, and nothing is claimed from there (`TakeSong`,
`"aborted"`).

A song whose initial setting or whose close failed leaves its bytes in the FIFO,
with the subsystem on if that refuses to power off. The first push of the next song
then finds no room, and the bytes it read are dropped: `NothingDropped` allows that and
nothing else, and its refills always fit.

A pause can also be lost: `audio_player_pause` answers success and stops nothing
between the start of the subsystem and the status `PLAYING`, which the calling
thread sets next. The song then goes on, and no property of `audio` says otherwise.

`ReadyAnnounced` excludes what the code does not do. A task that sleeps in
`poll` with `POLLIN` alone is not woken by the setting of `shouldPollout`, and the sender hears
of room to send only after the next byte has come in. Releasing a UART does not wake the
task either: after the next initialization two of them poll, and the properties
hold with two. `IsRXDataAvailable` discards the bytes it is about to count.

`SleeperRuns` holds although a request wraps: a wake-up that comes early finds
nothing to run and asks again.

`SkipWithinFile` and `AvailableIsRest` speak of positions within the file. When
another thread truncates the file under an open stream, `max_offset` wraps and
skip goes further out; available is then negative, and -1, one byte out, is
reported as an error. Both hold whichever seek fails: a stream left at the end of its
file by a failed seek back still answers what is right for that place. That it is not
where it was is the code's mistake: `fs_helper_posix.c:58` compares, `res == LLFS_NOK;`,
where it should assign, and `FS_size_of_file` answers `LLFS_OK`, so that available then
answers 0 and skip `LLFS_OK` with a count of 0. The two properties allow that outcome by name.

In `Gnss` the two tasks are in the list at the same time, without a lock, and most of
what they do there does no harm. `Race` names the two places where it does: both
store to the head of the free list what they loaded before the other's store, or the
signalling thread unlinks the node at which the walk of a fetch stands. The properties
of `gnss` hold until the first race (proved, for any number of nodes). The code has no
lock that prevents a race, and `gnss_overlap` shows what one costs: a thread is told that it
is in the list, and no signal will resume it. At the head of the free list a race can
also put a node that is in use back among the free ones; taken again, it is appended to
itself, and the walk of the next fetch goes round for ever.

`ExclusiveAccess` counts instead of excluding: with no interrupted wait and no
initialization of a block in use it says that one task at a time is in a block. That
the doubled semaphore does not grow further is not obvious, as each exit looks at the
value and posts in two steps, and several may be there at once. So the code does not
keep what it says of a block ("to avoid multiple write access", `LLSP_impl.c:36`) when a
signal interrupts a wait, or when the plug is initialized again while it is used, which
lines 21 to 23 allow.

A wake-up is not lost (`WakeupHeard`), but it is not for the task it was meant for:
`LLSP_IMPL_wakeup` ignores `taskID`. With two tasks waiting, two wake-ups that overlap
may become one post, which either task takes; the other one waits on until the next.

### Bounds

- `osal_queue`: three fetchers, four posts (`MaxPosts`). Three fetchers put one
  asleep, one signalled and one expired beside each other; four posts exceed the
  number of fetchers.
- `worker`: four threads, two jobs, one waiting slot. Two jobs are queued,
  executed and awaited at once while a third thread waits and a fourth is
  refused or barges in. Symmetry among threads is used for the safety
  properties and the refinement. `BeforeStaleJob` cuts the states after a stale
  job is picked up, where the properties claim nothing.
- `worker_liveness`: three threads, one job, two waiting slots, so that threads
  queue for a job and the ring wraps. No symmetry. The constraint cuts only
  behaviours in which the properties have become true (`~Intact`).
- `worker_stale`: two threads and one job are enough.
- `display`: three rows, every region. Two contents per row tell a row from its
  previous state.

- `audio`: two threads, one that plays while the other pauses, plays or closes. A FIFO
  of two elements of two bytes, of which the first push fills one, and files of five:
  they are longer than the FIFO, refilled, and end with a partial element. No symmetry,
  because of the liveness properties. `SemBound`: at most two posted orders.
- `file_streams`: two threads and descriptors, one file of at most two bytes, an
  array of three, a buffer of two: a write can be cut by the buffer or the disk.
  Reads and writes of one byte are the byte natives, of three the array natives.
  With `int32_t` of 8 values and `int64_t` of 32 the arguments of skip stand for
  2^32 + 1, 2^31 + 1, 2^31 - 1 and -1. Symmetry among threads.
- `gnss`: two threads, three nodes, so that entries of threads that timed out
  fill the list (`microej_list_add` fails) and a thread is in it twice.
  `MaxSessions` is one: a second one is what `gnss_restart` refutes. The constraint
  `NotRaced` ends a behaviour at its first race, from where its properties, all of
  which have that premise, claim nothing.
- `gnss_overlap`, `gnss_restart`: two nodes are enough.
- `core`: two native tasks and the virtual machine's use the plug, so that two are in a
  block while one waits, two wait while one wakes them up, or two wake-ups overlap. One
  of the native tasks resumes Java threads (`Resumers`): its wake-up, the late request of
  the virtual machine's own task and the interrupt overlap. One intrusion
  (`MaxIntrusions`): after it no wait for a block is interrupted and nobody initializes
  the plug, while an initialization that has begun goes on. `uint32_t` has 8 values and
  the clock stops at 1 (`MaxClock`) while ticks go on: of the deadlines 1 and 9 one comes,
  and the other wraps to tick 1. The theorems have no such bounds, but for liveness.
- `uart`: two initializations (`Pollers`), each of which may fail to open the
  port or to start its task; one byte fills each buffer of the driver.

Numbers of jobs, threads, slots, nodes, messages, rows, sizes and sessions are
the bounds; the counters with a cap are those of `MaxPosts`, `MaxSessions`,
`MaxClock`, `MaxIntrusions` and `SemBound`.

Deadlock is checked except for `AudioPlayer`, where every Java thread may wait
for an answer that was lost, and for `Gnss` and `LLCommUart`, where nothing is left to
do after the last session or initialization.

### Fairness

- A fetcher that is signalled or expired gets the mutex and loops
  (`WF` of `FetchStep` and `Loop`): it is a runnable task in the code's `while (1)`.
- A native runs to its end and the worker task is scheduled (`WF`).
- The virtual machine serves a thread whose callback is due even if other
  threads keep it busy (`SF` of `OnDone` and `Retry`, as it comes back to the
  idle state infinitely often): its scheduler is round-robin.
- The flush_display task and the caller of flush and synchronize run (`WF`).
- The calling thread, the signalling thread and the virtual machine task run
  (`WF`): they are tasks of a preemptive system, and a native that began ends.
- The audio subsystem decodes what is in its FIFO and the clock advances
  (`Decode`, `PlayTimeElapses`): without them no song ends. No pause is assumed to
  fail (`PauseFails`). A thread suspended
  by `gnss_fetch` has a timeout, which expires (`Timeout`).

- The virtual machine's task and the calls a task has begun run, and interrupts
  come (`WF`). The scheduler takes turns with Java code (`SF` of `VmStep`): a
  virtual machine shares its time out. Nothing is assumed of who enters a block, nor
  of signals that interrupt a wait.
- The polling tasks run (`WF` of `PollerStep`); a poll notes an event at the
  driver's interrupt, even if it is over when the task runs (`SF` of
  `PollReturns`); callbacks end (`SF` of `CallbackReturns`: they send at most what the
  connection's buffer holds), and bytes leave through the line.

Nothing is assumed of posters, of Java threads making calls, of the deadlines
of the queue, of spurious wake-ups, of files, of bytes received or of the GNSS driver.

## Proofs

Checked by TLAPS for every value of the constants that the named assumptions
admit: any number of threads, jobs, slots, fetchers, rows, descriptors and any
sizes. Every safety property of a passing run is a theorem, and so is the refinement;
the theorems about the list are stated for every interleaving up to a race.

- `OSALQueueClientsProofs!WakeupsKept`, `DeliveredInOrder`, `TypeCorrect`. `NoLostWakeup` is
  inductive beside `TypeOK`: a post signals a waiting fetcher if there is one, so
  that a message and a fetcher's promise to take it are added together, and a
  signalled fetcher that leaves takes a message with it. The proof counts the
  fetchers, which needs them to be finitely many (`IsFiniteSet(Fetchers)`).

- `AsyncWorkerProofs!TypeCorrect`: `TypeOK`. It is inductive as it stands: the
  lemmas say what the queue's operators, the ring's `NextSlot` and `FreeJob` do
  to types, and `NextType` has one step per action. It needs
  `AsyncWorkerAssumption` (`JobCount` and the list size are positive).
- `AsyncWorkerProofs!JobsOwned`: `JobOwnership`. Together with `TypeOK` and the
  fact that the thread in the virtual machine task is the one whose state is
  "native" (`ThreadsAgree`) it is inductive. `PushFree` and `PopFree` say what
  freeing and allocating do to the free list; the actions that touch no job are
  covered by `OwnershipSame`, those that give a job back by `NativeGivesBack`.
  The theorem does not assume `Intact`: even when the worker executes stale
  jobs, none is leaked or given out twice.
- `AsyncWorkerProofs!CompletionsOwed`, `ResultsReady`, `JobsAreNew`, `ResumesMeant`: one
  inductive invariant, under `Intact`. It adds to the properties whose
  parameters a job has at each place it can be in, that a job is queued
  once, and which thread a resume is for. `Intact` never comes back,
  so the invariant may be lost with it.
- `AsyncWorkerProofs!NoJobIdle` and `RefusalsJustified`: the ring holds exactly the
  threads that wait and were not resumed, each once; the second counts them with a
  bijection from the slots. Both need finitely many threads
  (`IsFiniteSet(Threads)`), which the virtual machine guarantees.
- `AsyncWorkerProofs!WorkerImplementsAsyncCall`: the refinement of `AsyncCall`. The
  mapping reads the abstract waiting list off the circular array, the accepted
  calls off the queue and the job the worker has fetched, and the call of each thread
  off its state and its job. The outcomes of an allocation map to `Start`,
  `Wait` and `Refuse`, a setup or post that fails to `Fail`, the post to `Accept`, the action
  to `Execute`, the resume to `Notify` and the callback to `Return`; every other step
  stutters, and the first empty fetch is the step after which nothing is
  promised. The step proof uses the invariants above.

- `LLDisplayProofs!NeverTears`, `FlushedIsShown`, `DisplayTypeCorrect`. The
  inductive invariant `IInv` says that the two semaphores and the two program
  counters are one token that goes round (`Token`) and which rows have been
  copied (`Copied`). Neither property is inductive alone: both need to know that
  a task that finds a semaphore at 0 is the only one that may post it.

- `FileStreamsProofs!DescriptorsKept`, `BytesWritten`, `BytesRead`, `SkipsInFile`,
  `AvailableTold`, `TypeCorrect`. The inductive invariant says what a call's
  request, its job's parameters and its answer agree on while it is asked, posted,
  executed and not yet called back (`RequestsFit`, `ParamsFit`, `AnswersFit`), that
  every posted call is in the queue once (`QueuedCalls`), and which descriptors
  the streams and the calls hold. The action properties follow from it step by
  step. `2 * FdCount < Narrow` is assumed: descriptor numbers, which the code keeps in an
  `int32_t`, are few. The conversions between `int32_t`, `int64_t` and `off_t` are
  proved about for every pair of widths. The seeks of `FS_size_of_file` may each fail
  (`SizesOfFile` says what is left of the position and the size then).

- `AudioPlayerProofs!SongKeptOpen`, `SongClosed`, `ResidueKeptSmall`, `SongsWhole`, `TypeCorrect`.
  Types, the push loop, the status and the natives (`Base`) hold always. While
  `Undisturbed` holds, so do three parts that need each other: there is one order at a
  time, posted or served, whose thread waits (`OrdersFit`); a pause in the virtual
  machine task therefore meets a song that plays or that ends, never one that
  opens, and the two tasks close it in the same order (`SongFits`); and hence at each
  step at most so many bytes are in the FIFO (`BytesFit`). The last has the arithmetic:
  the pushes left times the size of an element fit in the room there is, and
  a refill that a pause overtakes adds one element after the clearing at most. It is
  stated but for a FIFO that was left uncleared, with commands and closes that fail.

- `CorePortProofs!CoreAsleepOnlyIfArmed`, `PlugExclusiveAccess`, `CoreExclusiveAccess`,
  `PlugWakeupHeard`, `CoreWakeupHeard`, `CoreTypeCorrect`,
  for any native tasks, deadlines, word width and length of a tick. `Waking`
  strengthens the first: what has been requested stays armed until the idle,
  or a wake-up is on its way, or something is pending, and a late request has
  noted something (`vm = "late" => pending`). `TickArithmetic` says why a request is not
  later than its deadline: milliseconds per tick and ticks per millisecond
  are not both above 1. `ExclusiveAccess` is inductive with the types, for any tasks
  that call the plug as they please: an exit that posts found the value at 0 or hands
  on what an intrusion added. `WakeupHeard` is inductive, too: who finds the semaphore posted to
  may leave it at that, as only a wait that hears of it takes it. Both specifications of the
  plug, alone and in `CorePort`, have the two.
- `GnssProofs!NodesOwned`, `WaitersFound`, `TypeCorrect`, for any number of threads
  and of nodes, in the first session and until the first race, with an add and a consume in the
  list at once. The chains of the model follow `next` in a recursive function; the proofs
  describe a list as an injective sequence of nodes (`IsList`), say what cutting the first node,
  pushing one in front and appending one do to it, and show that the chain of a list is
  the set of its nodes (`ChainOfList`). That takes an induction over the steps of the
  chain, by way of the least number at which it fails (`LeastNumber`, `Induction`), since
  the library's rule of induction cannot be used. `IInv` adds where the two tasks are: a node is
  outside both chains while a task has taken it from one and not yet put it into the other (`Added`,
  `Deleted`), the walk of an add stays in the list (`AddFits`), and the node that is consumed is the
  first one from visit to unlinking, so that the search of `microej_list_delete` ends at once
  (`ConsumeFits`), although an add may append behind it meanwhile and a thread may be in the list twice.
  `WaitersFit` is `WaitersListed` for a thread about to sleep too, with a node other than the one being
  deleted.
- `LLCommUartProofs!NotificationsOwed` and `TypeCorrect`, for any number of
  polling tasks. The invariant is `TypeOK` and the property itself: the flag is
  cleared by nobody but a task that is then at its call.

Only model-checked: the liveness properties (TLAPS has no rule for fairness and
ENABLED here).

## Not modelled

- Directories, rename and the natives that only ask about a path
  (`LLFS_impl.c`, `fs_helper_posix.c`): their calls live and end like those of the streams
  (`AsyncWorker`), and their actions are single POSIX calls.
- OSAL semaphores, mutexes, sleep and the timed lock: nothing in the repository
  calls them. The deadline arithmetic of `OSAL_queue_fetch` is covered by
  letting a wait expire at any time.
- `configureDevice` of the UART, a table from Java's settings to those of
  termios; posix time in nanoseconds; LEDs, device identity, board support,
  start-up and memory layouts, which keep no state that interacts.
- Playlists of the audio player (compiled out), `microej_list_get`, `visit` and
  `cleanup` (no caller in the virtual machine's or the signalling task).

## Plan

To prove next: `ByteAnnounced` and `ReadyAnnounced` of the UART reduced to safety, that is, which
state each of them waits in, so that only fairness is left to TLC.
To model next: directories and rename, beside `FileStreams`.
