----------------------------- MODULE AsyncWorker -----------------------------
(***************************************************************************)
(* The asynchronous worker (microej_async_worker.c): Java threads call     *)
(* natives that run one at a time in the virtual machine task; a native    *)
(* that would block takes a job from a free list, posts it to the worker   *)
(* task through an OSAL queue and suspends its Java thread; the worker     *)
(* executes the job's action and resumes the thread, whose on-done         *)
(* callback reads the result and frees the job.  With no job free, the     *)
(* thread is suspended in a circular waiting list and tries again when it  *)
(* is resumed.                                                             *)
(*                                                                         *)
(* The client is the shape all natives of fs/src/LLFS_impl.c and           *)
(* fs/src/LLFS_File_impl.c share, which is the one microej_async_worker.h  *)
(* documents.  The SNI functions of the virtual machine are external.      *)
(*                                                                         *)
(* Actors: the virtual machine task (`vm`), the worker task (`worker`,     *)
(* and its place in OSAL_queue_fetch).  The steps of a native are those    *)
(* between which the worker can see a difference.                          *)
(***************************************************************************)
EXTENDS Naturals, Sequences, FiniteSets

CONSTANTS
    Threads,            \* Java threads
    JobCount,           \* job_count of the worker (FS_WORKER_JOB_COUNT)
    WaitingListSize,    \* _waiting_list_size (FS_WAITING_LIST_SIZE)
    Worker,             \* the worker task, the one fetcher of the queue
    NoThread,
    NoJob

Jobs == 1 .. JobCount

(* MICROEJ_ASYNC_WORKER_worker_declare: both sizes "Must be greater than    *)
(* 0"; the offsets into the waiting list are uint16_t.                      *)
ASSUME AsyncWorkerAssumption ==
    /\ IsFiniteSet(Threads)
    /\ JobCount \in Nat \ {0}
    /\ WaitingListSize \in 1 .. 2^16 - 1
    /\ NoThread \notin Threads
    /\ NoJob \notin Jobs

VARIABLES
    status,                     \* what LLFS_IMPL_initialize came to
    free_jobs,                  \* the free list, its head first
    waiting_threads,            \* the circular list of waiting threads
    waiting_thread_offset,      \* its first waiting thread
    free_waiting_thread_offset, \* its first free slot
    thread_id,                  \* _intern.thread_id of each job
    params,                     \* the parameter union of each job
    waiting_msg, fetch, msg, empty_returns,  \* the OSAL queue of jobs
    worker,                     \* where the worker task is outside the fetch
    vm,                         \* the native that runs in the VM task
    thread,                     \* what each Java thread does
    callback_job,               \* the argument of its on-done callback
    resumed                     \* SNI: a resume of the thread is pending

job_vars == <<free_jobs, thread_id, params>>
ring_vars == <<waiting_threads, waiting_thread_offset, free_waiting_thread_offset>>
queue_vars == <<waiting_msg, fetch, msg, empty_returns>>
sni_vars == <<thread, callback_job, resumed>>
vars == <<status, job_vars, ring_vars, queue_vars, worker, vm, sni_vars>>

Q == INSTANCE OSALQueue WITH Fetchers <- {Worker}, Msgs <- Jobs, NoMsg <- NoJob

-----------------------------------------------------------------------------
\* Java threads: "java" and "refused" run Java code, "refused" after an
\* exception "waiting list is full"; "native" is in the native of vm; "retry"
\* and "on_done" are suspended with that callback.
JavaStates == {"java", "refused"}
ThreadStates == JavaStates \union {"native", "retry", "on_done"}

Slots == 0 .. WaitingListSize

\* Mutant: the wrap-around comes one slot late.
NextSlotLate(o) == IF o + 1 > WaitingListSize + 1 THEN 0 ELSE o + 1

NextSlot(o) == IF o + 1 >= WaitingListSize + 1 THEN 0 ELSE o + 1

\* The content of a parameter union: the arguments that thread `of` has set,
\* or the result computed from them.
Params == [of : Threads \union {NoThread}, result : BOOLEAN]

Natives == [thread : Threads, pc : {"setup", "exec", "suspend"}, job : Jobs]

Idle == [thread |-> NoThread, pc |-> "idle", job |-> NoJob]

TypeOK ==
    /\ status \in {"declared", "ok", "failed"}
    /\ free_jobs \in Seq(Jobs)
    /\ waiting_threads \in [Slots -> Threads \union {NoThread}]
    /\ waiting_thread_offset \in Slots
    /\ free_waiting_thread_offset \in Slots
    /\ thread_id \in [Jobs -> Threads \union {NoThread}]
    /\ params \in [Jobs -> Params]
    /\ Q!TypeOK
    /\ worker \in {"loop", "resume", "crashed"}
    /\ vm \in Natives \union {Idle}
    /\ thread \in [Threads -> ThreadStates]
    /\ callback_job \in [Threads -> Jobs \union {NoJob}]
    /\ resumed \in [Threads -> BOOLEAN]

(* MICROEJ_ASYNC_WORKER_worker_declare. *)
Init ==
    /\ status = "declared"
    /\ free_jobs = <<1>>    \* next_free_job is 0 in the declared array
    /\ waiting_threads = [o \in Slots |-> NoThread]
    /\ waiting_thread_offset = 0
    /\ free_waiting_thread_offset = 0
    /\ thread_id = [j \in Jobs |-> NoThread]
    /\ params = [j \in Jobs |-> [of |-> NoThread, result |-> FALSE]]
    /\ Q!Init
    /\ worker = "loop"
    /\ vm = Idle
    /\ thread = [t \in Threads |-> "java"]
    /\ callback_job = [t \in Threads |-> NoJob]
    /\ resumed = [t \in Threads |-> FALSE]

(* MICROEJ_ASYNC_WORKER_initialize: links the jobs, then creates the queue  *)
(* and the task, which may fail.  After a failure LLFS_IMPL_initialize has  *)
(* thrown and no native is called.                                          *)
Initialize ==
    /\ status = "declared"
    /\ free_jobs' = [i \in 1 .. JobCount |-> i]
    /\ status' \in {"ok", "failed"}
    /\ UNCHANGED <<ring_vars, thread_id, params, queue_vars, worker, vm, sni_vars>>

-----------------------------------------------------------------------------
(* The waiting list.                                                        *)

RingEmpty == waiting_thread_offset = free_waiting_thread_offset

\* Mutant: the slot that tells a full list from an empty one is reserved twice.
RingFullEarly == NextSlot(NextSlot(free_waiting_thread_offset)) = waiting_thread_offset

RingFull == NextSlot(free_waiting_thread_offset) = waiting_thread_offset

\* Mutant: the freed job is announced to nobody.
FreeJobSilent(j, pending) ==
    /\ free_jobs' = <<j>> \o free_jobs
    /\ resumed' = pending
    /\ UNCHANGED ring_vars

\* Mutant: the thread is resumed and stays in the waiting list.
FreeJobKeepsWaiter(j, pending) ==
    /\ free_jobs' = <<j>> \o free_jobs
    /\ resumed' = IF RingEmpty THEN pending
                  ELSE [pending EXCEPT ![waiting_threads[waiting_thread_offset]] = TRUE]
    /\ UNCHANGED ring_vars

(* MICROEJ_ASYNC_WORKER_free_job, in the virtual machine task: pushes the   *)
(* job on the free list and resumes the first waiting thread.  `pending` is *)
(* what the caller has made of the pending resumes before.                  *)
FreeJob(j, pending) ==
    /\ free_jobs' = <<j>> \o free_jobs
    /\ \/ /\ RingEmpty
          /\ resumed' = pending
          /\ UNCHANGED ring_vars
       \/ /\ ~RingEmpty
          /\ resumed' = [pending EXCEPT ![waiting_threads[waiting_thread_offset]] = TRUE]
          /\ waiting_thread_offset' = NextSlot(waiting_thread_offset)
          /\ UNCHANGED <<waiting_threads, free_waiting_thread_offset>>

-----------------------------------------------------------------------------
(* The virtual machine task.                                                *)

(* A native begins in thread t: called from Java code, or as the retry      *)
(* callback of a thread that has been resumed (SNI).                        *)
EnterNative(t) ==
    /\ status = "ok"
    /\ vm = Idle
    /\ \/ /\ thread[t] \in JavaStates
          /\ UNCHANGED resumed
       \/ /\ thread[t] = "retry"
          /\ resumed[t]
          /\ resumed' = [resumed EXCEPT ![t] = FALSE]

\* Mutant: the job stays at the head of the free list.
AllocateJobShared(t) ==
    /\ EnterNative(t)
    /\ free_jobs # <<>>
    /\ vm' = [thread |-> t, pc |-> "setup", job |-> Head(free_jobs)]
    /\ thread' = [thread EXCEPT ![t] = "native"]
    /\ UNCHANGED <<status, job_vars, ring_vars, queue_vars, worker, callback_job>>

(* MICROEJ_ASYNC_WORKER_allocate_job finds a job. *)
AllocateJob(t) ==
    /\ EnterNative(t)
    /\ free_jobs # <<>>
    /\ vm' = [thread |-> t, pc |-> "setup", job |-> Head(free_jobs)]
    /\ free_jobs' = Tail(free_jobs)
    /\ thread' = [thread EXCEPT ![t] = "native"]
    /\ UNCHANGED <<status, thread_id, params, ring_vars, queue_vars, worker, callback_job>>

(* No free job: the thread is put in the waiting list and suspended.  The   *)
(* suspension takes effect when the native returns, in the same step since  *)
(* only natives resume waiting threads.                                     *)
AllocateJobWait(t) ==
    /\ EnterNative(t)
    /\ free_jobs = <<>>
    /\ ~RingFull
    /\ waiting_threads' = [waiting_threads EXCEPT ![free_waiting_thread_offset] = t]
    /\ free_waiting_thread_offset' = NextSlot(free_waiting_thread_offset)
    /\ thread' = [thread EXCEPT ![t] = "retry"]
    /\ UNCHANGED <<status, job_vars, waiting_thread_offset, queue_vars, worker, vm,
                   callback_job>>

(* No free job and no free slot: SNI_throwNativeIOException. *)
AllocateJobFull(t) ==
    /\ EnterNative(t)
    /\ free_jobs = <<>>
    /\ RingFull
    /\ thread' = [thread EXCEPT ![t] = "refused"]
    /\ UNCHANGED <<status, job_vars, ring_vars, queue_vars, worker, vm, callback_job>>

(* The native writes its arguments into the parameters of the job. *)
Setup ==
    /\ vm.pc = "setup"
    /\ params' = [params EXCEPT ![vm.job] = [of |-> vm.thread, result |-> FALSE]]
    /\ vm' = [vm EXCEPT !.pc = "exec"]
    /\ UNCHANGED <<status, free_jobs, thread_id, ring_vars, queue_vars, worker, sni_vars>>

\* Mutant: the early return forgets the job.
SetupFailedLeak ==
    /\ vm.pc = "setup"
    /\ vm' = Idle
    /\ thread' = [thread EXCEPT ![vm.thread] = "java"]
    /\ UNCHANGED <<status, job_vars, ring_vars, queue_vars, worker, callback_job, resumed>>

(* It cannot (path too long, array not available): the job is freed and the *)
(* native returns, with or without an exception.                            *)
SetupFailed ==
    /\ vm.pc = "setup"
    /\ FreeJob(vm.job, resumed)
    /\ vm' = Idle
    /\ thread' = [thread EXCEPT ![vm.thread] = "java"]
    /\ UNCHANGED <<status, thread_id, params, queue_vars, worker, callback_job>>

\* Mutant: the job keeps the thread of its last call.
AsyncExecKeepsThread ==
    /\ vm.pc = "exec"
    /\ Q!Post(vm.job)
    /\ vm' = [vm EXCEPT !.pc = "suspend"]
    /\ UNCHANGED <<status, job_vars, ring_vars, worker, sni_vars>>

(* MICROEJ_ASYNC_WORKER_async_exec up to the post.  From here on the worker *)
(* can execute the job, before the thread is suspended.                     *)
AsyncExec ==
    /\ vm.pc = "exec"
    /\ thread_id' = [thread_id EXCEPT ![vm.job] = vm.thread]
    /\ Q!Post(vm.job)
    /\ vm' = [vm EXCEPT !.pc = "suspend"]
    /\ UNCHANGED <<status, free_jobs, params, ring_vars, worker, sni_vars>>

(* The post fails: an exception is thrown and the native frees the job. *)
AsyncExecFailed ==
    /\ vm.pc = "exec"
    /\ thread_id' = [thread_id EXCEPT ![vm.job] = vm.thread]
    /\ Q!PostNoMem
    /\ FreeJob(vm.job, resumed)
    /\ vm' = Idle
    /\ thread' = [thread EXCEPT ![vm.thread] = "java"]
    /\ UNCHANGED <<status, params, worker, callback_job>>

(* SNI_suspendCurrentJavaThreadWithCallback with the on-done callback, then *)
(* the return of the native.  A resume that came first stays pending.       *)
Suspend ==
    /\ vm.pc = "suspend"
    /\ thread' = [thread EXCEPT ![vm.thread] = "on_done"]
    /\ callback_job' = [callback_job EXCEPT ![vm.thread] = vm.job]
    /\ vm' = Idle
    /\ UNCHANGED <<status, job_vars, ring_vars, queue_vars, worker, resumed>>

(* The on-done callback: MICROEJ_ASYNC_WORKER_get_job_done gives back the   *)
(* job, its result is read and it is freed.                                 *)
OnDone(t) ==
    /\ vm = Idle
    /\ thread[t] = "on_done"
    /\ resumed[t]
    /\ FreeJob(callback_job[t], [resumed EXCEPT ![t] = FALSE])
    /\ thread' = [thread EXCEPT ![t] = "java"]
    /\ callback_job' = [callback_job EXCEPT ![t] = NoJob]
    /\ UNCHANGED <<status, thread_id, params, queue_vars, worker, vm>>

-----------------------------------------------------------------------------
(* The worker task, MICROEJ_ASYNC_WORKER_loop.                              *)

worker_unchanged == <<status, job_vars, ring_vars, vm, sni_vars>>

(* OSAL_queue_fetch on the jobs queue. *)
FetchJob ==
    /\ status = "ok"
    /\ worker = "loop"
    /\ Q!FetchStep(Worker)
    /\ UNCHANGED <<worker, worker_unchanged>>

(* The wait in OSAL_queue_fetch ends although nobody posted. *)
FetchEnds ==
    /\ Q!WaitEnds(Worker)
    /\ UNCHANGED <<worker, worker_unchanged>>

(* OSAL_OK: job->_intern.action(job), on whatever `job` points to. *)
RunAction ==
    /\ worker = "loop"
    /\ fetch[Worker] = "returned"
    /\ msg[Worker] # NoJob
    /\ params' = [params EXCEPT ![msg[Worker]].result = TRUE]
    /\ worker' = "resume"
    /\ UNCHANGED <<status, free_jobs, thread_id, ring_vars, queue_vars, vm, sni_vars>>

(* OSAL_OK from the very first fetches without any message: `job` has never *)
(* been written and the call goes through an undefined pointer.             *)
RunGarbage ==
    /\ worker = "loop"
    /\ fetch[Worker] = "returned"
    /\ msg[Worker] = NoJob
    /\ worker' = "crashed"
    /\ UNCHANGED <<queue_vars, worker_unchanged>>

(* SNI_resumeJavaThread(job->_intern.thread_id), and the loop. *)
ResumeThread ==
    /\ worker = "resume"
    /\ resumed' = [resumed EXCEPT ![thread_id[msg[Worker]]] = TRUE]
    /\ Q!Loop(Worker)
    /\ worker' = "loop"
    /\ UNCHANGED <<status, job_vars, ring_vars, vm, thread, callback_job>>

-----------------------------------------------------------------------------
(* The end of the modelled system: initialisation failed, or the worker     *)
(* crashed.                                                                 *)
Halted ==
    /\ status = "failed" \/ worker = "crashed"
    /\ UNCHANGED vars

Enter(t) == AllocateJob(t) \/ AllocateJobWait(t) \/ AllocateJobFull(t)

NativeStep == Setup \/ SetupFailed \/ AsyncExec \/ AsyncExecFailed \/ Suspend

WorkerStep == FetchJob \/ RunAction \/ ResumeThread

Next ==
    \/ Initialize
    \/ \E t \in Threads : Enter(t) \/ OnDone(t)
    \/ NativeStep
    \/ WorkerStep
    \/ RunGarbage
    \/ FetchEnds
    \/ Halted

Spec == Init /\ [][Next]_vars

(* A native runs to its end, the worker task is scheduled, and the virtual  *)
(* machine comes to every thread whose callback is due, however often other *)
(* threads keep it busy in between.  No thread has to call a native.        *)
Retry(t) == thread[t] = "retry" /\ Enter(t)

Fairness ==
    /\ WF_vars(NativeStep)
    /\ WF_vars(WorkerStep)
    /\ \A t \in Threads : SF_vars(OnDone(t)) /\ SF_vars(Retry(t))

FairSpec == Spec /\ Fairness
-----------------------------------------------------------------------------
(* Properties.                                                              *)

(* So far every OSAL_OK of the worker's fetch came with a job.  From the    *)
(* first one that did not, the worker executes jobs nobody has posted.      *)
Intact == empty_returns = {}

Free(j) == \E i \in 1 .. Len(free_jobs) : free_jobs[i] = j
HeldByNative(j) == vm.pc # "idle" /\ vm.job = j
HeldByThread(j) == \E t \in Threads : thread[t] = "on_done" /\ callback_job[t] = j

(* Jobs are neither leaked nor shared, whichever way natives end: once the  *)
(* worker is initialised, each job is in exactly one place, once: the free  *)
(* list, the native that runs, or a thread that will be called back.        *)
JobOwnership ==
    status = "ok" =>
        /\ \A j \in Jobs : Free(j) \/ HeldByNative(j) \/ HeldByThread(j)
        /\ \A j \in Jobs : ~(Free(j) /\ HeldByNative(j))
        /\ \A j \in Jobs : ~(Free(j) /\ HeldByThread(j))
        /\ \A j \in Jobs : ~(HeldByNative(j) /\ HeldByThread(j))
        /\ \A i, k \in 1 .. Len(free_jobs) : free_jobs[i] = free_jobs[k] => i = k
        /\ \A s, t \in Threads :
              (/\ thread[s] = "on_done"
               /\ thread[t] = "on_done"
               /\ callback_job[s] = callback_job[t]) => s = t

\* Thread t waits, or is about to wait, for the execution of job j.
Awaits(t, j) ==
    \/ thread[t] = "on_done" /\ callback_job[t] = j
    \/ vm.pc = "suspend" /\ vm.thread = t /\ vm.job = j

Queued(j) == \E i \in 1 .. Len(waiting_msg) : waiting_msg[i] = j
InWorker(j) == fetch[Worker] = "returned" /\ msg[Worker] = j

(* No completion is lost or signalled twice, even when the worker finishes  *)
(* before the thread is suspended: an awaited job is queued once, or in the *)
(* worker's hands, or its thread has a resume pending, and never two of     *)
(* these; a job in the queue or with the worker is awaited by the thread    *)
(* that will be resumed for it.                                             *)
CompletionOwed ==
    Intact =>
        /\ \A t \in Threads, j \in Jobs : Awaits(t, j) =>
              /\ thread_id[j] = t
              /\ Queued(j) \/ InWorker(j) \/ resumed[t]
              /\ ~(Queued(j) /\ InWorker(j))
              /\ ~(resumed[t] /\ (Queued(j) \/ InWorker(j)))
        /\ \A j \in Jobs : Queued(j) \/ InWorker(j) => Awaits(thread_id[j], j)
        /\ \A i, k \in 1 .. Len(waiting_msg) : waiting_msg[i] = waiting_msg[k] => i = k

(* What the on-done callback of t reads is the result of the call t made.   *)
ResultOf(t) == params[callback_job[t]] = [of |-> t, result |-> TRUE]

(* The result an on-done callback reads has been computed, from the         *)
(* arguments of its own thread, when the callback is due, and the job that  *)
(* holds it has not been given to another native in between.                *)
ResultReady ==
    Intact => \A t \in Threads : thread[t] = "on_done" /\ resumed[t] => ResultOf(t)

(* The worker never executes a job twice for one post ("New job to          *)
(* execute" in MICROEJ_ASYNC_WORKER_loop).                                  *)
NewJobToExecute ==
    Intact /\ worker = "loop" /\ fetch[Worker] = "returned" =>
        params[msg[Worker]] = [of |-> thread_id[msg[Worker]], result |-> FALSE]

(* Threads suspended for a job, that nobody has resumed. *)
Waiters == {t \in Threads : thread[t] = "retry" /\ ~resumed[t]}

(* A thread sleeps in the waiting list only while every free job has been   *)
(* announced to a resumed thread that has yet to try again: barging natives *)
(* and failing ones lose no wake-up.                                        *)
NoJobIdleWhileWaiting ==
    Intact /\ ~RingEmpty =>
        Len(free_jobs) <= Cardinality({t \in Threads : thread[t] = "retry" /\ resumed[t]})

(* A resume is only ever pending for a thread that is suspended or about to *)
(* be: no later suspension is cut short by a resume meant for an older one. *)
NoStrayResume ==
    Intact => \A t \in Threads :
        resumed[t] =>
            \/ thread[t] \in {"retry", "on_done"}
            \/ vm.pc = "suspend" /\ vm.thread = t

(* "If the waiting list is full, an SNI exception is thrown": a native is   *)
(* refused only when WaitingListSize threads are suspended for a job.       *)
RefusedOnlyWhenFull ==
    [][\A t \in Threads : Intact /\ thread[t] # "refused" /\ thread'[t] = "refused" =>
          Cardinality(Waiters) = WaitingListSize]_vars

(* A thread whose job was posted is called back. *)
CallsComplete ==
    \A t \in Threads : thread[t] = "on_done" ~> thread[t] = "java" \/ ~Intact

(* A thread in the waiting list is resumed (to try again, not necessarily   *)
(* to get a job: a native called in between may take it).                   *)
WaitersResumed ==
    \A t \in Threads : t \in Waiters ~> t \notin Waiters \/ ~Intact

(* microej_async_worker.h: "When the job is finished, the SNI callback      *)
(* on_done_callback is called before going back to Java."  Unlike           *)
(* ResultReady this says so without exception.                              *)
DoneMeansFinished ==
    \A t \in Threads : vm = Idle /\ thread[t] = "on_done" /\ resumed[t] => ResultOf(t)

-----------------------------------------------------------------------------
(* The refinement of AsyncCall.                                             *)

Progress(t, j) ==
    CASE resumed[t] -> "notified"
      [] ~resumed[t] /\ params[j].result -> "executed"
      [] OTHER -> "accepted"

CallOf(t) ==
    CASE thread[t] \in JavaStates -> "none"
      [] thread[t] = "retry" -> IF resumed[t] THEN "woken" ELSE "waiting"
      [] thread[t] = "on_done" -> Progress(t, callback_job[t])
      [] thread[t] = "native" ->
            IF vm.pc = "suspend" THEN Progress(t, vm.job) ELSE "started"

call == [t \in Threads |-> CallOf(t)]

\* The number of slots from `first` to before `last`, and the i-th of them.
RingLengthOf(first, last) ==
    IF first <= last THEN last - first ELSE last + WaitingListSize + 1 - first

SlotAt(first, i) ==
    IF first + i - 1 <= WaitingListSize
      THEN first + i - 1
      ELSE first + i - 1 - (WaitingListSize + 1)

RingLength == RingLengthOf(waiting_thread_offset, free_waiting_thread_offset)

waiting ==
    [i \in 1 .. RingLength |-> waiting_threads[SlotAt(waiting_thread_offset, i)]]

accepted ==
    (IF fetch[Worker] = "returned" THEN <<thread_id[msg[Worker]]>> ELSE <<>>)
        \o [i \in 1 .. Len(waiting_msg) |-> thread_id[waiting_msg[i]]]

Abstract == INSTANCE AsyncCall WITH broken <- ~Intact

(* Until the first empty fetch, the worker does what AsyncCall promises:    *)
(* bounded, first come first served, one at a time and exactly once.        *)
ImplementsAsyncCall == Abstract!Spec
=============================================================================
