--------------------------- MODULE AsyncWorkerProofs ---------------------------
(***************************************************************************)
(* Theorems about AsyncWorker, for every set of threads, every number of   *)
(* jobs and every size of the waiting list, with failing initialisations,  *)
(* failing posts and empty fetches allowed throughout: its types, who      *)
(* holds which job and, until the first fetch that comes without a job     *)
(* (Intact), what becomes of a call and of a thread that waits for a job.  *)
(***************************************************************************)
EXTENDS AsyncWorker, FiniteSetTheorems, SequenceTheorems, TLAPS

-----------------------------------------------------------------------------
(* What Java threads, the native that runs and the worker's start have to   *)
(* agree on for the callbacks to hold jobs.                                 *)
ThreadsAgree ==
    /\ \A t \in Threads : thread[t] = "native" <=> vm.pc # "idle" /\ vm.thread = t
    /\ \A t \in Threads : thread[t] = "on_done" => callback_job[t] \in Jobs
    /\ status # "ok" => vm.pc = "idle" /\ \A t \in Threads : thread[t] = "java"

(* The conjuncts of JobOwnership, once the worker is initialised. *)
NoJobLost == \A j \in Jobs : Free(j) \/ HeldByNative(j) \/ HeldByThread(j)

FreeOnce == \A i, k \in 1 .. Len(free_jobs) : free_jobs[i] = free_jobs[k] => i = k

OneHolder ==
    /\ \A j \in Jobs : ~(Free(j) /\ HeldByNative(j))
    /\ \A j \in Jobs : ~(Free(j) /\ HeldByThread(j))
    /\ \A j \in Jobs : ~(HeldByNative(j) /\ HeldByThread(j))

OneCallback ==
    \A s, t \in Threads :
        thread[s] = "on_done" /\ thread[t] = "on_done" /\ callback_job[s] = callback_job[t]
            => s = t

-----------------------------------------------------------------------------
(* Lemmas on the operators of the model.                                    *)

(* The next slot of the circular waiting list is a slot. *)
LEMMA NextSlotType ==
    ASSUME NEW o \in Slots
    PROVE  NextSlot(o) \in Slots
BY AsyncWorkerAssumption DEF NextSlot, Slots

(* What the virtual machine task does to the worker's queue, and what the   *)
(* worker does, keep the queue well typed.                                  *)
LEMMA QueuePostType ==
    ASSUME Q!TypeOK, NEW j \in Jobs, Q!Post(j)
    PROVE  Q!TypeOK'
BY DEF Q!TypeOK, Q!Post, Q!Add, Q!Signal, Q!At, Q!FetchStates

LEMMA QueueNoMemType ==
    ASSUME Q!TypeOK, Q!PostNoMem
    PROVE  Q!TypeOK'
BY DEF Q!TypeOK, Q!PostNoMem, Q!Signal, Q!At, Q!FetchStates

LEMMA QueueFetchType ==
    ASSUME Q!TypeOK, Q!FetchStep(Worker)
    PROVE  Q!TypeOK'
<1>1. CASE Q!Take(Worker)
  BY <1>1 DEF Q!TypeOK, Q!Take, Q!FetchStates
<1>2. CASE Q!ReturnEmpty(Worker)
  BY <1>2 DEF Q!TypeOK, Q!ReturnEmpty, Q!FetchStates
<1>3. CASE UNCHANGED <<waiting_msg, msg, empty_returns>>
           /\ fetch' = [fetch EXCEPT ![Worker] = "waiting"]
  BY <1>3 DEF Q!TypeOK, Q!FetchStates
<1>4. QED
  BY <1>1, <1>2, <1>3 DEF Q!FetchStep, Q!Fetch, Q!Wake, Q!WakeExpired

LEMMA QueueEndsType ==
    ASSUME Q!TypeOK, Q!WaitEnds(Worker) \/ Q!Loop(Worker)
    PROVE  Q!TypeOK'
BY DEF Q!TypeOK, Q!WaitEnds, Q!Expire, Q!Spurious, Q!Loop, Q!FetchStates

LEMMA QueueSameType ==
    ASSUME Q!TypeOK, UNCHANGED queue_vars
    PROVE  Q!TypeOK'
BY DEF Q!TypeOK, queue_vars

(* The content of the running native has the types of a native. *)
LEMMA NativeType ==
    ASSUME TypeOK, vm.pc # "idle"
    PROVE  /\ vm.thread \in Threads
           /\ vm.job \in Jobs
           /\ vm.pc \in {"setup", "exec", "suspend"}
           /\ vm \in Natives
BY DEF TypeOK, Natives, Idle

(* Freeing a job keeps the free list, the waiting list and the pending      *)
(* resumes well typed.                                                      *)
LEMMA FreeJobType ==
    ASSUME TypeOK, NEW j \in Jobs, NEW pending \in [Threads -> BOOLEAN],
           FreeJob(j, pending)
    PROVE  /\ free_jobs' \in Seq(Jobs)
           /\ waiting_threads' \in [Slots -> Threads \union {NoThread}]
           /\ waiting_thread_offset' \in Slots
           /\ free_waiting_thread_offset' \in Slots
           /\ resumed' \in [Threads -> BOOLEAN]
<1>1. free_jobs' \in Seq(Jobs)
  BY DEF TypeOK, FreeJob
<1>2. QED
  BY <1>1, NextSlotType DEF TypeOK, FreeJob, ring_vars

-----------------------------------------------------------------------------
(* Typing.                                                                  *)

LEMMA InitType == Init => TypeOK
BY AsyncWorkerAssumption
   DEF Init, TypeOK, Q!Init, Q!TypeOK, Q!FetchStates, Slots, Idle, Params, Jobs,
       ThreadStates, JavaStates

LEMMA NextType == TypeOK /\ ThreadsAgree /\ [Next]_vars => TypeOK'
<1> SUFFICES ASSUME TypeOK, ThreadsAgree, [Next]_vars
             PROVE  TypeOK'
  OBVIOUS
<1>q. Q!TypeOK
  BY DEF TypeOK
<1>1. CASE Initialize
  <2>1. [i \in 1 .. JobCount |-> i] \in Seq(Jobs)
    BY AsyncWorkerAssumption DEF Jobs
  <2>2. Q!TypeOK'
    BY <1>1, <1>q, QueueSameType DEF Initialize
  <2>3. QED
    BY <1>1, <2>1, <2>2 DEF TypeOK, Initialize, ring_vars, sni_vars
<1>2. ASSUME NEW t \in Threads, AllocateJob(t)
      PROVE  TypeOK'
  <2>1. Head(free_jobs) \in Jobs /\ Tail(free_jobs) \in Seq(Jobs)
    BY <1>2 DEF AllocateJob, TypeOK
  <2>2. vm' \in Natives
    BY <1>2, <2>1 DEF AllocateJob, Natives
  <2>3. Q!TypeOK'
    BY <1>2, <1>q, QueueSameType DEF AllocateJob
  <2>4. thread' \in [Threads -> ThreadStates]
    BY <1>2 DEF AllocateJob, TypeOK, ThreadStates
  <2>5. resumed' \in [Threads -> BOOLEAN]
    BY <1>2 DEF AllocateJob, EnterNative, TypeOK
  <2>6. QED
    BY <1>2, <2>1, <2>2, <2>3, <2>4, <2>5 DEF AllocateJob, TypeOK, ring_vars
<1>3. ASSUME NEW t \in Threads, AllocateJobWait(t)
      PROVE  TypeOK'
  <2>1. Q!TypeOK'
    BY <1>3, <1>q, QueueSameType DEF AllocateJobWait
  <2>2. thread' \in [Threads -> ThreadStates]
    BY <1>3 DEF AllocateJobWait, TypeOK, ThreadStates
  <2>3. resumed' \in [Threads -> BOOLEAN]
    BY <1>3 DEF AllocateJobWait, EnterNative, TypeOK
  <2>4. free_waiting_thread_offset' \in Slots
    BY <1>3, NextSlotType DEF AllocateJobWait, TypeOK
  <2>5. QED
    BY <1>3, <2>1, <2>2, <2>3, <2>4 DEF AllocateJobWait, TypeOK, job_vars
<1>4. ASSUME NEW t \in Threads, AllocateJobFull(t)
      PROVE  TypeOK'
  <2>1. Q!TypeOK'
    BY <1>4, <1>q, QueueSameType DEF AllocateJobFull
  <2>2. thread' \in [Threads -> ThreadStates]
    BY <1>4 DEF AllocateJobFull, TypeOK, ThreadStates, JavaStates
  <2>3. resumed' \in [Threads -> BOOLEAN]
    BY <1>4 DEF AllocateJobFull, EnterNative, TypeOK
  <2>4. QED
    BY <1>4, <2>1, <2>2, <2>3 DEF AllocateJobFull, TypeOK, job_vars, ring_vars
<1>5. ASSUME NEW t \in Threads, OnDone(t)
      PROVE  TypeOK'
  <2>1. callback_job[t] \in Jobs
    BY <1>5 DEF OnDone, ThreadsAgree
  <2>2. [resumed EXCEPT ![t] = FALSE] \in [Threads -> BOOLEAN]
    BY DEF TypeOK
  <2>3. FreeJob(callback_job[t], [resumed EXCEPT ![t] = FALSE])
    BY <1>5 DEF OnDone
  <2>4. Q!TypeOK'
    BY <1>5, <1>q, QueueSameType DEF OnDone
  <2>5. thread' \in [Threads -> ThreadStates]
    BY <1>5 DEF OnDone, TypeOK, ThreadStates, JavaStates
  <2>6. QED
    BY <1>5, <2>1, <2>2, <2>3, <2>4, <2>5, FreeJobType DEF OnDone, TypeOK
<1>6. CASE Setup
  <2>1. vm \in Natives /\ vm' = [vm EXCEPT !.pc = "exec"]
    BY <1>6, NativeType DEF Setup
  <2>2. vm' \in Natives
    BY <2>1 DEF Natives
  <2>3. params' \in [Jobs -> Params]
    BY <1>6, NativeType DEF Setup, TypeOK, Params
  <2>4. Q!TypeOK'
    BY <1>6, <1>q, QueueSameType DEF Setup
  <2>5. QED
    BY <1>6, <2>2, <2>3, <2>4 DEF Setup, TypeOK, ring_vars, sni_vars
<1>7. CASE SetupFailed
  <2>1. vm.job \in Jobs
    BY <1>7, NativeType DEF SetupFailed
  <2>2. resumed \in [Threads -> BOOLEAN]
    BY DEF TypeOK
  <2>3. FreeJob(vm.job, resumed)
    BY <1>7 DEF SetupFailed
  <2>4. Q!TypeOK'
    BY <1>7, <1>q, QueueSameType DEF SetupFailed
  <2>5. thread' \in [Threads -> ThreadStates]
    BY <1>7 DEF SetupFailed, TypeOK, ThreadStates, JavaStates
  <2>6. QED
    BY <1>7, <2>1, <2>2, <2>3, <2>4, <2>5, FreeJobType DEF SetupFailed, TypeOK
<1>8. CASE AsyncExec
  <2>1. vm \in Natives /\ vm.job \in Jobs /\ vm.thread \in Threads
    BY <1>8, NativeType DEF AsyncExec
  <2>2. vm' \in Natives
    BY <1>8, <2>1 DEF AsyncExec, Natives
  <2>3. Q!TypeOK'
    BY <1>8, <1>q, <2>1, QueuePostType DEF AsyncExec
  <2>4. QED
    BY <1>8, <2>1, <2>2, <2>3 DEF AsyncExec, TypeOK, ring_vars, sni_vars
<1>9. CASE AsyncExecFailed
  <2>1. vm.job \in Jobs /\ vm.thread \in Threads
    BY <1>9, NativeType DEF AsyncExecFailed
  <2>2. resumed \in [Threads -> BOOLEAN]
    BY DEF TypeOK
  <2>3. FreeJob(vm.job, resumed)
    BY <1>9 DEF AsyncExecFailed
  <2>4. Q!TypeOK'
    BY <1>9, <1>q, QueueNoMemType DEF AsyncExecFailed
  <2>5. thread' \in [Threads -> ThreadStates]
    BY <1>9 DEF AsyncExecFailed, TypeOK, ThreadStates, JavaStates
  <2>6. QED
    BY <1>9, <2>1, <2>2, <2>3, <2>4, <2>5, FreeJobType DEF AsyncExecFailed, TypeOK
<1>10. CASE Suspend
  <2>1. vm.job \in Jobs
    BY <1>10, NativeType DEF Suspend
  <2>2. Q!TypeOK'
    BY <1>10, <1>q, QueueSameType DEF Suspend
  <2>3. thread' \in [Threads -> ThreadStates]
    BY <1>10 DEF Suspend, TypeOK, ThreadStates
  <2>4. QED
    BY <1>10, <2>1, <2>2, <2>3 DEF Suspend, TypeOK, job_vars, ring_vars
<1>11. CASE FetchJob
  <2>1. Q!TypeOK'
    BY <1>11, <1>q, QueueFetchType DEF FetchJob
  <2>2. QED
    BY <1>11, <2>1 DEF FetchJob, worker_unchanged, TypeOK, job_vars, ring_vars, sni_vars
<1>12. CASE FetchEnds
  <2>1. Q!TypeOK'
    BY <1>12, <1>q, QueueEndsType DEF FetchEnds
  <2>2. QED
    BY <1>12, <2>1 DEF FetchEnds, worker_unchanged, TypeOK, job_vars, ring_vars, sni_vars
<1>13. CASE RunAction
  <2>1. Q!TypeOK'
    BY <1>13, <1>q, QueueSameType DEF RunAction
  <2>2. params' \in [Jobs -> Params]
    BY <1>13 DEF RunAction, TypeOK, Params
  <2>3. QED
    BY <1>13, <2>1, <2>2 DEF RunAction, TypeOK, ring_vars, sni_vars
<1>14. CASE RunGarbage
  <2>1. Q!TypeOK'
    BY <1>14, <1>q, QueueSameType DEF RunGarbage
  <2>2. QED
    BY <1>14, <2>1 DEF RunGarbage, worker_unchanged, TypeOK, job_vars, ring_vars, sni_vars
<1>15. CASE ResumeThread
  <2>1. Q!TypeOK'
    BY <1>15, <1>q, QueueEndsType DEF ResumeThread
  <2>2. resumed' \in [Threads -> BOOLEAN]
    BY <1>15 DEF ResumeThread, TypeOK
  <2>3. QED
    BY <1>15, <2>1, <2>2 DEF ResumeThread, TypeOK, job_vars, ring_vars
<1>16. CASE UNCHANGED vars
  <2>1. Q!TypeOK'
    BY <1>16, <1>q, QueueSameType DEF vars
  <2>2. QED
    BY <1>16, <2>1 DEF TypeOK, vars, job_vars, ring_vars, queue_vars, sni_vars
<1>17. QED
  BY <1>1, <1>2, <1>3, <1>4, <1>5, <1>6, <1>7, <1>8, <1>9, <1>10, <1>11, <1>12, <1>13,
     <1>14, <1>15, <1>16
     DEF Next, Enter, NativeStep, WorkerStep, Halted

LEMMA NextThreadsAgree == TypeOK /\ ThreadsAgree /\ [Next]_vars => ThreadsAgree'
<1> SUFFICES ASSUME TypeOK, ThreadsAgree, [Next]_vars
             PROVE  ThreadsAgree'
  OBVIOUS
<1> USE DEF ThreadsAgree
<1>1. CASE Initialize
  BY <1>1 DEF Initialize, sni_vars
<1>2. ASSUME NEW t \in Threads, AllocateJob(t)
      PROVE  ThreadsAgree'
  BY <1>2 DEF AllocateJob, EnterNative, TypeOK, Idle
<1>3. ASSUME NEW t \in Threads, AllocateJobWait(t)
      PROVE  ThreadsAgree'
  BY <1>3 DEF AllocateJobWait, EnterNative, TypeOK, Idle
<1>4. ASSUME NEW t \in Threads, AllocateJobFull(t)
      PROVE  ThreadsAgree'
  BY <1>4 DEF AllocateJobFull, EnterNative, TypeOK, Idle
<1>5. ASSUME NEW t \in Threads, OnDone(t)
      PROVE  ThreadsAgree'
  BY <1>5 DEF OnDone, TypeOK, Idle
<1>6. CASE Setup
  BY <1>6, NativeType DEF Setup, sni_vars, TypeOK, Natives
<1>7. CASE SetupFailed
  BY <1>7, NativeType DEF SetupFailed, TypeOK, Idle
<1>8. CASE AsyncExec
  BY <1>8, NativeType DEF AsyncExec, sni_vars, TypeOK, Natives
<1>9. CASE AsyncExecFailed
  BY <1>9, NativeType DEF AsyncExecFailed, TypeOK, Idle
<1>10. CASE Suspend
  BY <1>10, NativeType DEF Suspend, TypeOK, Idle
<1>11. CASE FetchJob
  BY <1>11 DEF FetchJob, worker_unchanged, sni_vars
<1>12. CASE FetchEnds
  BY <1>12 DEF FetchEnds, worker_unchanged, sni_vars
<1>13. CASE RunAction
  BY <1>13 DEF RunAction, sni_vars
<1>14. CASE RunGarbage
  BY <1>14 DEF RunGarbage, worker_unchanged, sni_vars
<1>15. CASE ResumeThread
  BY <1>15 DEF ResumeThread
<1>16. CASE UNCHANGED vars
  BY <1>16 DEF vars, sni_vars
<1>17. QED
  BY <1>1, <1>2, <1>3, <1>4, <1>5, <1>6, <1>7, <1>8, <1>9, <1>10, <1>11, <1>12, <1>13,
     <1>14, <1>15, <1>16
     DEF Next, Enter, NativeStep, WorkerStep, Halted

(* Every variable of the model keeps its type, in every execution. *)
THEOREM TypeCorrect == Spec => []TypeOK
<1>1. Init => TypeOK /\ ThreadsAgree
  BY InitType DEF Init, ThreadsAgree, Idle
<1>2. TypeOK /\ ThreadsAgree /\ [Next]_vars => (TypeOK /\ ThreadsAgree)'
  BY NextType, NextThreadsAgree
<1>3. QED
  BY <1>1, <1>2, PTL DEF Spec

-----------------------------------------------------------------------------
(* Ownership of the jobs.                                                   *)

(* Pushing a job that is not free adds this job, once, to the free ones. *)
LEMMA PushFree ==
    ASSUME free_jobs \in Seq(Jobs), FreeOnce, NEW j \in Jobs, ~Free(j),
           free_jobs' = <<j>> \o free_jobs
    PROVE  /\ FreeOnce'
           /\ \A k \in Jobs : Free(k)' <=> Free(k) \/ k = j
<1>1. /\ Len(free_jobs') = Len(free_jobs) + 1
      /\ free_jobs'[1] = j
      /\ \A i \in 1 .. Len(free_jobs) : free_jobs'[i + 1] = free_jobs[i]
  OBVIOUS
<1>2. \A i \in 1 .. Len(free_jobs') : i # 1 =>
          i - 1 \in 1 .. Len(free_jobs) /\ free_jobs'[i] = free_jobs[i - 1]
  BY <1>1
<1>3. FreeOnce'
  BY <1>1, <1>2 DEF FreeOnce, Free
<1>4. ASSUME NEW k \in Jobs
      PROVE  Free(k)' <=> Free(k) \/ k = j
  BY <1>1, <1>2 DEF Free
<1>5. QED
  BY <1>3, <1>4

(* Popping takes the head, and it alone, from the free jobs. *)
LEMMA PopFree ==
    ASSUME free_jobs \in Seq(Jobs), FreeOnce, free_jobs # <<>>,
           free_jobs' = Tail(free_jobs)
    PROVE  /\ FreeOnce'
           /\ Head(free_jobs) \in Jobs /\ Free(Head(free_jobs))
           /\ \A k \in Jobs : Free(k)' <=> Free(k) /\ k # Head(free_jobs)
<1>1. /\ Len(free_jobs) \in Nat \ {0}
      /\ Len(free_jobs') = Len(free_jobs) - 1
      /\ Head(free_jobs) = free_jobs[1]
      /\ \A i \in 1 .. Len(free_jobs') : free_jobs'[i] = free_jobs[i + 1]
  OBVIOUS
<1>2. \A i \in 1 .. Len(free_jobs) : i # 1 =>
          i - 1 \in 1 .. Len(free_jobs') /\ free_jobs[i] = free_jobs'[i - 1]
  BY <1>1
<1>3. FreeOnce'
  BY <1>1 DEF FreeOnce
<1>4. Head(free_jobs) \in Jobs /\ Free(Head(free_jobs))
  BY <1>1 DEF Free
<1>5. ASSUME NEW k \in Jobs
      PROVE  Free(k)' <=> Free(k) /\ k # Head(free_jobs)
  BY <1>1, <1>2 DEF Free, FreeOnce
<1>6. QED
  BY <1>3, <1>4, <1>5

(* The four parts together are JobOwnership. *)
LEMMA OwnershipParts ==
    JobOwnership <=> (status = "ok" => NoJobLost /\ FreeOnce /\ OneHolder /\ OneCallback)
BY DEF JobOwnership, NoJobLost, FreeOnce, OneHolder, OneCallback

(* A step that touches neither the free list nor who holds jobs. *)
LEMMA OwnershipSame ==
    ASSUME JobOwnership, UNCHANGED <<status, free_jobs, thread, callback_job>>,
           UNCHANGED <<vm.job>>, (vm.pc # "idle")' <=> vm.pc # "idle"
    PROVE  JobOwnership'
BY DEF JobOwnership, Free, HeldByNative, HeldByThread

(* The job of the native that runs is neither free nor awaited, so when the *)
(* native gives it back it goes from one holder to another.                 *)
LEMMA NativeGivesBack ==
    ASSUME TypeOK, ThreadsAgree, JobOwnership, vm.pc # "idle",
           free_jobs' = <<vm.job>> \o free_jobs, vm' = Idle,
           thread' = [thread EXCEPT ![vm.thread] = "java"],
           UNCHANGED <<status, callback_job>>
    PROVE  JobOwnership'
<1>1. status = "ok" /\ vm.job \in Jobs /\ vm.thread \in Threads
      /\ thread[vm.thread] = "native"
  BY NativeType DEF ThreadsAgree
<1>2. NoJobLost /\ FreeOnce /\ OneHolder /\ OneCallback
  BY <1>1, OwnershipParts
<1>3. /\ FreeOnce'
      /\ \A k \in Jobs : Free(k)' <=> Free(k) \/ k = vm.job
  BY <1>1, <1>2, PushFree DEF TypeOK, OneHolder, HeldByNative
<1>4. \A k \in Jobs : ~HeldByNative(k)'
  BY DEF HeldByNative, Idle
<1>5. \A k \in Jobs : HeldByThread(k)' <=> HeldByThread(k)
  BY <1>1 DEF HeldByThread, TypeOK
<1>6. OneCallback'
  BY <1>1, <1>2 DEF OneCallback, TypeOK
<1>7. NoJobLost'
  BY <1>2, <1>3, <1>5 DEF NoJobLost, HeldByNative
<1>8. OneHolder'
  BY <1>1, <1>2, <1>3, <1>4, <1>5 DEF OneHolder, HeldByNative
<1>9. QED
  BY <1>3, <1>6, <1>7, <1>8 DEF JobOwnership, NoJobLost, FreeOnce, OneHolder, OneCallback

LEMMA InitOwnership == Init => JobOwnership
BY DEF Init, JobOwnership

LEMMA NextOwnership ==
    TypeOK /\ ThreadsAgree /\ JobOwnership /\ [Next]_vars => JobOwnership'
<1> SUFFICES ASSUME TypeOK, ThreadsAgree, JobOwnership, [Next]_vars
             PROVE  JobOwnership'
  OBVIOUS
<1>1. CASE Initialize
  <2>1. free_jobs' = [i \in 1 .. JobCount |-> i] /\ Len(free_jobs') = JobCount
    BY <1>1, AsyncWorkerAssumption DEF Initialize
  <2>2. FreeOnce' /\ \A j \in Jobs : Free(j)'
    BY <2>1 DEF FreeOnce, Free, Jobs
  <2>3. (\A j \in Jobs : ~HeldByNative(j)') /\ (\A j \in Jobs : ~HeldByThread(j)')
    BY <1>1 DEF Initialize, ThreadsAgree, HeldByNative, HeldByThread, sni_vars
  <2>4. OneCallback'
    BY <1>1 DEF Initialize, ThreadsAgree, OneCallback, sni_vars
  <2>5. NoJobLost' /\ OneHolder'
    BY <2>2, <2>3 DEF NoJobLost, OneHolder
  <2>6. QED
    BY <2>2, <2>4, <2>5 DEF JobOwnership, NoJobLost, FreeOnce, OneHolder, OneCallback
<1>2. ASSUME NEW t \in Threads, AllocateJob(t)
      PROVE  JobOwnership'
  <2> DEFINE h == Head(free_jobs)
  <2>1. /\ NoJobLost /\ FreeOnce /\ OneHolder /\ OneCallback
        /\ vm = Idle
        /\ free_jobs' = Tail(free_jobs)
        /\ vm' = [thread |-> t, pc |-> "setup", job |-> h]
        /\ UNCHANGED callback_job
    BY <1>2, OwnershipParts DEF AllocateJob, EnterNative
  <2>2. /\ FreeOnce'
        /\ h \in Jobs /\ Free(h)
        /\ \A k \in Jobs : Free(k)' <=> Free(k) /\ k # h
    BY <1>2, <2>1, PopFree DEF AllocateJob, TypeOK
  <2>3. \A k \in Jobs : HeldByNative(k)' <=> k = h
    BY <2>1 DEF HeldByNative
  <2>4. \A k \in Jobs : ~HeldByNative(k)
    BY <2>1 DEF HeldByNative, Idle
  <2>5. thread[t] # "on_done" /\ thread' = [thread EXCEPT ![t] = "native"]
    BY <1>2 DEF AllocateJob, EnterNative, JavaStates
  <2>6. \A k \in Jobs : HeldByThread(k)' <=> HeldByThread(k)
    BY <2>1, <2>5 DEF HeldByThread, TypeOK
  <2>7. OneCallback'
    BY <2>1, <2>5 DEF OneCallback, TypeOK
  <2>8. NoJobLost'
    BY <2>1, <2>2, <2>3, <2>4, <2>6 DEF NoJobLost
  <2>9. OneHolder'
    BY <2>1, <2>2, <2>3, <2>6 DEF OneHolder
  <2>10. QED
    BY <2>2, <2>7, <2>8, <2>9 DEF JobOwnership, NoJobLost, FreeOnce, OneHolder, OneCallback
<1>3. ASSUME NEW t \in Threads, AllocateJobWait(t) \/ AllocateJobFull(t)
      PROVE  JobOwnership'
  <2>1. UNCHANGED <<status, free_jobs, vm, callback_job>>
    BY <1>3 DEF AllocateJobWait, AllocateJobFull, job_vars
  <2>2. /\ thread[t] # "on_done"
        /\ \E s \in {"retry", "refused"} : thread' = [thread EXCEPT ![t] = s]
    BY <1>3 DEF AllocateJobWait, AllocateJobFull, EnterNative, JavaStates
  <2>3. \A u \in Threads : thread'[u] = "on_done" <=> thread[u] = "on_done"
    BY <2>2 DEF TypeOK
  <2>4. QED
    BY <2>1, <2>3 DEF JobOwnership, Free, HeldByNative, HeldByThread
<1>4. ASSUME NEW t \in Threads, OnDone(t)
      PROVE  JobOwnership'
  <2> DEFINE j == callback_job[t]
  <2>1. status = "ok" /\ j \in Jobs /\ thread[t] = "on_done" /\ vm.pc = "idle"
    BY <1>4 DEF OnDone, ThreadsAgree, Idle
  <2>2. NoJobLost /\ FreeOnce /\ OneHolder /\ OneCallback
    BY <2>1, OwnershipParts
  <2>3. HeldByThread(j)
    BY <2>1 DEF HeldByThread
  <2>4. /\ free_jobs' = <<j>> \o free_jobs
        /\ UNCHANGED <<status, vm>>
        /\ thread' = [thread EXCEPT ![t] = "java"]
        /\ callback_job' = [callback_job EXCEPT ![t] = NoJob]
    BY <1>4 DEF OnDone, FreeJob
  <2>5. /\ FreeOnce'
        /\ \A k \in Jobs : Free(k)' <=> Free(k) \/ k = j
    BY <2>1, <2>2, <2>3, <2>4, PushFree DEF TypeOK, OneHolder
  <2>6. \A k \in Jobs : ~HeldByNative(k) /\ ~HeldByNative(k)'
    BY <2>1, <2>4 DEF HeldByNative
  <2>7. \A k \in Jobs : HeldByThread(k)' <=> HeldByThread(k) /\ k # j
    BY <2>1, <2>2, <2>4 DEF HeldByThread, OneCallback, TypeOK
  <2>8. OneCallback'
    BY <2>2, <2>4 DEF OneCallback, TypeOK
  <2>9. NoJobLost'
    BY <2>2, <2>5, <2>6, <2>7 DEF NoJobLost
  <2>10. OneHolder'
    BY <2>2, <2>5, <2>6, <2>7 DEF OneHolder
  <2>11. QED
    BY <2>5, <2>8, <2>9, <2>10 DEF JobOwnership, NoJobLost, FreeOnce, OneHolder, OneCallback
<1>5. CASE Setup
  <2>1. vm \in Natives /\ vm' = [vm EXCEPT !.pc = "exec"]
    BY <1>5, NativeType DEF Setup
  <2>2. QED
    BY <1>5, <2>1, OwnershipSame DEF Setup, sni_vars, Natives
<1>6. CASE SetupFailed
  BY <1>6, NativeGivesBack DEF SetupFailed, FreeJob
<1>7. CASE AsyncExec
  <2>1. vm \in Natives /\ vm' = [vm EXCEPT !.pc = "suspend"]
    BY <1>7, NativeType DEF AsyncExec
  <2>2. QED
    BY <1>7, <2>1, OwnershipSame DEF AsyncExec, sni_vars, Natives
<1>8. CASE AsyncExecFailed
  BY <1>8, NativeGivesBack DEF AsyncExecFailed, FreeJob
<1>9. CASE Suspend
  <2> DEFINE u == vm.thread
  <2>1. /\ status = "ok" /\ vm.job \in Jobs /\ u \in Threads /\ thread[u] = "native"
        /\ vm.pc # "idle"
    BY <1>9, NativeType DEF Suspend, ThreadsAgree
  <2>2. NoJobLost /\ FreeOnce /\ OneHolder /\ OneCallback
    BY <2>1, OwnershipParts
  <2>3. /\ UNCHANGED <<status, free_jobs>>
        /\ vm' = Idle
        /\ thread' = [thread EXCEPT ![u] = "on_done"]
        /\ callback_job' = [callback_job EXCEPT ![u] = vm.job]
    BY <1>9 DEF Suspend, job_vars
  <2>4. FreeOnce' /\ \A k \in Jobs : Free(k)' <=> Free(k)
    BY <2>2, <2>3 DEF FreeOnce, Free
  <2>5. \A k \in Jobs : ~HeldByNative(k)'
    BY <2>3 DEF HeldByNative, Idle
  <2>6. \A k \in Jobs : HeldByNative(k) <=> k = vm.job
    BY <2>1 DEF HeldByNative
  <2>7. \A k \in Jobs : HeldByThread(k)' <=> HeldByThread(k) \/ k = vm.job
    BY <2>1, <2>3 DEF HeldByThread, TypeOK
  <2>8. ~HeldByThread(vm.job)
    BY <2>1, <2>2, <2>6 DEF OneHolder
  <2>9. OneCallback'
    BY <2>1, <2>2, <2>3, <2>8 DEF OneCallback, HeldByThread, TypeOK
  <2>10. NoJobLost' /\ OneHolder'
    BY <2>2, <2>4, <2>5, <2>6, <2>7 DEF NoJobLost, OneHolder
  <2>11. QED
    BY <2>4, <2>9, <2>10 DEF JobOwnership, NoJobLost, FreeOnce, OneHolder, OneCallback
<1>10. CASE WorkerStep \/ RunGarbage \/ FetchEnds \/ UNCHANGED vars
  <2>1. UNCHANGED <<status, free_jobs, vm, thread, callback_job>>
    BY <1>10 DEF WorkerStep, FetchJob, RunAction, ResumeThread, RunGarbage, FetchEnds,
                 worker_unchanged, vars, job_vars, sni_vars
  <2>2. QED
    BY <2>1, OwnershipSame
<1>11. QED
  BY <1>1, <1>2, <1>3, <1>4, <1>5, <1>6, <1>7, <1>8, <1>9, <1>10
     DEF Next, Enter, NativeStep, Halted

(* No job is ever leaked or held twice: JobOwnership holds in every         *)
(* execution, whatever fails and even when the worker executes stale jobs.  *)
THEOREM JobsOwned == Spec => []JobOwnership
<1>1. Init => TypeOK /\ ThreadsAgree /\ JobOwnership
  BY InitType, InitOwnership DEF Init, ThreadsAgree, Idle
<1>2. TypeOK /\ ThreadsAgree /\ JobOwnership /\ [Next]_vars
          => (TypeOK /\ ThreadsAgree /\ JobOwnership)'
  BY NextType, NextThreadsAgree, NextOwnership
<1>3. QED
  BY <1>1, <1>2, PTL DEF Spec

-----------------------------------------------------------------------------
(* The inductive invariant.                                                 *)

(* The parameters of a job that thread t has set, and those with the result *)
(* computed from them.                                                      *)
Asked(t) == [of |-> t, result |-> FALSE]
Answered(t) == [of |-> t, result |-> TRUE]

(* A job and nothing else comes out of the fetch, and only what came out of *)
(* it is executed and resumed for.                                          *)
WorkerHolds ==
    /\ fetch[Worker] = "returned" => msg[Worker] \in Jobs
    /\ worker = "resume" => fetch[Worker] = "returned"

(* The conjuncts of CompletionOwed. *)
Owed ==
    \A t \in Threads, j \in Jobs : Awaits(t, j) =>
        /\ thread_id[j] = t
        /\ Queued(j) \/ InWorker(j) \/ resumed[t]
        /\ ~(Queued(j) /\ InWorker(j))
        /\ ~(resumed[t] /\ (Queued(j) \/ InWorker(j)))

Awaited ==
    \A j \in Jobs : Queued(j) \/ InWorker(j) =>
        thread_id[j] \in Threads /\ Awaits(thread_id[j], j)

QueuedOnce ==
    \A i, k \in 1 .. Len(waiting_msg) : waiting_msg[i] = waiting_msg[k] => i = k

(* What the parameters of a job hold when it is posted, and on its way. *)
ParamsSet == vm.pc = "exec" => params[vm.job] = Asked(vm.thread)

ParamsFollow ==
    /\ \A j \in Jobs : Queued(j) => params[j] = Asked(thread_id[j])
    /\ \A j \in Jobs : InWorker(j) =>
          params[j] = IF worker = "resume" THEN Answered(thread_id[j])
                      ELSE Asked(thread_id[j])
    /\ \A t \in Threads, j \in Jobs :
          Awaits(t, j) /\ resumed[t] => params[j] = Answered(t)

(* NoStrayResume. *)
ResumedAreSuspended ==
    \A t \in Threads :
        resumed[t] =>
            \/ thread[t] \in {"retry", "on_done"}
            \/ vm.pc = "suspend" /\ vm.thread = t

(* The slots of the waiting list that hold a thread. *)
Occupied(o) ==
    \/ waiting_thread_offset <= o /\ o < free_waiting_thread_offset
    \/ /\ free_waiting_thread_offset < waiting_thread_offset
       /\ waiting_thread_offset <= o \/ o < free_waiting_thread_offset

(* They hold the threads that are suspended for a job and that nobody has   *)
(* resumed, each of them once.                                              *)
RingHoldsWaiters ==
    /\ \A o \in Slots : Occupied(o) => waiting_threads[o] \in Waiters
    /\ \A o, p \in Slots :
          Occupied(o) /\ Occupied(p) /\ waiting_threads[o] = waiting_threads[p] => o = p
    /\ \A t \in Waiters : \E o \in Slots : Occupied(o) /\ waiting_threads[o] = t

CallInv ==
    /\ WorkerHolds
    /\ Owed /\ Awaited /\ QueuedOnce
    /\ ParamsSet /\ ParamsFollow
    /\ ResumedAreSuspended
    /\ RingHoldsWaiters

IInv == TypeOK /\ ThreadsAgree /\ JobOwnership /\ (Intact => CallInv)
-----------------------------------------------------------------------------
(* Lemmas on who awaits which job.                                          *)

(* A thread that awaits a job is suspended for it or about to be, and holds *)
(* no other.                                                                *)
LEMMA AwaitsOne ==
    ASSUME TypeOK, ThreadsAgree, NEW t \in Threads, NEW j \in Jobs, Awaits(t, j)
    PROVE  /\ thread[t] \in {"native", "on_done"}
           /\ \A k \in Jobs : Awaits(t, k) => k = j
           /\ HeldByThread(j) \/ HeldByNative(j)
BY DEF Awaits, ThreadsAgree, HeldByThread, HeldByNative

(* The job of a native that has not posted it yet is nobody else's, and     *)
(* only suspended threads await a job.                                      *)
LEMMA NativeOwns ==
    ASSUME TypeOK, ThreadsAgree, JobOwnership, CallInv, vm.pc \in {"setup", "exec"}
    PROVE  /\ status = "ok"
           /\ vm.thread \in Threads /\ vm.job \in Jobs
           /\ thread[vm.thread] = "native"
           /\ ~resumed[vm.thread]
           /\ ~Queued(vm.job) /\ ~InWorker(vm.job)
           /\ \A t \in Threads : ~Awaits(t, vm.job)
           /\ \A t \in Threads, j \in Jobs :
                Awaits(t, j) <=> thread[t] = "on_done" /\ callback_job[t] = j
<1>1. /\ vm.thread \in Threads /\ vm.job \in Jobs
      /\ thread[vm.thread] = "native" /\ status = "ok"
  BY NativeType DEF ThreadsAgree
<1>2. ~resumed[vm.thread]
  BY <1>1 DEF CallInv, ResumedAreSuspended
<1>3. HeldByNative(vm.job) /\ ~HeldByThread(vm.job)
  BY <1>1 DEF HeldByNative, JobOwnership
<1>4. \A t \in Threads : ~Awaits(t, vm.job)
  BY <1>1, <1>3 DEF Awaits, HeldByThread
<1>5. ~Queued(vm.job) /\ ~InWorker(vm.job)
  BY <1>1, <1>4 DEF CallInv, Awaited
<1>6. QED
  BY <1>1, <1>2, <1>4, <1>5 DEF Awaits

(* The waiting list is not empty if and only if its first slot is occupied, *)
(* which is then a waiter's.                                                *)
LEMMA FirstWaiter ==
    ASSUME TypeOK, RingHoldsWaiters
    PROVE  /\ RingEmpty => \A o \in Slots : ~Occupied(o)
           /\ ~RingEmpty => /\ Occupied(waiting_thread_offset)
                            /\ waiting_threads[waiting_thread_offset] \in Waiters
<1>1. /\ waiting_thread_offset \in Nat /\ free_waiting_thread_offset \in Nat
      /\ waiting_thread_offset \in Slots
  BY DEF TypeOK, Slots
<1>2. RingEmpty => \A o \in Slots : ~Occupied(o)
  BY <1>1 DEF RingEmpty, Occupied, Slots
<1>3. ~RingEmpty => Occupied(waiting_thread_offset)
  BY <1>1 DEF RingEmpty, Occupied
<1>4. QED
  BY <1>1, <1>2, <1>3 DEF RingHoldsWaiters

(* Freeing a job takes the first waiter from the waiting list and resumes   *)
(* it, and touches no other thread.                                         *)
LEMMA FreeJobRing ==
    ASSUME TypeOK, RingHoldsWaiters,
           NEW j \in Jobs, NEW pending \in [Threads -> BOOLEAN], FreeJob(j, pending),
           \A t \in Threads : thread'[t] = "retry" <=> thread[t] = "retry",
           \A t \in Threads : thread[t] = "retry" => pending[t] = resumed[t]
    PROVE  /\ RingHoldsWaiters'
           /\ \A t \in Threads : thread[t] # "retry" => resumed'[t] = pending[t]
<1> DEFINE first == waiting_threads[waiting_thread_offset]
<1>1. CASE RingEmpty
  <2>1. resumed' = pending /\ UNCHANGED ring_vars
    BY <1>1 DEF FreeJob
  <2>2. Waiters' = Waiters
    BY <2>1 DEF Waiters
  <2>3. \A o \in Slots : Occupied(o)' <=> Occupied(o)
    BY <2>1 DEF Occupied, ring_vars
  <2>4. QED
    BY <2>1, <2>2, <2>3 DEF RingHoldsWaiters, ring_vars
<1>2. CASE ~RingEmpty
  <2>1. /\ resumed' = [pending EXCEPT ![first] = TRUE]
        /\ waiting_thread_offset' = NextSlot(waiting_thread_offset)
        /\ UNCHANGED <<waiting_threads, free_waiting_thread_offset>>
    BY <1>2 DEF FreeJob
  <2>2. first \in Waiters /\ first \in Threads /\ Occupied(waiting_thread_offset)
        /\ waiting_thread_offset \in Slots
    BY <1>2, FirstWaiter DEF Waiters, TypeOK
  <2>3. Waiters' = Waiters \ {first}
    BY <2>1, <2>2 DEF Waiters
  <2>4. \A o \in Slots : Occupied(o)' <=> Occupied(o) /\ o # waiting_thread_offset
    BY <1>2, <2>1, AsyncWorkerAssumption
       DEF Occupied, RingEmpty, NextSlot, Slots, TypeOK
  <2>5. RingHoldsWaiters'
    <3>1. \A o \in Slots : Occupied(o)' => waiting_threads'[o] \in Waiters'
      BY <2>1, <2>2, <2>3, <2>4 DEF RingHoldsWaiters
    <3>2. \A t \in Waiters' : \E o \in Slots : Occupied(o)' /\ waiting_threads'[o] = t
      BY <2>1, <2>3, <2>4 DEF RingHoldsWaiters
    <3>3. QED
      BY <2>1, <2>4, <3>1, <3>2 DEF RingHoldsWaiters
  <2>6. QED
    BY <2>1, <2>2, <2>5 DEF Waiters
<1>3. QED
  BY <1>1, <1>2

(* A step that touches nothing a call depends on. *)
LEMMA CallSame ==
    ASSUME CallInv, UNCHANGED <<thread_id, params, ring_vars, queue_vars, worker, vm, sni_vars>>
    PROVE  CallInv'
<1>1. WorkerHolds' /\ Owed' /\ Awaited' /\ QueuedOnce' /\ ParamsSet' /\ ParamsFollow'
      /\ ResumedAreSuspended'
  BY DEF CallInv, WorkerHolds, Owed, Awaited, QueuedOnce, ParamsSet, ParamsFollow,
         ResumedAreSuspended, Awaits, Queued, InWorker, queue_vars, sni_vars
<1>2. RingHoldsWaiters'
  BY DEF CallInv, RingHoldsWaiters, Occupied, Waiters, ring_vars, sni_vars
<1>3. QED
  BY <1>1, <1>2 DEF CallInv

(* A step that keeps who awaits what, the queue and the worker's job, and   *)
(* of the awaited jobs and their threads all that matters.                  *)
LEMMA AwaitsKept ==
    ASSUME TypeOK, CallInv,
           UNCHANGED <<waiting_msg, msg, worker>>,
           (fetch[Worker] = "returned")' <=> fetch[Worker] = "returned",
           \A t \in Threads, j \in Jobs : Awaits(t, j)' <=> Awaits(t, j),
           \A t \in Threads, j \in Jobs : Awaits(t, j) =>
              /\ resumed'[t] = resumed[t]
              /\ params'[j] = params[j]
              /\ thread_id'[j] = thread_id[j]
    PROVE  WorkerHolds' /\ Owed' /\ Awaited' /\ QueuedOnce' /\ ParamsFollow'
<1>1. \A j \in Jobs : (Queued(j)' <=> Queued(j)) /\ (InWorker(j)' <=> InWorker(j))
  BY DEF Queued, InWorker
<1>2. WorkerHolds' /\ QueuedOnce'
  BY DEF CallInv, WorkerHolds, QueuedOnce
<1>3. Owed'
  BY <1>1 DEF CallInv, Owed
<1>4. Awaited'
  BY <1>1 DEF CallInv, Awaited
<1>5. ParamsFollow'
  <2>1. \A j \in Jobs : Queued(j) \/ InWorker(j) =>
            params'[j] = params[j] /\ thread_id'[j] = thread_id[j]
    BY DEF CallInv, Awaited
  <2>2. QED
    BY <1>1, <2>1 DEF CallInv, ParamsFollow, Asked, Answered
<1>6. QED
  BY <1>2, <1>3, <1>4, <1>5

LEMMA RingSame ==
    ASSUME RingHoldsWaiters, UNCHANGED ring_vars, Waiters' = Waiters
    PROVE  RingHoldsWaiters'
BY DEF RingHoldsWaiters, Occupied, ring_vars

-----------------------------------------------------------------------------
(* The steps of the virtual machine task.                                   *)

(* A native begins in a thread that awaits nothing and has no resume        *)
(* pending but the one it was retried for.                                  *)
LEMMA EnterFacts ==
    ASSUME TypeOK, ThreadsAgree, CallInv, NEW t \in Threads, EnterNative(t)
    PROVE  /\ resumed' = [resumed EXCEPT ![t] = FALSE]
           /\ thread[t] \in {"java", "refused", "retry"}
           /\ vm.pc = "idle"
           /\ \A j \in Jobs : ~Awaits(t, j)
           /\ t \notin Waiters
<1>1. vm.pc = "idle" /\ thread[t] \in {"java", "refused", "retry"}
  BY DEF EnterNative, Idle, JavaStates
<1>2. thread[t] # "retry" => ~resumed[t]
  BY <1>1 DEF CallInv, ResumedAreSuspended
<1>3. resumed' = [resumed EXCEPT ![t] = FALSE]
  BY <1>1, <1>2 DEF EnterNative, JavaStates, TypeOK
<1>4. QED
  BY <1>1, <1>3 DEF Awaits, Waiters, EnterNative, JavaStates

LEMMA AllocateCall ==
    ASSUME TypeOK, ThreadsAgree, CallInv, NEW t \in Threads,
           AllocateJob(t) \/ AllocateJobFull(t)
    PROVE  CallInv'
<1>1. /\ EnterNative(t)
      /\ thread' \in {[thread EXCEPT ![t] = "native"], [thread EXCEPT ![t] = "refused"]}
      /\ vm'.pc \in {"idle", "setup"}
      /\ UNCHANGED <<thread_id, params, ring_vars, queue_vars, worker, callback_job>>
  BY DEF AllocateJob, AllocateJobFull, EnterNative, Idle, job_vars
<1>2. /\ resumed' = [resumed EXCEPT ![t] = FALSE]
      /\ vm.pc = "idle"
      /\ thread[t] \in {"java", "refused", "retry"}
      /\ \A j \in Jobs : ~Awaits(t, j)
      /\ t \notin Waiters
  BY <1>1, EnterFacts
<1>3. \A u \in Threads, j \in Jobs : Awaits(u, j)' <=> Awaits(u, j)
  BY <1>1, <1>2 DEF Awaits, TypeOK
<1>4. WorkerHolds' /\ Owed' /\ Awaited' /\ QueuedOnce' /\ ParamsFollow'
  BY <1>1, <1>2, <1>3, AwaitsKept DEF queue_vars, TypeOK
<1>5. ParamsSet'
  BY <1>1 DEF ParamsSet
<1>6. ResumedAreSuspended'
  BY <1>1, <1>2 DEF CallInv, ResumedAreSuspended, TypeOK
<1>7. Waiters' = Waiters
  BY <1>1, <1>2 DEF Waiters, TypeOK
<1>8. QED
  BY <1>1, <1>4, <1>5, <1>6, <1>7, RingSame DEF CallInv

(* The thread is the last of the waiting list. *)
LEMMA AllocateWaitCall ==
    ASSUME TypeOK, ThreadsAgree, CallInv, NEW t \in Threads, AllocateJobWait(t)
    PROVE  CallInv'
<1> DEFINE last == free_waiting_thread_offset
<1>1. /\ EnterNative(t)
      /\ ~RingFull
      /\ waiting_threads' = [waiting_threads EXCEPT ![last] = t]
      /\ free_waiting_thread_offset' = NextSlot(last)
      /\ thread' = [thread EXCEPT ![t] = "retry"]
      /\ UNCHANGED <<waiting_thread_offset, thread_id, params, queue_vars, worker, vm,
                     callback_job>>
  BY DEF AllocateJobWait, job_vars
<1>2. /\ resumed' = [resumed EXCEPT ![t] = FALSE]
      /\ vm.pc = "idle"
      /\ thread[t] \in {"java", "refused", "retry"}
      /\ \A j \in Jobs : ~Awaits(t, j)
      /\ t \notin Waiters
  BY <1>1, EnterFacts
<1>3. \A u \in Threads, j \in Jobs : Awaits(u, j)' <=> Awaits(u, j)
  BY <1>1, <1>2 DEF Awaits, TypeOK
<1>4. WorkerHolds' /\ Owed' /\ Awaited' /\ QueuedOnce' /\ ParamsFollow'
  BY <1>1, <1>2, <1>3, AwaitsKept DEF queue_vars, TypeOK
<1>5. ParamsSet'
  BY <1>1, <1>2 DEF ParamsSet
<1>6. ResumedAreSuspended'
  BY <1>1, <1>2 DEF CallInv, ResumedAreSuspended, TypeOK
<1>7. Waiters' = Waiters \union {t}
  BY <1>1, <1>2 DEF Waiters, TypeOK
<1>8. /\ last \in Slots
      /\ ~Occupied(last)
      /\ \A o \in Slots : Occupied(o)' <=> Occupied(o) \/ o = last
  BY <1>1, AsyncWorkerAssumption DEF Occupied, RingFull, NextSlot, Slots, TypeOK
<1>9. /\ waiting_threads'[last] = t
      /\ \A o \in Slots : o # last => waiting_threads'[o] = waiting_threads[o]
  BY <1>1, <1>8 DEF TypeOK
<1>10. RingHoldsWaiters'
  <2>1. \A o \in Slots : Occupied(o)' => waiting_threads'[o] \in Waiters'
    BY <1>7, <1>8, <1>9 DEF CallInv, RingHoldsWaiters
  <2>2. \A o, p \in Slots :
            Occupied(o)' /\ Occupied(p)' /\ waiting_threads'[o] = waiting_threads'[p] => o = p
    BY <1>2, <1>8, <1>9 DEF CallInv, RingHoldsWaiters
  <2>3. \A u \in Waiters' : \E o \in Slots : Occupied(o)' /\ waiting_threads'[o] = u
    BY <1>7, <1>8, <1>9 DEF CallInv, RingHoldsWaiters
  <2>4. QED
    BY <2>1, <2>2, <2>3 DEF RingHoldsWaiters
<1>11. QED
  BY <1>4, <1>5, <1>6, <1>10 DEF CallInv

LEMMA SetupCall ==
    ASSUME TypeOK, ThreadsAgree, JobOwnership, CallInv, Setup
    PROVE  CallInv'
<1>1. /\ vm \in Natives /\ vm.pc = "setup"
      /\ params' = [params EXCEPT ![vm.job] = Asked(vm.thread)]
      /\ vm' = [vm EXCEPT !.pc = "exec"]
      /\ UNCHANGED <<thread_id, ring_vars, queue_vars, worker, sni_vars>>
  BY NativeType DEF Setup, Asked
<1>2. /\ vm'.pc = "exec" /\ vm'.job = vm.job /\ vm'.thread = vm.thread
      /\ vm.job \in Jobs
  BY <1>1 DEF Natives
<1>3. \A t \in Threads, j \in Jobs : Awaits(t, j)' <=> Awaits(t, j)
  BY <1>1, <1>2 DEF Awaits, sni_vars
<1>4. \A t \in Threads, j \in Jobs : Awaits(t, j) => params'[j] = params[j]
  BY <1>1, NativeOwns DEF TypeOK
<1>5. WorkerHolds' /\ Owed' /\ Awaited' /\ QueuedOnce' /\ ParamsFollow'
  BY <1>1, <1>3, <1>4, AwaitsKept DEF queue_vars, sni_vars
<1>6. ParamsSet'
  BY <1>1, <1>2 DEF ParamsSet, TypeOK, Asked
<1>7. ResumedAreSuspended'
  BY <1>1, <1>2 DEF CallInv, ResumedAreSuspended, sni_vars
<1>8. Waiters' = Waiters
  BY <1>1 DEF Waiters, sni_vars
<1>9. QED
  BY <1>1, <1>5, <1>6, <1>7, <1>8, RingSame DEF CallInv

(* A native that ends early gives its job back, and nobody's call changes. *)
LEMMA NativeFailsCall ==
    ASSUME TypeOK, ThreadsAgree, JobOwnership, CallInv, SetupFailed \/ AsyncExecFailed
    PROVE  CallInv'
<1>1. /\ vm.pc \in {"setup", "exec"}
      /\ FreeJob(vm.job, resumed)
      /\ vm' = Idle
      /\ thread' = [thread EXCEPT ![vm.thread] = "java"]
      /\ UNCHANGED <<params, worker, callback_job, waiting_msg, msg>>
      /\ \A j \in Jobs : j # vm.job => thread_id'[j] = thread_id[j]
  BY DEF SetupFailed, AsyncExecFailed, Q!PostNoMem, queue_vars, TypeOK
<1>2. (fetch[Worker] = "returned")' <=> fetch[Worker] = "returned"
  BY DEF SetupFailed, AsyncExecFailed, Q!PostNoMem, Q!Signal, Q!At, queue_vars, TypeOK, Q!TypeOK
<1>3. /\ vm.thread \in Threads /\ vm.job \in Jobs /\ thread[vm.thread] = "native"
      /\ ~resumed[vm.thread]
      /\ \A t \in Threads : ~Awaits(t, vm.job)
      /\ \A t \in Threads, j \in Jobs :
            Awaits(t, j) <=> thread[t] = "on_done" /\ callback_job[t] = j
  BY <1>1, NativeOwns
<1>4. \A t \in Threads : t # vm.thread => thread'[t] = thread[t]
  BY <1>1 DEF TypeOK
<1>5. thread'[vm.thread] = "java"
  BY <1>1, <1>3 DEF TypeOK
<1>6. /\ RingHoldsWaiters'
      /\ \A t \in Threads : thread[t] # "retry" => resumed'[t] = resumed[t]
  BY <1>1, <1>3, <1>4, <1>5, FreeJobRing DEF CallInv, TypeOK
<1>7. \A t \in Threads, j \in Jobs : Awaits(t, j)' <=> Awaits(t, j)
  BY <1>1, <1>3, <1>4, <1>5 DEF Awaits, Idle
<1>8. WorkerHolds' /\ Owed' /\ Awaited' /\ QueuedOnce' /\ ParamsFollow'
  BY <1>1, <1>2, <1>3, <1>6, <1>7, AwaitsKept
<1>9. ParamsSet'
  BY <1>1 DEF ParamsSet, Idle
<1>10. ResumedAreSuspended'
  BY <1>1, <1>3, <1>4, <1>5, <1>6 DEF CallInv, ResumedAreSuspended
<1>11. QED
  BY <1>6, <1>8, <1>9, <1>10 DEF CallInv

(* The post: from here on the thread awaits the job, which is in the queue. *)
LEMMA AsyncExecCall ==
    ASSUME TypeOK, ThreadsAgree, JobOwnership, CallInv, AsyncExec
    PROVE  CallInv'
<1> DEFINE u == vm.thread
           h == vm.job
<1>1. /\ vm \in Natives /\ vm.pc = "exec"
      /\ thread_id' = [thread_id EXCEPT ![h] = u]
      /\ waiting_msg' = Append(waiting_msg, h)
      /\ vm' = [vm EXCEPT !.pc = "suspend"]
      /\ UNCHANGED <<params, ring_vars, worker, sni_vars, msg>>
  BY NativeType DEF AsyncExec, Q!Post, Q!Add
<1>2. (fetch[Worker] = "returned")' <=> fetch[Worker] = "returned"
  BY DEF AsyncExec, Q!Post, Q!Signal, Q!At, TypeOK, Q!TypeOK
<1>3. /\ vm'.pc = "suspend" /\ vm'.job = h /\ vm'.thread = u
      /\ h \in Jobs /\ u \in Threads
  BY <1>1 DEF Natives
<1>4. /\ thread[u] = "native" /\ ~resumed[u]
      /\ ~Queued(h) /\ ~InWorker(h)
      /\ \A t \in Threads : ~Awaits(t, h)
      /\ \A t \in Threads, j \in Jobs :
            Awaits(t, j) <=> thread[t] = "on_done" /\ callback_job[t] = j
  BY <1>1, NativeOwns
<1>5. /\ thread_id'[h] = u
      /\ \A j \in Jobs : j # h => thread_id'[j] = thread_id[j]
  BY <1>1, <1>3 DEF TypeOK
<1>6. \A t \in Threads, j \in Jobs : Awaits(t, j)' <=> Awaits(t, j) \/ (t = u /\ j = h)
  BY <1>1, <1>3, <1>4 DEF Awaits, sni_vars
<1>7. /\ Len(waiting_msg) \in Nat
      /\ Len(waiting_msg') = Len(waiting_msg) + 1
      /\ waiting_msg'[Len(waiting_msg) + 1] = h
      /\ \A i \in 1 .. Len(waiting_msg) : waiting_msg'[i] = waiting_msg[i]
  BY <1>1, <1>3 DEF TypeOK, Q!TypeOK
<1>8. \A i \in 1 .. Len(waiting_msg') :
          i \in 1 .. Len(waiting_msg) \/ i = Len(waiting_msg) + 1
  BY <1>7
<1>9. \A j \in Jobs : /\ Queued(j)' <=> Queued(j) \/ j = h
                      /\ InWorker(j)' <=> InWorker(j)
  BY <1>1, <1>2, <1>7, <1>8 DEF Queued, InWorker
<1>10. WorkerHolds'
  BY <1>1, <1>2 DEF CallInv, WorkerHolds
<1>11. Owed'
  <2>1. ASSUME NEW t \in Threads, NEW j \in Jobs, Awaits(t, j)
        PROVE  j # h /\ thread_id'[j] = thread_id[j]
    BY <1>4, <1>5, <2>1
  <2>2. QED
    BY <1>1, <1>4, <1>5, <1>6, <1>9, <2>1 DEF CallInv, Owed, sni_vars
<1>12. Awaited'
  BY <1>3, <1>4, <1>5, <1>6, <1>9 DEF CallInv, Awaited
<1>13. QueuedOnce'
  BY <1>4, <1>7, <1>8 DEF CallInv, QueuedOnce, Queued
<1>14. ParamsFollow'
  <2>1. params'[h] = Asked(u) /\ ~resumed'[u]
    BY <1>1, <1>4 DEF CallInv, ParamsSet, sni_vars
  <2>2. \A j \in Jobs : Queued(j)' => params'[j] = Asked(thread_id'[j])
    BY <1>1, <1>5, <1>9, <2>1 DEF CallInv, ParamsFollow, Asked
  <2>3. \A j \in Jobs : InWorker(j)' =>
            params'[j] = IF worker' = "resume" THEN Answered(thread_id'[j])
                         ELSE Asked(thread_id'[j])
    BY <1>1, <1>4, <1>5, <1>9 DEF CallInv, ParamsFollow, Asked, Answered
  <2>4. \A t \in Threads, j \in Jobs :
            Awaits(t, j)' /\ resumed'[t] => params'[j] = Answered(t)
    BY <1>1, <1>6, <2>1 DEF CallInv, ParamsFollow, sni_vars
  <2>5. QED
    BY <2>2, <2>3, <2>4 DEF ParamsFollow, Asked, Answered
<1>15. ParamsSet'
  BY <1>3 DEF ParamsSet
<1>16. ResumedAreSuspended'
  BY <1>1, <1>3 DEF CallInv, ResumedAreSuspended, sni_vars
<1>17. RingHoldsWaiters'
  BY <1>1, RingSame DEF CallInv, Waiters, sni_vars
<1>18. QED
  BY <1>10, <1>11, <1>12, <1>13, <1>14, <1>15, <1>16, <1>17 DEF CallInv

LEMMA SuspendCall ==
    ASSUME TypeOK, ThreadsAgree, CallInv, Suspend
    PROVE  CallInv'
<1>1. /\ vm.pc = "suspend" /\ vm.thread \in Threads /\ vm.job \in Jobs
      /\ thread[vm.thread] = "native"
      /\ thread' = [thread EXCEPT ![vm.thread] = "on_done"]
      /\ callback_job' = [callback_job EXCEPT ![vm.thread] = vm.job]
      /\ vm' = Idle
      /\ UNCHANGED <<thread_id, params, ring_vars, queue_vars, worker, resumed>>
  BY NativeType DEF Suspend, ThreadsAgree, job_vars
<1>2. \A t \in Threads, j \in Jobs : Awaits(t, j)' <=> Awaits(t, j)
  BY <1>1 DEF Awaits, Idle, TypeOK
<1>3. WorkerHolds' /\ Owed' /\ Awaited' /\ QueuedOnce' /\ ParamsFollow'
  BY <1>1, <1>2, AwaitsKept DEF queue_vars
<1>4. ParamsSet'
  BY <1>1 DEF ParamsSet, Idle
<1>5. ResumedAreSuspended'
  BY <1>1 DEF CallInv, ResumedAreSuspended, TypeOK
<1>6. Waiters' = Waiters
  BY <1>1 DEF Waiters, TypeOK
<1>7. QED
  BY <1>1, <1>3, <1>4, <1>5, <1>6, RingSame DEF CallInv

(* The call ends.  Its job is neither queued nor with the worker, since a   *)
(* resume was pending for it, and no other thread awaits it.                *)
LEMMA OnDoneCall ==
    ASSUME TypeOK, ThreadsAgree, CallInv, NEW t \in Threads, OnDone(t)
    PROVE  CallInv'
<1> DEFINE h == callback_job[t]
           pending == [resumed EXCEPT ![t] = FALSE]
<1>1. /\ vm.pc = "idle" /\ thread[t] = "on_done" /\ resumed[t]
      /\ h \in Jobs
      /\ FreeJob(h, pending) /\ pending \in [Threads -> BOOLEAN]
      /\ thread' = [thread EXCEPT ![t] = "java"]
      /\ callback_job' = [callback_job EXCEPT ![t] = NoJob]
      /\ UNCHANGED <<thread_id, params, queue_vars, worker, vm>>
  BY DEF OnDone, Idle, ThreadsAgree, TypeOK
<1>2. \A u \in Threads : u # t => thread'[u] = thread[u] /\ callback_job'[u] = callback_job[u]
  BY <1>1 DEF TypeOK
<1>3. thread'[t] = "java"
  BY <1>1 DEF TypeOK
<1>4. /\ RingHoldsWaiters'
      /\ \A u \in Threads : thread[u] # "retry" => resumed'[u] = pending[u]
  <2>1. \A u \in Threads : thread'[u] = "retry" <=> thread[u] = "retry"
    BY <1>1, <1>2, <1>3
  <2>2. \A u \in Threads : thread[u] = "retry" => pending[u] = resumed[u]
    BY <1>1 DEF TypeOK
  <2>3. QED
    BY <1>1, <2>1, <2>2, FreeJobRing DEF CallInv
<1>5. \A u \in Threads : pending[u] = IF u = t THEN FALSE ELSE resumed[u]
  BY DEF TypeOK
<1>6. Awaits(t, h)
  BY <1>1 DEF Awaits
<1>7. ~Queued(h) /\ ~InWorker(h) /\ thread_id[h] = t
  BY <1>1, <1>6 DEF CallInv, Owed
<1>8. \A u \in Threads, j \in Jobs : Awaits(u, j)' <=> Awaits(u, j) /\ u # t
  BY <1>1, <1>2, <1>3 DEF Awaits
<1>9. \A u \in Threads, j \in Jobs : Awaits(u, j) /\ u # t =>
          thread[u] # "retry" /\ resumed'[u] = resumed[u]
  BY <1>4, <1>5, AwaitsOne
<1>10. \A j \in Jobs : (Queued(j)' <=> Queued(j)) /\ (InWorker(j)' <=> InWorker(j))
  BY <1>1 DEF Queued, InWorker, queue_vars
<1>11. \A j \in Jobs : Queued(j) \/ InWorker(j) =>
          thread_id[j] \in Threads /\ Awaits(thread_id[j], j) /\ thread_id[j] # t
  BY <1>1, <1>6, <1>7, AwaitsOne DEF CallInv, Awaited
<1>12. WorkerHolds' /\ QueuedOnce'
  BY <1>1 DEF CallInv, WorkerHolds, QueuedOnce, queue_vars
<1>13. Owed'
  BY <1>1, <1>8, <1>9, <1>10 DEF CallInv, Owed
<1>14. Awaited'
  BY <1>1, <1>8, <1>10, <1>11 DEF Awaited
<1>15. ParamsFollow'
  BY <1>1, <1>8, <1>9, <1>10 DEF CallInv, ParamsFollow, Asked, Answered
<1>16. ParamsSet'
  BY <1>1 DEF ParamsSet
<1>17. ResumedAreSuspended'
  BY <1>1, <1>2, <1>3, <1>4, <1>5 DEF CallInv, ResumedAreSuspended
<1>18. QED
  BY <1>4, <1>12, <1>13, <1>14, <1>15, <1>16, <1>17 DEF CallInv

-----------------------------------------------------------------------------
(* The steps of the worker task.                                            *)

(* What no step of the worker but a resume touches. *)
LEMMA WorkerRest ==
    ASSUME CallInv, UNCHANGED <<ring_vars, vm, sni_vars>>,
           ParamsSet'
    PROVE  ParamsSet' /\ ResumedAreSuspended' /\ RingHoldsWaiters'
<1>1. Waiters' = Waiters
  BY DEF Waiters, sni_vars
<1>2. QED
  BY <1>1, RingSame DEF CallInv, ResumedAreSuspended, sni_vars

(* The worker takes the head of the queue, or goes to sleep. *)
LEMMA FetchCall ==
    ASSUME TypeOK, ThreadsAgree, CallInv, FetchJob, Intact'
    PROVE  CallInv'
<1>1. /\ UNCHANGED <<thread_id, params, ring_vars, worker, vm, sni_vars>>
      /\ worker = "loop"
      /\ fetch[Worker] # "returned"
  BY DEF FetchJob, worker_unchanged, job_vars, Q!FetchStep, Q!Fetch, Q!Wake, Q!WakeExpired
<1>2. \A t \in Threads, j \in Jobs : Awaits(t, j)' <=> Awaits(t, j)
  BY <1>1 DEF Awaits, sni_vars
<1>3. ParamsSet'
  BY <1>1 DEF CallInv, ParamsSet
<1>4. CASE UNCHANGED <<waiting_msg, msg>> /\ fetch' = [fetch EXCEPT ![Worker] = "waiting"]
  <2>1. fetch'[Worker] # "returned"
    BY <1>4 DEF TypeOK, Q!TypeOK
  <2>2. WorkerHolds' /\ Owed' /\ Awaited' /\ QueuedOnce' /\ ParamsFollow'
    BY <1>1, <1>2, <1>4, <2>1, AwaitsKept DEF sni_vars
  <2>3. QED
    BY <1>1, <1>3, <2>2, WorkerRest DEF CallInv
<1>5. CASE Q!Take(Worker)
  <2> DEFINE h == Head(waiting_msg)
  <2>1. /\ waiting_msg # <<>> /\ waiting_msg \in Seq(Jobs)
        /\ msg'[Worker] = h
        /\ waiting_msg' = Tail(waiting_msg)
        /\ fetch'[Worker] = "returned"
    BY <1>5 DEF Q!Take, TypeOK, Q!TypeOK
  <2>2. /\ Len(waiting_msg) \in Nat \ {0}
        /\ h \in Jobs /\ h = waiting_msg[1]
        /\ Len(waiting_msg') = Len(waiting_msg) - 1
        /\ \A i \in 1 .. Len(waiting_msg') : waiting_msg'[i] = waiting_msg[i + 1]
    BY <2>1
  <2>3. \A i \in 1 .. Len(waiting_msg) : i # 1 =>
            i - 1 \in 1 .. Len(waiting_msg') /\ waiting_msg[i] = waiting_msg'[i - 1]
    BY <2>2
  <2>4. QueuedOnce'
    BY <2>2 DEF CallInv, QueuedOnce
  <2>5. /\ Queued(h)
        /\ \A j \in Jobs : Queued(j)' <=> Queued(j) /\ j # h
    BY <2>2, <2>3 DEF CallInv, QueuedOnce, Queued
  <2>6. \A j \in Jobs : ~InWorker(j) /\ (InWorker(j)' <=> j = h)
    BY <1>1, <2>1 DEF InWorker
  <2>7. WorkerHolds'
    BY <1>1, <2>1, <2>2 DEF WorkerHolds
  <2>8. Owed'
    BY <1>1, <1>2, <2>2, <2>5, <2>6 DEF CallInv, Owed, sni_vars
  <2>9. Awaited'
    BY <1>1, <1>2, <2>2, <2>5, <2>6 DEF CallInv, Awaited
  <2>10. ParamsFollow'
    BY <1>1, <1>2, <2>2, <2>5, <2>6 DEF CallInv, ParamsFollow, Asked, Answered, sni_vars
  <2>11. QED
    BY <1>1, <1>3, <2>4, <2>7, <2>8, <2>9, <2>10, WorkerRest DEF CallInv
<1>6. CASE Q!ReturnEmpty(Worker)
  BY <1>6 DEF Q!ReturnEmpty, Intact
<1>7. QED
  BY <1>4, <1>5, <1>6 DEF FetchJob, Q!FetchStep, Q!Fetch, Q!Wake, Q!WakeExpired

LEMMA FetchEndsCall ==
    ASSUME TypeOK, CallInv, FetchEnds
    PROVE  CallInv'
<1>1. /\ UNCHANGED <<thread_id, params, ring_vars, worker, vm, sni_vars, waiting_msg, msg>>
      /\ (fetch[Worker] = "returned")' <=> fetch[Worker] = "returned"
  BY DEF FetchEnds, worker_unchanged, job_vars, Q!WaitEnds, Q!Expire, Q!Spurious, TypeOK, Q!TypeOK
<1>2. \A t \in Threads, j \in Jobs : Awaits(t, j)' <=> Awaits(t, j)
  BY <1>1 DEF Awaits, sni_vars
<1>3. WorkerHolds' /\ Owed' /\ Awaited' /\ QueuedOnce' /\ ParamsFollow'
  BY <1>1, <1>2, AwaitsKept DEF sni_vars
<1>4. ParamsSet'
  BY <1>1 DEF CallInv, ParamsSet
<1>5. QED
  BY <1>1, <1>3, <1>4, WorkerRest DEF CallInv

(* The job is executed: its parameters hold the result. *)
LEMMA RunActionCall ==
    ASSUME TypeOK, ThreadsAgree, JobOwnership, CallInv, RunAction
    PROVE  CallInv'
<1> DEFINE h == msg[Worker]
<1>1. /\ worker = "loop" /\ worker' = "resume" /\ fetch[Worker] = "returned"
      /\ h \in Jobs
      /\ params' = [params EXCEPT ![h].result = TRUE]
      /\ UNCHANGED <<thread_id, ring_vars, queue_vars, vm, sni_vars>>
  BY DEF RunAction, CallInv, WorkerHolds
<1>2. \A j \in Jobs : InWorker(j) <=> j = h
  BY <1>1 DEF InWorker
<1>3. \A j \in Jobs : j # h => params'[j] = params[j]
  BY <1>1 DEF TypeOK
<1>4. params'[h] = Answered(thread_id[h])
  <2>1. params[h] = [of |-> thread_id[h], result |-> FALSE] /\ params[h] \in Params
    BY <1>1, <1>2 DEF CallInv, ParamsFollow, Asked, TypeOK
  <2>2. params'[h] = [params[h] EXCEPT !.result = TRUE]
    BY <1>1 DEF TypeOK
  <2>3. params[h].of = thread_id[h]
    BY <2>1
  <2>4. QED
    BY <2>1, <2>2, <2>3 DEF Answered, Params
<1>5. thread_id[h] \in Threads /\ Awaits(thread_id[h], h)
  BY <1>1, <1>2 DEF CallInv, Awaited
<1>6. /\ \A t \in Threads, j \in Jobs : Awaits(t, j)' <=> Awaits(t, j)
      /\ \A j \in Jobs : (Queued(j)' <=> Queued(j)) /\ (InWorker(j)' <=> InWorker(j))
  BY <1>1 DEF Awaits, Queued, InWorker, sni_vars, queue_vars
<1>7. ~Queued(h) /\ \A t \in Threads : Awaits(t, h) => ~resumed[t]
  BY <1>1, <1>2, <1>5 DEF CallInv, Owed
<1>8. WorkerHolds' /\ Owed' /\ Awaited' /\ QueuedOnce'
  BY <1>1, <1>6 DEF CallInv, WorkerHolds, Owed, Awaited, QueuedOnce, queue_vars, sni_vars
<1>9. ParamsFollow'
  <2>1. worker' = "resume" /\ thread_id' = thread_id /\ resumed' = resumed
    BY <1>1 DEF sni_vars
  <2>2. \A j \in Jobs : Queued(j)' => params'[j] = Asked(thread_id'[j])
    <3>1. \A j \in Jobs : Queued(j) => params[j] = Asked(thread_id[j]) /\ j # h
      BY <1>7, Zenon DEF CallInv, ParamsFollow
    <3>2. QED
      BY <1>3, <1>6, <2>1, <3>1
  <2>3. \A j \in Jobs : InWorker(j)' =>
           params'[j] = IF worker' = "resume" THEN Answered(thread_id'[j])
                        ELSE Asked(thread_id'[j])
    BY <1>2, <1>4, <1>6, <2>1
  <2>4. \A t \in Threads, j \in Jobs :
           Awaits(t, j)' /\ resumed'[t] => params'[j] = Answered(t)
    <3>1. \A t \in Threads, j \in Jobs :
             Awaits(t, j) /\ resumed[t] => params[j] = Answered(t) /\ j # h
      BY <1>7, Zenon DEF CallInv, ParamsFollow
    <3>2. QED
      BY <1>3, <1>6, <2>1, <3>1
  <2>5. QED
    BY <2>2, <2>3, <2>4, Zenon DEF ParamsFollow, Asked, Answered
<1>10. ParamsSet'
  <2>1. vm.pc = "exec" => vm.job \in Jobs /\ vm.job # h
    BY <1>1, <1>2, NativeOwns
  <2>2. QED
    BY <1>1, <1>3, <2>1 DEF CallInv, ParamsSet
<1>11. QED
  BY <1>1, <1>8, <1>9, <1>10, WorkerRest DEF CallInv

(* The thread whose job has been executed is resumed, and no other. *)
LEMMA ResumeCall ==
    ASSUME TypeOK, ThreadsAgree, CallInv, ResumeThread
    PROVE  CallInv'
<1> DEFINE h == msg[Worker]
           u == thread_id[h]
<1>1. /\ worker = "resume" /\ worker' = "loop" /\ fetch[Worker] = "returned"
      /\ h \in Jobs
      /\ resumed' = [resumed EXCEPT ![u] = TRUE]
      /\ fetch' = [fetch EXCEPT ![Worker] = "idle"]
      /\ UNCHANGED <<thread_id, params, ring_vars, waiting_msg, msg, vm, thread, callback_job>>
  BY DEF ResumeThread, Q!Loop, CallInv, WorkerHolds, job_vars
<1>2. fetch'[Worker] = "idle"
  BY <1>1 DEF TypeOK, Q!TypeOK
<1>3. \A j \in Jobs : /\ Queued(j)' <=> Queued(j)
                      /\ InWorker(j) <=> j = h
                      /\ ~InWorker(j)'
  BY <1>1, <1>2 DEF Queued, InWorker
<1>4. /\ u \in Threads /\ Awaits(u, h)
      /\ ~Queued(h)
      /\ params[h] = Answered(u)
  BY <1>1, <1>3 DEF CallInv, Awaited, Owed, ParamsFollow
<1>5. \A t \in Threads, j \in Jobs : Awaits(t, j)' <=> Awaits(t, j)
  BY <1>1 DEF Awaits
<1>6. \A t \in Threads : resumed'[t] <=> resumed[t] \/ t = u
  BY <1>1, <1>4 DEF TypeOK
<1>7. \A j \in Jobs : Awaits(u, j) => j = h
  BY <1>1, <1>4, AwaitsOne
<1>8. WorkerHolds' /\ QueuedOnce'
  BY <1>1, <1>2 DEF CallInv, WorkerHolds, QueuedOnce
<1>9. Owed'
  BY <1>1, <1>3, <1>4, <1>5, <1>6, <1>7 DEF CallInv, Owed
<1>10. Awaited'
  BY <1>1, <1>3, <1>5 DEF CallInv, Awaited
<1>11. ParamsFollow'
  BY <1>1, <1>3, <1>4, <1>5, <1>6, <1>7 DEF CallInv, ParamsFollow, Asked, Answered
<1>12. ParamsSet'
  BY <1>1 DEF CallInv, ParamsSet
<1>13. thread[u] \in {"native", "on_done"}
  BY <1>1, <1>4, AwaitsOne
<1>14. ResumedAreSuspended'
  BY <1>1, <1>4, <1>6 DEF CallInv, ResumedAreSuspended, Awaits
<1>15. Waiters' = Waiters
  BY <1>1, <1>4, <1>13 DEF Waiters, TypeOK
<1>16. QED
  BY <1>1, <1>8, <1>9, <1>10, <1>11, <1>12, <1>14, <1>15, RingSame DEF CallInv

-----------------------------------------------------------------------------
(* Every step.                                                              *)

(* A fetch that came without a job is never undone. *)
LEMMA IntactBefore == [Next]_vars /\ Intact' => Intact
<1> SUFFICES ASSUME [Next]_vars
             PROVE  empty_returns \subseteq empty_returns'
  BY DEF Intact
<1>1. ASSUME NEW t \in Threads, Enter(t) \/ OnDone(t)
      PROVE  UNCHANGED empty_returns
  BY <1>1 DEF Enter, AllocateJob, AllocateJobWait, AllocateJobFull, OnDone, queue_vars
<1>2. CASE NativeStep
  BY <1>2 DEF NativeStep, Setup, SetupFailed, AsyncExec, AsyncExecFailed, Suspend,
              Q!Post, Q!PostNoMem, queue_vars
<1>3. CASE WorkerStep \/ RunGarbage \/ FetchEnds
  BY <1>3 DEF WorkerStep, FetchJob, RunAction, ResumeThread, RunGarbage, FetchEnds, queue_vars,
              Q!FetchStep, Q!Fetch, Q!Wake, Q!WakeExpired, Q!Take, Q!ReturnEmpty,
              Q!WaitEnds, Q!Expire, Q!Spurious, Q!Loop
<1>4. CASE Initialize \/ UNCHANGED vars
  BY <1>4 DEF Initialize, vars, queue_vars
<1>5. QED
  BY <1>1, <1>2, <1>3, <1>4 DEF Next, Halted

LEMMA InitCall == Init => CallInv
<1> SUFFICES ASSUME Init
             PROVE  CallInv
  OBVIOUS
<1>1. /\ vm.pc = "idle" /\ waiting_msg = <<>> /\ worker = "loop"
      /\ fetch[Worker] = "idle"
      /\ \A t \in Threads : thread[t] = "java" /\ ~resumed[t]
      /\ waiting_thread_offset = 0 /\ free_waiting_thread_offset = 0
  BY DEF Init, Q!Init, Idle
<1>2. \A t \in Threads, j \in Jobs : ~Awaits(t, j)
  BY <1>1 DEF Awaits
<1>3. \A j \in Jobs : ~Queued(j) /\ ~InWorker(j)
  BY <1>1 DEF Queued, InWorker
<1>4. WorkerHolds /\ Owed /\ Awaited /\ QueuedOnce /\ ParamsSet /\ ParamsFollow
  BY <1>1, <1>2, <1>3 DEF WorkerHolds, Owed, Awaited, QueuedOnce, ParamsSet, ParamsFollow
<1>5. ResumedAreSuspended
  BY <1>1 DEF ResumedAreSuspended
<1>6. RingHoldsWaiters
  BY <1>1 DEF RingHoldsWaiters, Occupied, Waiters, Slots
<1>7. QED
  BY <1>4, <1>5, <1>6 DEF CallInv

LEMMA NextCall ==
    ASSUME TypeOK, ThreadsAgree, JobOwnership, CallInv, [Next]_vars, Intact'
    PROVE  CallInv'
<1>1. ASSUME NEW t \in Threads, Enter(t) \/ OnDone(t)
      PROVE  CallInv'
  BY <1>1, AllocateCall, AllocateWaitCall, OnDoneCall DEF Enter
<1>2. CASE NativeStep
  BY <1>2, SetupCall, NativeFailsCall, AsyncExecCall, SuspendCall DEF NativeStep
<1>3. CASE WorkerStep \/ FetchEnds
  BY <1>3, FetchCall, FetchEndsCall, RunActionCall, ResumeCall DEF WorkerStep
<1>4. CASE RunGarbage
  BY <1>4, AsyncWorkerAssumption DEF RunGarbage, CallInv, WorkerHolds
<1>5. CASE Initialize \/ UNCHANGED vars
  BY <1>5, CallSame DEF Initialize, vars, job_vars
<1>6. QED
  BY <1>1, <1>2, <1>3, <1>4, <1>5 DEF Next, Halted

LEMMA Invariant == Spec => []IInv
<1>1. Init => IInv
  BY InitType, InitOwnership, InitCall DEF Init, ThreadsAgree, Idle, IInv
<1>2. IInv /\ [Next]_vars => IInv'
  BY NextType, NextThreadsAgree, NextOwnership, NextCall, IntactBefore DEF IInv
<1>3. QED
  BY <1>1, <1>2, PTL DEF Spec

-----------------------------------------------------------------------------
(* What follows for calls.                                                  *)

(* No completion is lost or signalled twice, in any execution. *)
THEOREM CompletionsOwed == Spec => []CompletionOwed
<1>1. IInv => CompletionOwed
  <2> SUFFICES ASSUME IInv, Intact
               PROVE  CompletionOwed
    BY DEF CompletionOwed
  <2>1. Owed /\ Awaited /\ QueuedOnce
    BY DEF IInv, CallInv
  <2>2. QED
    BY <2>1 DEF CompletionOwed, Owed, Awaited, QueuedOnce
<1>2. QED
  BY <1>1, Invariant, PTL

(* A thread that is due to be called back finds its own result. *)
THEOREM ResultsReady == Spec => []ResultReady
<1>1. IInv => ResultReady
  <2> SUFFICES ASSUME IInv, Intact, NEW t \in Threads, thread[t] = "on_done", resumed[t]
               PROVE  ResultOf(t)
    BY DEF ResultReady
  <2>1. callback_job[t] \in Jobs /\ Awaits(t, callback_job[t])
    BY DEF IInv, ThreadsAgree, Awaits
  <2>2. QED
    BY <2>1 DEF IInv, CallInv, ParamsFollow, Answered, ResultOf
<1>2. QED
  BY <1>1, Invariant, PTL

(* The worker never executes a job twice for one post. *)
THEOREM JobsAreNew == Spec => []NewJobToExecute
<1>1. IInv => NewJobToExecute
  <2> SUFFICES ASSUME IInv, Intact, worker = "loop", fetch[Worker] = "returned"
               PROVE  params[msg[Worker]] = Asked(thread_id[msg[Worker]])
    BY DEF NewJobToExecute, Asked
  <2>1. msg[Worker] \in Jobs /\ InWorker(msg[Worker])
    BY DEF IInv, CallInv, WorkerHolds, InWorker
  <2>2. QED
    BY <2>1 DEF IInv, CallInv, ParamsFollow, Asked
<1>2. QED
  BY <1>1, Invariant, PTL

(* A resume is pending only for a thread that is or will be suspended. *)
THEOREM ResumesMeant == Spec => []NoStrayResume
<1>1. IInv => NoStrayResume
  BY DEF IInv, CallInv, ResumedAreSuspended, NoStrayResume
<1>2. QED
  BY <1>1, Invariant, PTL

-----------------------------------------------------------------------------
(* What follows for the threads that wait for a job.                        *)

(* The threads that have been resumed and have yet to try again. *)
Woken == {t \in Threads : thread[t] = "retry" /\ resumed[t]}

LEMMA WokenFinite ==
    /\ IsFiniteSet(Woken) /\ Cardinality(Woken) \in Nat
    /\ IsFiniteSet(Woken') /\ Cardinality(Woken') \in Nat
<1>1. Woken \in SUBSET Threads /\ Woken' \in SUBSET Threads
  BY DEF Woken
<1>2. QED
  BY <1>1, AsyncWorkerAssumption, FS_Subset, FS_CardinalityType

(* NoJobIdleWhileWaiting, while Intact. *)
JobsAnnounced == ~RingEmpty => Len(free_jobs) <= Cardinality(Woken)

(* Each freed job is announced to one more thread, if any waits. *)
LEMMA FreeJobAnnounced ==
    ASSUME TypeOK, RingHoldsWaiters, JobsAnnounced,
           NEW j \in Jobs, NEW pending \in [Threads -> BOOLEAN], FreeJob(j, pending),
           \A t \in Threads : thread'[t] = "retry" <=> thread[t] = "retry",
           \A t \in Threads : thread[t] = "retry" => pending[t] = resumed[t]
    PROVE  JobsAnnounced'
<1> DEFINE first == waiting_threads[waiting_thread_offset]
<1>1. CASE RingEmpty
  BY <1>1 DEF FreeJob, JobsAnnounced, RingEmpty, ring_vars
<1>2. CASE ~RingEmpty
  <2>1. /\ free_jobs' = <<j>> \o free_jobs
        /\ resumed' = [pending EXCEPT ![first] = TRUE]
    BY <1>2 DEF FreeJob
  <2>2. first \in Threads /\ thread[first] = "retry" /\ ~resumed[first]
    BY <1>2, FirstWaiter DEF Waiters
  <2>3. Woken' = Woken \union {first} /\ first \notin Woken
    BY <2>1, <2>2 DEF Woken
  <2>4. Cardinality(Woken') = Cardinality(Woken) + 1
    BY <2>3, WokenFinite, FS_AddElement
  <2>5. Len(free_jobs') = Len(free_jobs) + 1 /\ Len(free_jobs) \in Nat
    BY <2>1 DEF TypeOK
  <2>6. QED
    BY <1>2, <2>4, <2>5, WokenFinite DEF JobsAnnounced
<1>3. QED
  BY <1>1, <1>2

LEMMA NextAnnounced ==
    ASSUME IInv, Intact, JobsAnnounced, [Next]_vars
    PROVE  JobsAnnounced'
<1>i. TypeOK /\ ThreadsAgree /\ JobOwnership /\ CallInv
  BY DEF IInv
<1>r. RingHoldsWaiters /\ resumed \in [Threads -> BOOLEAN]
  BY <1>i DEF CallInv, TypeOK
<1>s. ASSUME UNCHANGED <<free_jobs, ring_vars>>, Woken' = Woken
      PROVE  JobsAnnounced'
  BY <1>s DEF JobsAnnounced, RingEmpty, ring_vars
<1>1. CASE Initialize
  <2>1. Waiters = {}
    BY <1>1, <1>i DEF Initialize, ThreadsAgree, Waiters
  <2>2. RingEmpty
    BY <2>1, <1>i, <1>r, FirstWaiter
  <2>3. QED
    BY <1>1, <2>2 DEF Initialize, JobsAnnounced, RingEmpty, ring_vars
<1>2. ASSUME NEW t \in Threads, AllocateJob(t)
      PROVE  JobsAnnounced'
  <2>1. /\ resumed' = [resumed EXCEPT ![t] = FALSE]
        /\ thread' = [thread EXCEPT ![t] = "native"]
        /\ UNCHANGED ring_vars
    BY <1>2, <1>i, EnterFacts DEF AllocateJob
  <2>2. Woken' = Woken \ {t}
    BY <2>1, <1>i DEF Woken, TypeOK
  <2>3. Cardinality(Woken') >= Cardinality(Woken) - 1
    BY <2>2, WokenFinite, FS_RemoveElement
  <2>4. Len(free_jobs') = Len(free_jobs) - 1 /\ Len(free_jobs) \in Nat
    BY <1>2, <1>i DEF AllocateJob, TypeOK
  <2>5. RingEmpty' <=> RingEmpty
    BY <2>1 DEF RingEmpty, ring_vars
  <2>6. QED
    BY <2>3, <2>4, <2>5, WokenFinite DEF JobsAnnounced
<1>3. ASSUME NEW t \in Threads, AllocateJobWait(t) \/ AllocateJobFull(t)
      PROVE  JobsAnnounced'
  <2>1. Len(free_jobs') = 0
    BY <1>3 DEF AllocateJobWait, AllocateJobFull, job_vars
  <2>2. QED
    BY <2>1, WokenFinite DEF JobsAnnounced
<1>4. ASSUME NEW t \in Threads, OnDone(t)
      PROVE  JobsAnnounced'
  <2> DEFINE pending == [resumed EXCEPT ![t] = FALSE]
  <2>1. /\ thread[t] = "on_done" /\ callback_job[t] \in Jobs
        /\ FreeJob(callback_job[t], pending) /\ pending \in [Threads -> BOOLEAN]
        /\ thread' = [thread EXCEPT ![t] = "java"]
    BY <1>4, <1>i DEF OnDone, ThreadsAgree, TypeOK
  <2>2. \A u \in Threads : thread'[u] = "retry" <=> thread[u] = "retry"
    BY <2>1, <1>i DEF TypeOK
  <2>3. \A u \in Threads : thread[u] = "retry" => pending[u] = resumed[u]
    BY <2>1, <1>r
  <2>4. QED
    BY <2>1, <2>2, <2>3, <1>i, <1>r, FreeJobAnnounced
<1>5. CASE SetupFailed \/ AsyncExecFailed
  <2>1. /\ vm.pc \in {"setup", "exec"}
        /\ FreeJob(vm.job, resumed)
        /\ thread' = [thread EXCEPT ![vm.thread] = "java"]
    BY <1>5 DEF SetupFailed, AsyncExecFailed
  <2>2. vm.job \in Jobs /\ vm.thread \in Threads /\ thread[vm.thread] = "native"
    BY <2>1, <1>i, NativeOwns
  <2>3. \A u \in Threads : thread'[u] = "retry" <=> thread[u] = "retry"
    BY <2>1, <2>2, <1>i DEF TypeOK
  <2>4. QED
    BY <2>1, <2>2, <2>3, <1>i, <1>r, FreeJobAnnounced
<1>6. CASE Setup \/ AsyncExec
  BY <1>6, <1>s DEF Setup, AsyncExec, Woken, sni_vars
<1>7. CASE Suspend
  <2>1. /\ vm.thread \in Threads /\ thread[vm.thread] = "native"
        /\ thread' = [thread EXCEPT ![vm.thread] = "on_done"]
        /\ UNCHANGED <<resumed, free_jobs, ring_vars>>
    BY <1>7, <1>i, NativeType DEF Suspend, ThreadsAgree, job_vars
  <2>2. Woken' = Woken
    BY <2>1, <1>i DEF Woken, TypeOK
  <2>3. QED
    BY <2>1, <2>2, <1>s
<1>8. CASE FetchJob \/ RunAction \/ RunGarbage \/ FetchEnds \/ UNCHANGED vars
  <2>1. UNCHANGED <<free_jobs, ring_vars, thread, resumed>>
    BY <1>8 DEF FetchJob, RunAction, RunGarbage, FetchEnds, worker_unchanged, vars,
                job_vars, sni_vars
  <2>2. QED
    BY <2>1, <1>s DEF Woken
<1>9. CASE ResumeThread
  <2> DEFINE u == thread_id[msg[Worker]]
  <2>1. u \in Threads /\ thread[u] \in {"native", "on_done"}
    <3>1. msg[Worker] \in Jobs /\ InWorker(msg[Worker])
      BY <1>9, <1>i DEF ResumeThread, CallInv, WorkerHolds, InWorker
    <3>2. u \in Threads /\ Awaits(u, msg[Worker])
      BY <3>1, <1>i DEF CallInv, Awaited
    <3>3. QED
      BY <3>1, <3>2, <1>i, AwaitsOne
  <2>2. /\ resumed' = [resumed EXCEPT ![u] = TRUE]
        /\ UNCHANGED <<free_jobs, ring_vars, thread>>
    BY <1>9 DEF ResumeThread, job_vars
  <2>3. Woken' = Woken
    BY <2>1, <2>2, <1>r DEF Woken
  <2>4. QED
    BY <2>2, <2>3, <1>s
<1>10. QED
  BY <1>1, <1>2, <1>3, <1>4, <1>5, <1>6, <1>7, <1>8, <1>9
     DEF Next, Enter, NativeStep, WorkerStep, Halted

(* A thread waits for a job only while every free job has been announced to *)
(* one that has yet to try again.                                           *)
THEOREM NoJobIdle == Spec => []NoJobIdleWhileWaiting
<1>1. Init => JobsAnnounced
  BY DEF Init, JobsAnnounced, RingEmpty
<1>2. NoJobIdleWhileWaiting <=> (Intact => JobsAnnounced)
  BY DEF NoJobIdleWhileWaiting, JobsAnnounced, Woken
<1>3. IInv /\ NoJobIdleWhileWaiting /\ [Next]_vars => NoJobIdleWhileWaiting'
  <2> SUFFICES ASSUME IInv, Intact => JobsAnnounced, [Next]_vars, Intact'
               PROVE  JobsAnnounced'
    BY <1>2 DEF NoJobIdleWhileWaiting, JobsAnnounced, Woken
  <2>1. QED
    BY NextAnnounced, IntactBefore
<1>4. QED
  BY <1>1, <1>2, <1>3, Invariant, PTL DEF Spec

(* With the waiting list full, as many threads wait in it as it has slots   *)
(* but one.                                                                 *)
LEMMA FullCount ==
    ASSUME TypeOK, RingHoldsWaiters, RingFull
    PROVE  Cardinality(Waiters) = WaitingListSize
<1> DEFINE taken == Slots \ {free_waiting_thread_offset}
<1>1. WaitingListSize \in Nat /\ free_waiting_thread_offset \in Slots
  BY AsyncWorkerAssumption DEF TypeOK
<1>2. IsFiniteSet(Slots) /\ Cardinality(Slots) = WaitingListSize + 1
  BY <1>1, FS_Interval DEF Slots
<1>3. IsFiniteSet(taken) /\ Cardinality(taken) = WaitingListSize
  BY <1>1, <1>2, FS_RemoveElement
<1>4. \A o \in Slots : Occupied(o) <=> o \in taken
  BY AsyncWorkerAssumption DEF Occupied, RingFull, NextSlot, Slots, TypeOK
<1>5. [o \in taken |-> waiting_threads[o]] \in Bijection(taken, Waiters)
  BY <1>4 DEF RingHoldsWaiters, Bijection, Injection, Surjection, IsInjective
<1>6. QED
  BY <1>3, <1>5, FS_Bijection DEF ExistsBijection

(* A native is refused only when the waiting list is full of threads that   *)
(* nobody has resumed.                                                      *)
THEOREM RefusalsJustified == Spec => RefusedOnlyWhenFull
<1>1. IInv /\ [Next]_vars =>
          [\A t \in Threads : Intact /\ thread[t] # "refused" /\ thread'[t] = "refused" =>
              Cardinality(Waiters) = WaitingListSize]_vars
  <2> SUFFICES ASSUME IInv, [Next]_vars, NEW t \in Threads, Intact,
                      thread[t] # "refused", thread'[t] = "refused"
               PROVE  Cardinality(Waiters) = WaitingListSize
    OBVIOUS
  <2>1. TypeOK /\ RingHoldsWaiters
    BY DEF IInv, CallInv
  <2>2. \E u \in Threads : AllocateJobFull(u)
    BY <2>1 DEF Next, Enter, NativeStep, WorkerStep, Halted, Initialize, AllocateJob,
           AllocateJobWait, OnDone, Setup, SetupFailed, AsyncExec, AsyncExecFailed, Suspend,
           FetchJob, RunAction, ResumeThread, RunGarbage, FetchEnds, worker_unchanged, vars,
           sni_vars, TypeOK
  <2>3. RingFull
    BY <2>2 DEF AllocateJobFull
  <2>4. QED
    BY <2>1, <2>3, FullCount
<1>2. QED
  BY <1>1, Invariant, PTL DEF Spec, RefusedOnlyWhenFull

-----------------------------------------------------------------------------
(* The refinement of AsyncCall.  First the sequences it maps to.            *)

LEMMA IsAppend ==
    ASSUME NEW S, NEW s \in Seq(S), NEW r \in Seq(S), NEW x \in S,
           Len(r) = Len(s) + 1,
           \A i \in 1 .. Len(s) : r[i] = s[i],
           r[Len(s) + 1] = x
    PROVE  r = Append(s, x)
<1>1. /\ Append(s, x) \in Seq(S) /\ Len(s) \in Nat
      /\ Len(Append(s, x)) = Len(s) + 1
      /\ \A i \in 1 .. Len(s) : Append(s, x)[i] = s[i]
      /\ Append(s, x)[Len(s) + 1] = x
  BY AppendProperties
<1>2. \A i \in 1 .. Len(r) : i \in 1 .. Len(s) \/ i = Len(s) + 1
  BY <1>1
<1>3. \A i \in 1 .. Len(r) : r[i] = Append(s, x)[i]
  BY <1>1, <1>2
<1>4. QED
  BY <1>1, <1>3, SeqEqual

LEMMA IsTail ==
    ASSUME NEW S, NEW s \in Seq(S), NEW r \in Seq(S), s # <<>>,
           Len(r) = Len(s) - 1,
           \A i \in 1 .. Len(r) : r[i] = s[i + 1]
    PROVE  r = Tail(s)
BY HeadTailProperties, SeqEqual

(* Counting along the circular list. *)
LEMMA RingArithmetic ==
    ASSUME NEW first \in Slots, NEW last \in Slots
    PROVE  /\ RingLengthOf(first, last) \in 0 .. WaitingListSize
           /\ first = last <=> RingLengthOf(first, last) = 0
           /\ NextSlot(last) = first <=> RingLengthOf(first, last) = WaitingListSize
           /\ \A i \in 1 .. RingLengthOf(first, last) :
                 /\ SlotAt(first, i) \in Slots
                 /\ SlotAt(first, i) # last
                 /\ \/ first <= SlotAt(first, i) /\ SlotAt(first, i) < last
                    \/ /\ last < first
                       /\ first <= SlotAt(first, i) \/ SlotAt(first, i) < last
BY AsyncWorkerAssumption DEF RingLengthOf, SlotAt, NextSlot, Slots

LEMMA RingOneMore ==
    ASSUME NEW first \in Slots, NEW last \in Slots, NextSlot(last) # first
    PROVE  /\ RingLengthOf(first, NextSlot(last)) = RingLengthOf(first, last) + 1
           /\ SlotAt(first, RingLengthOf(first, last) + 1) = last
BY AsyncWorkerAssumption DEF RingLengthOf, SlotAt, NextSlot, Slots

LEMMA RingOneLess ==
    ASSUME NEW first \in Slots, NEW last \in Slots, first # last
    PROVE  /\ RingLengthOf(NextSlot(first), last) = RingLengthOf(first, last) - 1
           /\ SlotAt(first, 1) = first
           /\ \A i \in 1 .. RingLengthOf(first, last) - 1 :
                 SlotAt(NextSlot(first), i) = SlotAt(first, i + 1)
BY AsyncWorkerAssumption DEF RingLengthOf, SlotAt, NextSlot, Slots

(* The waiting list as a sequence, before and after a step. *)
WaitingShape ==
    /\ RingLength \in 0 .. WaitingListSize
    /\ waiting \in Seq(Threads)
    /\ Len(waiting) = RingLength
    /\ RingEmpty <=> waiting = <<>>
    /\ RingFull <=> RingLength = WaitingListSize

LEMMA WaitingIsSeq == TypeOK /\ RingHoldsWaiters => WaitingShape
<1> SUFFICES ASSUME TypeOK, RingHoldsWaiters
             PROVE  WaitingShape
  OBVIOUS
<1>1. waiting_thread_offset \in Slots /\ free_waiting_thread_offset \in Slots
  BY DEF TypeOK
<1>2. RingLength \in 0 .. WaitingListSize
  BY <1>1, RingArithmetic DEF RingLength
<1>3. \A i \in 1 .. RingLength : waiting_threads[SlotAt(waiting_thread_offset, i)] \in Threads
  BY <1>1, RingArithmetic DEF RingLength, RingHoldsWaiters, Occupied, Waiters
<1>4. waiting \in Seq(Threads) /\ Len(waiting) = RingLength
  BY <1>2, <1>3 DEF waiting
<1>5. RingEmpty <=> waiting = <<>>
  BY <1>1, <1>2, <1>4, RingArithmetic, EmptySeq DEF RingEmpty, RingLength
<1>6. RingFull <=> RingLength = WaitingListSize
  BY <1>1, RingArithmetic DEF RingFull, RingLength
<1>7. QED
  BY <1>2, <1>4, <1>5, <1>6 DEF WaitingShape

LEMMA WaitingIsSeqNext == TypeOK' /\ RingHoldsWaiters' => WaitingShape'
BY WaitingIsSeq, PTL

LEMMA WaitingSame ==
    ASSUME UNCHANGED ring_vars
    PROVE  waiting' = waiting
BY DEF ring_vars, waiting, RingLength

(* A thread that is put in the waiting list comes last. *)
LEMMA WaitingAppended ==
    ASSUME TypeOK, RingHoldsWaiters, TypeOK', RingHoldsWaiters',
           NEW t \in Threads, ~RingFull,
           waiting_threads' = [waiting_threads EXCEPT ![free_waiting_thread_offset] = t],
           free_waiting_thread_offset' = NextSlot(free_waiting_thread_offset),
           waiting_thread_offset' = waiting_thread_offset
    PROVE  waiting' = Append(waiting, t)
<1> DEFINE first == waiting_thread_offset
           last == free_waiting_thread_offset
<1>1. first \in Slots /\ last \in Slots /\ NextSlot(last) # first
  BY DEF TypeOK, RingFull
<1>2. /\ RingLength' = RingLength + 1
      /\ SlotAt(first, RingLength + 1) = last
  BY <1>1, RingOneMore DEF RingLength
<1>3. \A i \in 1 .. RingLength : SlotAt(first, i) \in Slots /\ SlotAt(first, i) # last
  BY <1>1, RingArithmetic DEF RingLength
<1>4. /\ \A i \in 1 .. RingLength : waiting_threads'[SlotAt(first, i)]
                                        = waiting_threads[SlotAt(first, i)]
      /\ waiting_threads'[last] = t
  BY <1>1, <1>3 DEF TypeOK
<1>5. WaitingShape /\ WaitingShape'
  BY WaitingIsSeq, WaitingIsSeqNext
<1>6. /\ RingLength \in Nat
      /\ 1 .. RingLength \subseteq 1 .. RingLength'
      /\ RingLength + 1 \in 1 .. RingLength'
  BY <1>2, <1>5 DEF WaitingShape
<1>7. waiting' = [i \in 1 .. RingLength' |-> waiting_threads'[SlotAt(first, i)]]
  BY DEF waiting
<1>8. /\ \A i \in 1 .. RingLength : waiting'[i] = waiting[i]
      /\ waiting'[RingLength + 1] = t
  BY <1>2, <1>4, <1>6, <1>7 DEF waiting
<1>9. QED
  BY <1>2, <1>5, <1>8, IsAppend DEF WaitingShape

(* The thread that is resumed was the first. *)
LEMMA WaitingTail ==
    ASSUME TypeOK, RingHoldsWaiters, TypeOK', RingHoldsWaiters', ~RingEmpty,
           UNCHANGED <<waiting_threads, free_waiting_thread_offset>>,
           waiting_thread_offset' = NextSlot(waiting_thread_offset)
    PROVE  /\ waiting # <<>>
           /\ Head(waiting) = waiting_threads[waiting_thread_offset]
           /\ waiting' = Tail(waiting)
<1> DEFINE first == waiting_thread_offset
           last == free_waiting_thread_offset
<1>1. first \in Slots /\ last \in Slots /\ first # last
  BY DEF TypeOK, RingEmpty
<1>2. /\ RingLength' = RingLength - 1
      /\ SlotAt(first, 1) = first
      /\ \A i \in 1 .. RingLength - 1 : SlotAt(NextSlot(first), i) = SlotAt(first, i + 1)
  BY <1>1, RingOneLess DEF RingLength
<1>3. WaitingShape /\ WaitingShape' /\ waiting # <<>>
  BY WaitingIsSeq, WaitingIsSeqNext DEF WaitingShape
<1>4. /\ RingLength \in Nat \ {0}
      /\ \A i \in 1 .. RingLength' : i \in 1 .. RingLength - 1 /\ i + 1 \in 1 .. RingLength
  BY <1>2, <1>3 DEF WaitingShape
<1>5. waiting[1] = waiting_threads[first]
  BY <1>2, <1>4 DEF waiting
<1>6. waiting' = [i \in 1 .. RingLength' |-> waiting_threads[SlotAt(NextSlot(first), i)]]
  BY DEF waiting
<1>7. \A i \in 1 .. RingLength' : waiting'[i] = waiting[i + 1]
  BY <1>2, <1>4, <1>6 DEF waiting
<1>8. waiting' = Tail(waiting)
  BY <1>2, <1>3, <1>7, IsTail DEF WaitingShape
<1>9. QED
  BY <1>3, <1>5, <1>8, HeadTailProperties DEF WaitingShape

(* Where each call is, before and after a step. *)
CallShape ==
    \A t \in Threads :
        /\ thread[t] \in JavaStates => call[t] = "none"
        /\ thread[t] = "retry" => call[t] = IF resumed[t] THEN "woken" ELSE "waiting"
        /\ thread[t] = "native" /\ vm.pc # "suspend" => call[t] = "started"
        /\ \A j \in Jobs : Awaits(t, j) => call[t] = Progress(t, j)

LEMMA CallIsShape == TypeOK /\ ThreadsAgree => CallShape
<1> SUFFICES ASSUME TypeOK, ThreadsAgree, NEW t \in Threads
             PROVE  /\ thread[t] \in JavaStates => call[t] = "none"
                    /\ thread[t] = "retry" =>
                          call[t] = IF resumed[t] THEN "woken" ELSE "waiting"
                    /\ thread[t] = "native" /\ vm.pc # "suspend" => call[t] = "started"
                    /\ \A j \in Jobs : Awaits(t, j) => call[t] = Progress(t, j)
  BY DEF CallShape
<1>1. thread[t] \in JavaStates => call[t] = "none"
  BY DEF call, CallOf, JavaStates
<1>2. thread[t] = "retry" => call[t] = IF resumed[t] THEN "woken" ELSE "waiting"
  BY DEF call, CallOf, JavaStates
<1>3. thread[t] = "native" => call[t] = IF vm.pc = "suspend" THEN Progress(t, vm.job)
                                        ELSE "started"
  BY DEF call, CallOf, JavaStates
<1>4. thread[t] = "on_done" => call[t] = Progress(t, callback_job[t])
  BY DEF call, CallOf, JavaStates
<1>5. ASSUME NEW j \in Jobs, Awaits(t, j)
      PROVE  call[t] = Progress(t, j)
  BY <1>3, <1>4, <1>5 DEF Awaits, ThreadsAgree
<1>6. QED
  BY <1>1, <1>2, <1>3, <1>5

LEMMA CallIsShapeNext == TypeOK' /\ ThreadsAgree' => CallShape'
BY CallIsShape, PTL

(* Every thread is in one of the cases of CallShape. *)
LEMMA CallCases ==
    ASSUME TypeOK, ThreadsAgree, NEW t \in Threads
    PROVE  \/ thread[t] \in JavaStates
           \/ thread[t] = "retry"
           \/ thread[t] = "native" /\ vm.pc # "suspend"
           \/ \E j \in Jobs : Awaits(t, j)
BY NativeType DEF TypeOK, ThreadStates, ThreadsAgree, Awaits

(* How far an awaited job has come. *)
LEMMA ProgressIs ==
    ASSUME TypeOK, CallInv, NEW t \in Threads, NEW j \in Jobs, Awaits(t, j)
    PROVE  /\ resumed[t] => Progress(t, j) = "notified"
           /\ ~resumed[t] /\ params[j].result => Progress(t, j) = "executed"
           /\ ~resumed[t] /\ ~params[j].result => Progress(t, j) = "accepted"
BY DEF Progress, TypeOK, Params

(* A thread whose own state has not changed is where it was with its call. *)
LEMMA CallKept ==
    ASSUME TypeOK, ThreadsAgree, TypeOK', ThreadsAgree', NEW t \in Threads,
           thread'[t] = thread[t], resumed'[t] = resumed[t],
           thread[t] = "native" => (vm.pc = "suspend" <=> vm'.pc = "suspend"),
           \A j \in Jobs : Awaits(t, j) => Awaits(t, j)' /\ params'[j] = params[j]
    PROVE  call'[t] = call[t]
<1>1. CallShape /\ CallShape'
  BY CallIsShape, CallIsShapeNext
<1>2. CASE thread[t] \in JavaStates \/ thread[t] = "retry"
  BY <1>1, <1>2 DEF CallShape, JavaStates
<1>3. CASE thread[t] = "native" /\ vm.pc # "suspend"
  BY <1>1, <1>3 DEF CallShape
<1>4. ASSUME NEW j \in Jobs, Awaits(t, j)
      PROVE  call'[t] = call[t]
  <2>1. call[t] = Progress(t, j) /\ call'[t] = Progress(t, j)'
    BY <1>1, <1>4 DEF CallShape
  <2>2. QED
    BY <1>4, <2>1 DEF Progress
<1>5. QED
  BY <1>2, <1>3, <1>4, CallCases

(* No call changes, or one, or two. *)
LEMMA CallsIsFunction ==
    /\ call = [u \in Threads |-> call[u]]
    /\ call' = [u \in Threads |-> call'[u]]
BY DEF call

LEMMA NoCallChanges ==
    ASSUME \A u \in Threads : call'[u] = call[u]
    PROVE  call' = call
<1>1. [u \in Threads |-> call'[u]] = [u \in Threads |-> call[u]]
  OBVIOUS
<1>2. QED
  BY <1>1, CallsIsFunction

LEMMA OneCallChanges ==
    ASSUME NEW t \in Threads, NEW v, call'[t] = v,
           \A u \in Threads : u # t => call'[u] = call[u]
    PROVE  call' = [call EXCEPT ![t] = v]
BY CallsIsFunction

LEMMA TwoCallsChange ==
    ASSUME NEW t \in Threads, NEW v, NEW s \in Threads, NEW w, s # t,
           call'[t] = v, call'[s] = w,
           \A u \in Threads : u # t /\ u # s => call'[u] = call[u]
    PROVE  call' = [call EXCEPT ![t] = v, ![s] = w]
BY CallsIsFunction

(* The jobs in the order in which they will be executed. *)
AcceptedShape ==
    LET held == IF fetch[Worker] = "returned" THEN 1 ELSE 0
    IN  /\ accepted \in Seq(Threads)
        /\ Len(accepted) = held + Len(waiting_msg)
        /\ held = 1 => accepted[1] = thread_id[msg[Worker]]
        /\ \A i \in 1 .. Len(waiting_msg) : accepted[held + i] = thread_id[waiting_msg[i]]

LEMMA AcceptedIsSeq == TypeOK /\ CallInv => AcceptedShape
<1> SUFFICES ASSUME TypeOK, CallInv
             PROVE  AcceptedShape
  OBVIOUS
<1> DEFINE queued == [i \in 1 .. Len(waiting_msg) |-> thread_id[waiting_msg[i]]]
           held == IF fetch[Worker] = "returned" THEN <<thread_id[msg[Worker]]>> ELSE <<>>
<1>1. Len(waiting_msg) \in Nat /\ \A i \in 1 .. Len(waiting_msg) : waiting_msg[i] \in Jobs
  BY DEF TypeOK, Q!TypeOK
<1>2. \A i \in 1 .. Len(waiting_msg) : thread_id[waiting_msg[i]] \in Threads
  BY <1>1 DEF CallInv, Awaited, Queued
<1>3. queued \in Seq(Threads) /\ Len(queued) = Len(waiting_msg)
  BY <1>1, <1>2
<1>4. fetch[Worker] = "returned" => thread_id[msg[Worker]] \in Threads
  BY DEF CallInv, WorkerHolds, Awaited, InWorker
<1>5. held \in Seq(Threads)
  BY <1>4
<1>6. accepted = held \o queued
  BY DEF accepted
<1>7. QED
  BY <1>1, <1>3, <1>4, <1>5, <1>6, ConcatProperties DEF AcceptedShape

LEMMA AcceptedIsSeqNext == TypeOK' /\ CallInv' => AcceptedShape'
BY AcceptedIsSeq, PTL

LEMMA AcceptedKept ==
    ASSUME TypeOK, CallInv, TypeOK', CallInv',
           UNCHANGED <<waiting_msg, msg>>,
           (fetch[Worker] = "returned")' <=> fetch[Worker] = "returned",
           \A j \in Jobs : Queued(j) \/ InWorker(j) => thread_id'[j] = thread_id[j]
    PROVE  accepted' = accepted
<1>1. AcceptedShape /\ AcceptedShape'
  BY AcceptedIsSeq, AcceptedIsSeqNext
<1>2. /\ Len(waiting_msg) \in Nat
      /\ \A i \in 1 .. Len(waiting_msg) : waiting_msg[i] \in Jobs /\ Queued(waiting_msg[i])
  BY DEF TypeOK, Q!TypeOK, Queued
<1>3. fetch[Worker] = "returned" => msg[Worker] \in Jobs /\ InWorker(msg[Worker])
  BY DEF CallInv, WorkerHolds, InWorker
<1>4. CASE fetch[Worker] = "returned"
  <2>1. /\ accepted \in Seq(Threads) /\ accepted' \in Seq(Threads)
        /\ Len(accepted) = 1 + Len(waiting_msg) /\ Len(accepted') = Len(accepted)
        /\ accepted'[1] = accepted[1]
        /\ \A i \in 1 .. Len(waiting_msg) : accepted'[1 + i] = accepted[1 + i]
    BY <1>1, <1>2, <1>3, <1>4 DEF AcceptedShape
  <2>2. \A k \in 1 .. Len(accepted) : k = 1 \/ (k - 1 \in 1 .. Len(waiting_msg) /\ k = 1 + (k - 1))
    BY <1>2, <2>1
  <2>3. \A k \in 1 .. Len(accepted) : accepted'[k] = accepted[k]
    BY <2>1, <2>2
  <2>4. QED
    BY <2>1, <2>3, SeqEqual
<1>5. CASE fetch[Worker] # "returned"
  <2>1. /\ accepted \in Seq(Threads) /\ accepted' \in Seq(Threads)
        /\ Len(accepted) = Len(waiting_msg) /\ Len(accepted') = Len(accepted)
        /\ \A i \in 1 .. Len(waiting_msg) : accepted'[0 + i] = accepted[0 + i]
    BY <1>1, <1>2, <1>5 DEF AcceptedShape
  <2>2. \A i \in 1 .. Len(accepted) : accepted'[i] = accepted[i]
    BY <1>2, <2>1
  <2>3. QED
    BY <2>1, <2>2, SeqEqual
<1>6. QED
  BY <1>4, <1>5

-----------------------------------------------------------------------------
(* As many calls are in progress as jobs are not free.                      *)

\* The instance counts as the module that instantiates it does.
LEMMA AbstractCardinality ==
    ASSUME NEW S
    PROVE  Abstract!Cardinality(S) = Cardinality(S)
BY DEF Abstract!Cardinality, Cardinality

LEMMA InProgressIsBusy ==
    ASSUME TypeOK, ThreadsAgree
    PROVE  Abstract!InProgress = {t \in Threads : thread[t] \in {"native", "on_done"}}
<1>1. CallShape
  BY CallIsShape
<1>2. \A t \in Threads, j \in Jobs : Progress(t, j) \in {"accepted", "executed", "notified"}
  BY DEF Progress
<1>3. ASSUME NEW t \in Threads
      PROVE  call[t] \in {"started", "accepted", "executed", "notified"}
                <=> thread[t] \in {"native", "on_done"}
  <2>1. CASE thread[t] \in JavaStates \/ thread[t] = "retry"
    BY <1>1, <2>1 DEF CallShape, JavaStates
  <2>2. CASE thread[t] = "native" /\ vm.pc # "suspend"
    BY <1>1, <2>2 DEF CallShape
  <2>3. ASSUME NEW j \in Jobs, Awaits(t, j)
        PROVE  /\ call[t] \in {"accepted", "executed", "notified"}
               /\ thread[t] \in {"native", "on_done"}
    BY <1>1, <1>2, <2>3, AwaitsOne DEF CallShape
  <2>4. QED
    BY <2>1, <2>2, <2>3, CallCases
<1>4. QED
  BY <1>3 DEF Abstract!InProgress

LEMMA InProgressCount ==
    ASSUME TypeOK, ThreadsAgree, JobOwnership, status = "ok"
    PROVE  Cardinality(Abstract!InProgress) = JobCount - Len(free_jobs)
<1> DEFINE busy == {t \in Threads : thread[t] \in {"native", "on_done"}}
           unused == {j \in Jobs : Free(j)}
           jobOf == [t \in busy |-> IF thread[t] = "on_done" THEN callback_job[t] ELSE vm.job]
<1>1. IsFiniteSet(Jobs) /\ Cardinality(Jobs) = JobCount /\ JobCount \in Nat
  BY AsyncWorkerAssumption, FS_Interval DEF Jobs
<1>2. /\ Len(free_jobs) \in Nat
      /\ \A i \in 1 .. Len(free_jobs) : free_jobs[i] \in Jobs
      /\ FreeOnce
  BY OwnershipParts DEF TypeOK
<1>3. IsFiniteSet(1 .. Len(free_jobs)) /\ Cardinality(1 .. Len(free_jobs)) = Len(free_jobs)
  BY <1>2, FS_Interval
<1>4. [i \in 1 .. Len(free_jobs) |-> free_jobs[i]] \in Bijection(1 .. Len(free_jobs), unused)
  BY <1>2 DEF FreeOnce, Free, Bijection, Injection, Surjection, IsInjective
<1>5. Cardinality(unused) = Len(free_jobs)
  BY <1>3, <1>4, FS_Bijection DEF ExistsBijection
<1>6. /\ IsFiniteSet(Jobs \ unused)
      /\ Cardinality(Jobs \ unused) = JobCount - Len(free_jobs)
  <2>1. Jobs \cap unused = unused
    OBVIOUS
  <2> HIDE DEF unused
  <2>2. /\ IsFiniteSet(Jobs \ unused)
        /\ Cardinality(Jobs \ unused) = Cardinality(Jobs) - Cardinality(Jobs \cap unused)
    BY <1>1, FS_Difference
  <2>3. QED
    BY <1>1, <1>5, <2>1, <2>2
<1>7. \A t \in busy : /\ jobOf[t] \in Jobs \ unused
                      /\ thread[t] = "native" => vm.pc # "idle" /\ vm.thread = t
  BY NativeType DEF ThreadsAgree, JobOwnership, HeldByNative, HeldByThread
<1>8. \A s, t \in busy : jobOf[s] = jobOf[t] => s = t
  BY <1>7, NativeType DEF ThreadsAgree, JobOwnership, HeldByNative, HeldByThread
<1>9. \A j \in Jobs \ unused : \E t \in busy : jobOf[t] = j
  BY NativeType DEF ThreadsAgree, JobOwnership, HeldByNative, HeldByThread
<1>10. jobOf \in Bijection(busy, Jobs \ unused)
  BY <1>7, <1>8, <1>9 DEF Bijection, Injection, Surjection, IsInjective
<1>11. Cardinality(busy) = Cardinality(Jobs \ unused)
  <2>1. ExistsBijection(busy, Jobs \ unused)
    BY <1>10 DEF ExistsBijection
  <2>2. IsFiniteSet(busy)
    BY AsyncWorkerAssumption, FS_Subset
  <2>3. QED
    BY <2>1, <2>2, FS_Bijection
<1>12. QED
  BY <1>6, <1>11, InProgressIsBusy

-----------------------------------------------------------------------------
(* The end of a call.                                                       *)
LEMMA FinishRefined ==
    ASSUME TypeOK, ThreadsAgree, CallInv, TypeOK', ThreadsAgree', CallInv',
           NEW t \in Threads, thread[t] \in {"native", "on_done"},
           NEW j \in Jobs, NEW pending \in [Threads -> BOOLEAN], FreeJob(j, pending),
           \A u \in Threads : u # t => pending[u] = resumed[u],
           \A u \in Threads : u # t => thread[u] # "native",
           \A u \in Threads : u # t => callback_job'[u] = callback_job[u],
           thread' = [thread EXCEPT ![t] = "java"], vm' = Idle, UNCHANGED params
    PROVE  Abstract!Finish(t)
<1>1. /\ thread'[t] = "java"
      /\ \A u \in Threads : u # t => thread'[u] = thread[u]
  BY DEF TypeOK
<1>2. call'[t] = "none"
  BY <1>1, CallIsShapeNext DEF CallShape, JavaStates
<1>3. ASSUME NEW u \in Threads, u # t, resumed'[u] = resumed[u]
      PROVE  call'[u] = call[u]
  <2>1. \A k \in Jobs : Awaits(u, k) => Awaits(u, k)' /\ params'[k] = params[k]
    BY <1>1, <1>3 DEF Awaits, ThreadsAgree
  <2>2. QED
    BY <1>1, <1>3, <2>1, CallKept
<1>4. RingHoldsWaiters /\ RingHoldsWaiters' /\ WaitingShape
  BY WaitingIsSeq DEF CallInv
<1>5. CASE RingEmpty
  <2>1. resumed' = pending /\ UNCHANGED ring_vars
    BY <1>5 DEF FreeJob
  <2>2. call' = [call EXCEPT ![t] = "none"]
    BY <1>2, <1>3, <2>1, OneCallChanges
  <2>3. waiting = <<>> /\ waiting' = waiting
    BY <1>4, <1>5, <2>1, WaitingSame DEF WaitingShape
  <2>4. QED
    BY <2>2, <2>3 DEF Abstract!Finish
<1>6. CASE ~RingEmpty
  <2> DEFINE first == waiting_threads[waiting_thread_offset]
  <2>1. /\ resumed' = [pending EXCEPT ![first] = TRUE]
        /\ waiting_thread_offset' = NextSlot(waiting_thread_offset)
        /\ UNCHANGED <<waiting_threads, free_waiting_thread_offset>>
    BY <1>6 DEF FreeJob
  <2>2. /\ waiting # <<>>
        /\ Head(waiting) = first
        /\ waiting' = Tail(waiting)
    BY <1>4, <1>6, <2>1, WaitingTail
  <2>3. first \in Threads /\ thread[first] = "retry" /\ first # t
    BY <1>4, <1>6, FirstWaiter DEF Waiters
  <2>4. /\ resumed'[first]
        /\ \A u \in Threads : u # t /\ u # first => resumed'[u] = resumed[u]
    BY <2>1, <2>3
  <2>5. call'[first] = "woken"
    BY <1>1, <2>3, <2>4, CallIsShapeNext DEF CallShape
  <2>6. \A u \in Threads : u # t /\ u # first => call'[u] = call[u]
    BY <1>3, <2>4
  <2>7. call' = [call EXCEPT ![t] = "none", ![first] = "woken"]
    BY <1>2, <2>3, <2>5, <2>6, TwoCallsChange
  <2>8. QED
    BY <2>2, <2>7 DEF Abstract!Finish
<1>7. QED
  BY <1>5, <1>6

-----------------------------------------------------------------------------
(* Each step of the worker and its clients is a step of AsyncCall, or none. *)

Sound == TypeOK /\ ThreadsAgree /\ JobOwnership /\ CallInv

(* A step that moves no call. *)
LEMMA StutterRefined ==
    ASSUME Sound, Sound',
           \A t \in Threads : thread'[t] = thread[t] \/ Awaits(t, vm.job),
           UNCHANGED <<ring_vars, resumed>>,
           \A t \in Threads :
              thread[t] = "native" => (vm.pc = "suspend" <=> vm'.pc = "suspend")
                                        \/ Awaits(t, vm.job),
           \A t \in Threads, j \in Jobs :
              Awaits(t, j) => Awaits(t, j)' /\ params'[j] = params[j]
    PROVE  UNCHANGED <<call, waiting>>
<1>1. ASSUME NEW t \in Threads, NEW j \in Jobs, Awaits(t, j)
      PROVE  call'[t] = call[t]
  <2>1. call[t] = Progress(t, j) /\ call'[t] = Progress(t, j)'
    BY <1>1, CallIsShape, CallIsShapeNext DEF Sound, CallShape
  <2>2. QED
    BY <1>1, <2>1 DEF Progress
<1>2. ASSUME NEW t \in Threads, ~ \E j \in Jobs : Awaits(t, j)
      PROVE  call'[t] = call[t]
  <2>1. ~Awaits(t, vm.job)
    BY <1>2, NativeType DEF Sound, Awaits, ThreadsAgree
  <2>2. QED
    BY <1>2, <2>1, CallKept DEF Sound
<1>3. call' = call
  BY <1>1, <1>2, NoCallChanges
<1>4. QED
  BY <1>3, WaitingSame

LEMMA EnterRefined ==
    ASSUME Sound, Sound', NEW t \in Threads, EnterNative(t),
           \A u \in Threads : u # t => thread'[u] = thread[u],
           UNCHANGED <<params, callback_job>>, vm'.pc # "suspend"
    PROVE  /\ call[t] \in {"none", "woken"}
           /\ call[t] = "woken" <=> thread[t] = "retry"
           /\ \A u \in Threads : u # t => call'[u] = call[u]
           /\ Cardinality(Abstract!InProgress) = JobCount - Len(free_jobs)
<1>1. /\ thread[t] \in JavaStates \/ (thread[t] = "retry" /\ resumed[t])
      /\ vm.pc = "idle" /\ status = "ok"
  BY DEF EnterNative, Idle
<1>2. /\ call[t] \in {"none", "woken"}
      /\ call[t] = "woken" <=> thread[t] = "retry"
  BY <1>1, CallIsShape DEF Sound, CallShape, JavaStates
<1>3. resumed' = [resumed EXCEPT ![t] = FALSE]
  BY EnterFacts DEF Sound
<1>4. ASSUME NEW u \in Threads, u # t
      PROVE  call'[u] = call[u]
  <2>1. resumed'[u] = resumed[u]
    BY <1>3, <1>4 DEF Sound, TypeOK
  <2>2. \A j \in Jobs : Awaits(u, j) => Awaits(u, j)' /\ params'[j] = params[j]
    BY <1>1, <1>4 DEF Awaits
  <2>3. QED
    BY <1>1, <1>4, <2>1, <2>2, CallKept DEF Sound
<1>5. QED
  BY <1>1, <1>2, <1>4, InProgressCount DEF Sound

LEMMA AllocateRefined ==
    ASSUME Sound, Sound', NEW t \in Threads, AllocateJob(t)
    PROVE  Abstract!Start(t) /\ UNCHANGED accepted
<1>1. /\ EnterNative(t)
      /\ thread'[t] = "native" /\ vm'.pc = "setup"
      /\ \A u \in Threads : u # t => thread'[u] = thread[u]
      /\ UNCHANGED <<thread_id, params, ring_vars, queue_vars, callback_job>>
  BY DEF AllocateJob, Sound, TypeOK
<1>2. /\ call[t] \in {"none", "woken"}
      /\ \A u \in Threads : u # t => call'[u] = call[u]
      /\ Cardinality(Abstract!InProgress) = JobCount - Len(free_jobs)
  BY <1>1, EnterRefined
<1>3. Cardinality(Abstract!InProgress) < JobCount
  <2>1. Len(free_jobs) \in Nat \ {0}
    BY DEF AllocateJob, Sound, TypeOK
  <2>2. QED
    BY <1>2, <2>1, AsyncWorkerAssumption
<1>4. call'[t] = "started"
  BY <1>1, CallIsShapeNext DEF Sound, CallShape
<1>5. call' = [call EXCEPT ![t] = "started"]
  BY <1>2, <1>4, OneCallChanges
<1>6. waiting' = waiting
  BY <1>1, WaitingSame
<1>7. accepted' = accepted
  BY <1>1, AcceptedKept DEF Sound, queue_vars
<1>8. QED
  BY <1>2, <1>3, <1>5, <1>6, <1>7, AbstractCardinality DEF Abstract!Start

LEMMA AllocateWaitRefined ==
    ASSUME Sound, Sound', NEW t \in Threads, AllocateJobWait(t)
    PROVE  Abstract!Wait(t)
<1>1. /\ EnterNative(t)
      /\ thread'[t] = "retry" /\ vm'.pc # "suspend"
      /\ \A u \in Threads : u # t => thread'[u] = thread[u]
      /\ Len(free_jobs) = 0 /\ ~RingFull
      /\ UNCHANGED <<thread_id, params, queue_vars, callback_job>>
  BY DEF AllocateJobWait, EnterNative, Idle, Sound, TypeOK, job_vars
<1>2. /\ call[t] \in {"none", "woken"}
      /\ \A u \in Threads : u # t => call'[u] = call[u]
      /\ Cardinality(Abstract!InProgress) = JobCount
  BY <1>1, EnterRefined, AsyncWorkerAssumption
<1>3. /\ waiting' = Append(waiting, t)
      /\ Len(waiting) < WaitingListSize
  <2>1. RingHoldsWaiters /\ RingHoldsWaiters' /\ TypeOK /\ TypeOK'
    BY DEF Sound, CallInv
  <2>2. waiting' = Append(waiting, t)
    BY <2>1, WaitingAppended DEF AllocateJobWait
  <2>3. Len(waiting) \in 0 .. WaitingListSize /\ Len(waiting) # WaitingListSize
    BY <1>1, <2>1, WaitingIsSeq DEF WaitingShape
  <2>4. QED
    BY <2>2, <2>3, AsyncWorkerAssumption
<1>4. ~resumed'[t]
  BY <1>1, EnterFacts DEF Sound, TypeOK
<1>5. call' = [call EXCEPT ![t] = "waiting"]
  <2>1. call'[t] = "waiting"
    BY <1>1, <1>4, CallIsShapeNext DEF Sound, CallShape
  <2>2. QED
    BY <1>2, <2>1, OneCallChanges
<1>6. accepted' = accepted
  BY <1>1, AcceptedKept DEF Sound, queue_vars
<1>7. QED
  BY <1>2, <1>3, <1>5, <1>6, AbstractCardinality DEF Abstract!Wait

LEMMA AllocateFullRefined ==
    ASSUME Sound, Sound', NEW t \in Threads, AllocateJobFull(t)
    PROVE  Abstract!Refuse(t) \/ UNCHANGED <<call, waiting, accepted>>
<1>1. /\ EnterNative(t)
      /\ thread'[t] = "refused" /\ vm'.pc # "suspend"
      /\ \A u \in Threads : u # t => thread'[u] = thread[u]
      /\ Len(free_jobs) = 0 /\ RingFull
      /\ UNCHANGED <<thread_id, params, ring_vars, queue_vars, callback_job>>
  BY DEF AllocateJobFull, EnterNative, Idle, Sound, TypeOK, job_vars
<1>2. /\ call[t] \in {"none", "woken"}
      /\ \A u \in Threads : u # t => call'[u] = call[u]
      /\ Cardinality(Abstract!InProgress) = JobCount
  BY <1>1, EnterRefined, AsyncWorkerAssumption
<1>3. waiting' = waiting /\ Len(waiting) = WaitingListSize
  BY <1>1, WaitingSame, WaitingIsSeq DEF Sound, CallInv, WaitingShape
<1>4. accepted' = accepted
  BY <1>1, AcceptedKept DEF Sound, queue_vars
<1>5. call'[t] = "none"
  BY <1>1, CallIsShapeNext DEF Sound, CallShape, JavaStates
<1>6. CASE call[t] = "woken"
  <2>1. call' = [call EXCEPT ![t] = "none"]
    BY <1>2, <1>5, OneCallChanges
  <2>2. QED
    BY <1>2, <1>3, <1>4, <1>6, <2>1, AbstractCardinality DEF Abstract!Refuse
<1>7. CASE call[t] = "none"
  BY <1>2, <1>3, <1>4, <1>5, <1>7, NoCallChanges
<1>8. QED
  BY <1>2, <1>6, <1>7

LEMMA SetupRefined ==
    ASSUME Sound, Sound', Setup
    PROVE  UNCHANGED <<call, waiting, accepted>>
<1>1. /\ vm.pc = "setup" /\ vm'.pc = "exec"
      /\ vm.job \in Jobs
      /\ \A j \in Jobs : j # vm.job => params'[j] = params[j]
      /\ UNCHANGED <<thread_id, ring_vars, queue_vars, thread, callback_job, resumed>>
  <2>1. vm \in Natives /\ vm' = [vm EXCEPT !.pc = "exec"]
    BY NativeType DEF Setup, Sound
  <2>2. QED
    BY <2>1 DEF Setup, Natives, Sound, TypeOK, sni_vars
<1>2. \A t \in Threads : ~Awaits(t, vm.job)
  BY <1>1, NativeOwns DEF Sound
<1>3. \A t \in Threads, j \in Jobs :
          Awaits(t, j) => Awaits(t, j)' /\ params'[j] = params[j]
  BY <1>1, <1>2 DEF Awaits
<1>4. UNCHANGED <<call, waiting>>
  BY <1>1, <1>3, StutterRefined
<1>5. QED
  BY <1>1, <1>4, AcceptedKept DEF Sound, queue_vars

LEMMA NativeFailsRefined ==
    ASSUME Sound, Sound', SetupFailed \/ AsyncExecFailed
    PROVE  Abstract!Fail(vm.thread)
<1>1. /\ vm.pc \in {"setup", "exec"}
      /\ FreeJob(vm.job, resumed)
      /\ vm' = Idle
      /\ thread' = [thread EXCEPT ![vm.thread] = "java"]
      /\ UNCHANGED <<params, callback_job, waiting_msg, msg>>
      /\ \A j \in Jobs : j # vm.job => thread_id'[j] = thread_id[j]
  BY DEF SetupFailed, AsyncExecFailed, Q!PostNoMem, queue_vars, Sound, TypeOK
<1>2. (fetch[Worker] = "returned")' <=> fetch[Worker] = "returned"
  BY DEF SetupFailed, AsyncExecFailed, Q!PostNoMem, Q!Signal, Q!At, queue_vars, Sound, TypeOK,
         Q!TypeOK
<1>3. /\ vm.thread \in Threads /\ vm.job \in Jobs /\ thread[vm.thread] = "native"
      /\ ~Queued(vm.job) /\ ~InWorker(vm.job)
  BY <1>1, NativeOwns DEF Sound
<1>4. call[vm.thread] = "started"
  BY <1>1, <1>3, CallIsShape DEF Sound, CallShape
<1>5. accepted' = accepted
  BY <1>1, <1>2, <1>3, AcceptedKept DEF Sound
<1>6. Abstract!Finish(vm.thread)
  <2>1. \A u \in Threads : u # vm.thread => thread[u] # "native"
    BY DEF Sound, ThreadsAgree
  <2>2. resumed \in [Threads -> BOOLEAN]
    BY DEF Sound, TypeOK
  <2>3. QED
    BY <1>1, <1>3, <2>1, <2>2, FinishRefined DEF Sound
<1>7. QED
  BY <1>4, <1>5, <1>6 DEF Abstract!Fail

LEMMA AsyncExecRefined ==
    ASSUME Sound, Sound', AsyncExec
    PROVE  Abstract!Accept(vm.thread)
<1> DEFINE u == vm.thread
           h == vm.job
<1>1. /\ vm \in Natives /\ vm.pc = "exec"
      /\ thread_id' = [thread_id EXCEPT ![h] = u]
      /\ waiting_msg' = Append(waiting_msg, h)
      /\ vm' = [vm EXCEPT !.pc = "suspend"]
      /\ UNCHANGED <<params, ring_vars, msg, thread, callback_job, resumed>>
  BY NativeType DEF AsyncExec, Q!Post, Q!Add, sni_vars, Sound
<1>2. (fetch[Worker] = "returned")' <=> fetch[Worker] = "returned"
  BY DEF AsyncExec, Q!Post, Q!Signal, Q!At, Sound, TypeOK, Q!TypeOK
<1>3. /\ vm'.pc = "suspend" /\ vm'.job = h /\ vm'.thread = u
      /\ h \in Jobs /\ u \in Threads
  BY <1>1 DEF Natives
<1>4. /\ thread[u] = "native" /\ ~resumed[u]
      /\ ~Queued(h) /\ ~InWorker(h)
      /\ \A t \in Threads, j \in Jobs :
            Awaits(t, j) <=> thread[t] = "on_done" /\ callback_job[t] = j
  BY <1>1, NativeOwns DEF Sound
<1>5. /\ thread_id'[h] = u
      /\ \A j \in Jobs : j # h => thread_id'[j] = thread_id[j]
  BY <1>1, <1>3 DEF Sound, TypeOK
<1>6. call[u] = "started"
  BY <1>1, <1>3, <1>4, CallIsShape DEF Sound, CallShape
<1>7. call'[u] = "accepted"
  <2>1. Awaits(u, h)' /\ ~resumed'[u]
    BY <1>1, <1>3, <1>4 DEF Awaits
  <2>2. call'[u] = Progress(u, h)'
    BY <1>3, <2>1, CallIsShapeNext DEF Sound, CallShape
  <2>3. params[h].result = FALSE
    BY <1>1 DEF Sound, CallInv, ParamsSet, Asked
  <2>4. QED
    BY <1>1, <2>1, <2>2, <2>3 DEF Progress
<1>8. ASSUME NEW t \in Threads, t # u
      PROVE  call'[t] = call[t]
  <2>1. thread[t] # "native"
    BY <1>8 DEF Sound, ThreadsAgree
  <2>2. \A j \in Jobs : Awaits(t, j) => Awaits(t, j)' /\ params'[j] = params[j]
    BY <1>1, <1>4 DEF Awaits
  <2>3. QED
    BY <1>1, <2>1, <2>2, CallKept DEF Sound
<1>9. call' = [call EXCEPT ![u] = "accepted"]
  BY <1>3, <1>7, <1>8, OneCallChanges
<1>10. accepted' = Append(accepted, u)
  <2>1. /\ Len(waiting_msg) \in Nat
        /\ Len(waiting_msg') = Len(waiting_msg) + 1
        /\ waiting_msg'[Len(waiting_msg) + 1] = h
        /\ \A i \in 1 .. Len(waiting_msg) :
              /\ waiting_msg'[i] = waiting_msg[i]
              /\ waiting_msg[i] \in Jobs
              /\ waiting_msg[i] # h
    BY <1>1, <1>3, <1>4 DEF Sound, TypeOK, Q!TypeOK, Queued
  <2>2. \A i \in 1 .. Len(waiting_msg) :
            i \in 1 .. Len(waiting_msg') /\ thread_id'[waiting_msg'[i]] = thread_id[waiting_msg[i]]
    BY <1>5, <2>1
  <2>3. /\ Len(waiting_msg) + 1 \in 1 .. Len(waiting_msg')
        /\ thread_id'[waiting_msg'[Len(waiting_msg) + 1]] = u
    BY <1>5, <2>1
  <2>4. AcceptedShape /\ AcceptedShape'
    BY AcceptedIsSeq, AcceptedIsSeqNext DEF Sound
  <2>5. CASE fetch[Worker] = "returned"
    <3>1. msg[Worker] \in Jobs /\ msg[Worker] # h
      BY <1>4, <2>5 DEF Sound, CallInv, WorkerHolds, InWorker
    <3>2. /\ accepted \in Seq(Threads) /\ accepted' \in Seq(Threads)
          /\ Len(accepted) = 1 + Len(waiting_msg)
          /\ Len(accepted') = 1 + Len(waiting_msg')
          /\ accepted'[1] = accepted[1]
          /\ \A i \in 1 .. Len(waiting_msg) : accepted'[1 + i] = accepted[1 + i]
          /\ accepted'[1 + (Len(waiting_msg) + 1)] = u
      BY <1>1, <1>2, <1>5, <2>2, <2>3, <2>4, <2>5, <3>1 DEF AcceptedShape
    <3>3. \A k \in 1 .. Len(accepted) :
              k = 1 \/ (k - 1 \in 1 .. Len(waiting_msg) /\ k = 1 + (k - 1))
      BY <2>1, <3>2
    <3>4. \A k \in 1 .. Len(accepted) : accepted'[k] = accepted[k]
      BY <3>2, <3>3
    <3>5. /\ Len(accepted') = Len(accepted) + 1
          /\ 1 + (Len(waiting_msg) + 1) = Len(accepted) + 1
      BY <2>1, <3>2
    <3>6. QED
      BY <1>3, <3>2, <3>4, <3>5, IsAppend
  <2>6. CASE fetch[Worker] # "returned"
    <3>1. /\ accepted \in Seq(Threads) /\ accepted' \in Seq(Threads)
          /\ Len(accepted) = 0 + Len(waiting_msg)
          /\ Len(accepted') = 0 + Len(waiting_msg')
          /\ \A i \in 1 .. Len(waiting_msg) : accepted'[0 + i] = accepted[0 + i]
          /\ accepted'[0 + (Len(waiting_msg) + 1)] = u
      BY <1>2, <2>2, <2>3, <2>4, <2>6 DEF AcceptedShape
    <3>2. /\ Len(accepted') = Len(accepted) + 1
          /\ 0 + (Len(waiting_msg) + 1) = Len(accepted) + 1
          /\ \A i \in 1 .. Len(accepted) : i \in 1 .. Len(waiting_msg) /\ 0 + i = i
      BY <2>1, <3>1
    <3>3. \A i \in 1 .. Len(accepted) : accepted'[i] = accepted[i]
      BY <3>1, <3>2
    <3>4. QED
      BY <1>3, <3>1, <3>2, <3>3, IsAppend
  <2>7. QED
    BY <2>5, <2>6
<1>11. QED
  BY <1>1, <1>6, <1>9, <1>10, WaitingSame DEF Abstract!Accept

LEMMA SuspendRefined ==
    ASSUME Sound, Sound', Suspend
    PROVE  UNCHANGED <<call, waiting, accepted>>
<1>1. /\ vm.pc = "suspend" /\ vm.thread \in Threads /\ vm.job \in Jobs
      /\ thread' = [thread EXCEPT ![vm.thread] = "on_done"]
      /\ callback_job' = [callback_job EXCEPT ![vm.thread] = vm.job]
      /\ UNCHANGED <<thread_id, params, ring_vars, queue_vars, resumed>>
  BY NativeType DEF Suspend, Sound, job_vars
<1>2. /\ Awaits(vm.thread, vm.job)
      /\ \A t \in Threads : thread[t] = "native" => t = vm.thread
      /\ \A t \in Threads : t # vm.thread => thread'[t] = thread[t]
  BY <1>1 DEF Awaits, Sound, ThreadsAgree, TypeOK
<1>3. \A t \in Threads, j \in Jobs :
          Awaits(t, j) => Awaits(t, j)' /\ params'[j] = params[j]
  <2>1. thread[vm.thread] = "native"
    BY <1>1 DEF Sound, ThreadsAgree
  <2>2. QED
    BY <1>1, <2>1 DEF Awaits, Sound, TypeOK
<1>4. UNCHANGED <<call, waiting>>
  BY <1>1, <1>2, <1>3, StutterRefined
<1>5. QED
  BY <1>1, <1>4, AcceptedKept DEF Sound, queue_vars

LEMMA OnDoneRefined ==
    ASSUME Sound, Sound', NEW t \in Threads, OnDone(t)
    PROVE  Abstract!Return(t)
<1> DEFINE pending == [resumed EXCEPT ![t] = FALSE]
<1>1. /\ vm.pc = "idle" /\ vm' = Idle /\ thread[t] = "on_done" /\ resumed[t]
      /\ callback_job[t] \in Jobs
      /\ FreeJob(callback_job[t], pending) /\ pending \in [Threads -> BOOLEAN]
      /\ thread' = [thread EXCEPT ![t] = "java"]
      /\ callback_job' = [callback_job EXCEPT ![t] = NoJob]
      /\ UNCHANGED <<thread_id, params, queue_vars>>
  BY DEF OnDone, Idle, ThreadsAgree, TypeOK, Sound
<1>2. call[t] = "notified"
  <2>1. Awaits(t, callback_job[t])
    BY <1>1 DEF Awaits
  <2>2. QED
    BY <1>1, <2>1, CallIsShape, ProgressIs DEF Sound, CallShape
<1>3. accepted' = accepted
  BY <1>1, AcceptedKept DEF Sound, queue_vars
<1>4. Abstract!Finish(t)
  <2>1. \A u \in Threads : u # t =>
            pending[u] = resumed[u] /\ thread[u] # "native" /\ callback_job'[u] = callback_job[u]
    BY <1>1 DEF Sound, TypeOK, ThreadsAgree
  <2>2. QED
    BY <1>1, <2>1, FinishRefined DEF Sound
<1>5. QED
  BY <1>2, <1>3, <1>4 DEF Abstract!Return

(* The steps of the worker leave alone what the waiting list maps to. *)
LEMMA WorkerStutters ==
    ASSUME Sound, Sound', UNCHANGED <<params, ring_vars, vm, sni_vars>>
    PROVE  UNCHANGED <<call, waiting>>
<1>1. \A t \in Threads, j \in Jobs :
          Awaits(t, j) => Awaits(t, j)' /\ params'[j] = params[j]
  BY DEF Awaits, sni_vars
<1>2. QED
  BY <1>1, StutterRefined DEF sni_vars

LEMMA FetchRefined ==
    ASSUME Sound, Sound', FetchJob, Intact'
    PROVE  UNCHANGED <<call, waiting, accepted>>
<1>1. /\ UNCHANGED <<thread_id, params, ring_vars, vm, sni_vars>>
      /\ fetch[Worker] # "returned"
  BY DEF FetchJob, worker_unchanged, job_vars, Q!FetchStep, Q!Fetch, Q!Wake, Q!WakeExpired
<1>2. UNCHANGED <<call, waiting>>
  BY <1>1, WorkerStutters
<1>3. CASE UNCHANGED <<waiting_msg, msg>> /\ fetch' = [fetch EXCEPT ![Worker] = "waiting"]
  <2>1. fetch'[Worker] # "returned"
    BY <1>3 DEF Sound, TypeOK, Q!TypeOK
  <2>2. QED
    BY <1>1, <1>2, <1>3, <2>1, AcceptedKept DEF Sound
<1>4. CASE Q!Take(Worker)
  <2>1. /\ waiting_msg # <<>> /\ waiting_msg \in Seq(Jobs)
        /\ msg'[Worker] = Head(waiting_msg)
        /\ waiting_msg' = Tail(waiting_msg)
        /\ fetch'[Worker] = "returned"
    BY <1>4 DEF Q!Take, Sound, TypeOK, Q!TypeOK
  <2>2. /\ Len(waiting_msg) \in Nat \ {0}
        /\ msg'[Worker] = waiting_msg[1]
        /\ Len(waiting_msg') = Len(waiting_msg) - 1
        /\ \A i \in 1 .. Len(waiting_msg') : waiting_msg'[i] = waiting_msg[i + 1]
    BY <2>1
  <2>3. AcceptedShape /\ AcceptedShape'
    BY AcceptedIsSeq, AcceptedIsSeqNext DEF Sound
  <2>4. /\ accepted \in Seq(Threads)
        /\ Len(accepted) = 0 + Len(waiting_msg)
        /\ \A i \in 1 .. Len(waiting_msg) : accepted[0 + i] = thread_id[waiting_msg[i]]
    BY <1>1, <2>3 DEF AcceptedShape
  <2>5. /\ accepted' \in Seq(Threads)
        /\ Len(accepted') = 1 + Len(waiting_msg')
        /\ accepted'[1] = thread_id[msg'[Worker]]
        /\ \A i \in 1 .. Len(waiting_msg') : accepted'[1 + i] = thread_id[waiting_msg'[i]]
    BY <1>1, <2>1, <2>3 DEF AcceptedShape
  <2>6. Len(accepted') = Len(accepted) /\ Len(accepted) = Len(waiting_msg)
    BY <2>2, <2>4, <2>5
  <2>7. \A k \in 1 .. Len(accepted) : accepted'[k] = accepted[k]
    <3>1. SUFFICES ASSUME NEW k \in 1 .. Len(accepted)
                   PROVE  accepted'[k] = accepted[k]
      OBVIOUS
    <3>2. accepted[k] = thread_id[waiting_msg[k]]
      <4>1. 0 + k = k /\ k \in 1 .. Len(waiting_msg)
        BY <2>2, <2>6
      <4>2. QED
        BY <2>4, <4>1
    <3>3. CASE k = 1
      BY <2>2, <2>5, <3>2, <3>3
    <3>4. CASE k # 1
      <4>1. k - 1 \in 1 .. Len(waiting_msg') /\ 1 + (k - 1) = k /\ (k - 1) + 1 = k
        BY <2>2, <2>6, <3>4
      <4>2. waiting_msg'[k - 1] = waiting_msg[k] /\ accepted'[k] = thread_id[waiting_msg'[k - 1]]
        BY <2>2, <2>5, <4>1
      <4>3. QED
        BY <3>2, <4>2
    <3>5. QED
      BY <3>3, <3>4
  <2>8. accepted' = accepted
    BY <2>4, <2>5, <2>6, <2>7, SeqEqual
  <2>9. QED
    BY <1>2, <2>8
<1>5. CASE Q!ReturnEmpty(Worker)
  BY <1>5 DEF Q!ReturnEmpty, Intact
<1>6. QED
  BY <1>3, <1>4, <1>5 DEF FetchJob, Q!FetchStep, Q!Fetch, Q!Wake, Q!WakeExpired

LEMMA FetchEndsRefined ==
    ASSUME Sound, Sound', FetchEnds
    PROVE  UNCHANGED <<call, waiting, accepted>>
<1>1. /\ UNCHANGED <<thread_id, params, ring_vars, vm, sni_vars, waiting_msg, msg>>
      /\ (fetch[Worker] = "returned")' <=> fetch[Worker] = "returned"
  BY DEF FetchEnds, worker_unchanged, job_vars, Q!WaitEnds, Q!Expire, Q!Spurious, Sound, TypeOK,
         Q!TypeOK
<1>2. QED
  BY <1>1, WorkerStutters, AcceptedKept DEF Sound

(* The worker's job is that of the oldest accepted call. *)
OldestIsHeld ==
    LET h == msg[Worker]
        u == thread_id[h]
    IN  /\ h \in Jobs /\ InWorker(h) /\ u \in Threads
        /\ Awaits(u, h) /\ ~resumed[u]
        /\ \A t \in Threads : Awaits(t, h) => t = u
        /\ accepted \in Seq(Threads)
        /\ accepted # <<>>
        /\ Head(accepted) = u
        /\ call[u] = IF worker = "resume" THEN "executed" ELSE "accepted"

LEMMA OldestCall == Sound /\ fetch[Worker] = "returned" => OldestIsHeld
<1> SUFFICES ASSUME Sound, fetch[Worker] = "returned"
             PROVE  OldestIsHeld
  OBVIOUS
<1> DEFINE h == msg[Worker]
           u == thread_id[h]
<1>1. h \in Jobs /\ InWorker(h)
  BY DEF Sound, CallInv, WorkerHolds, InWorker
<1>2. u \in Threads /\ Awaits(u, h)
  BY <1>1 DEF Sound, CallInv, Awaited
<1>3. ~resumed[u] /\ \A t \in Threads : Awaits(t, h) => t = u
  BY <1>1, <1>2 DEF Sound, CallInv, Owed
<1>4. accepted \in Seq(Threads) /\ accepted # <<>> /\ Head(accepted) = u
  <2>1. AcceptedShape /\ Len(waiting_msg) \in Nat
    BY AcceptedIsSeq DEF Sound, TypeOK, Q!TypeOK
  <2>2. /\ accepted \in Seq(Threads)
        /\ Len(accepted) = 1 + Len(waiting_msg)
        /\ accepted[1] = u
    BY <2>1 DEF AcceptedShape
  <2>3. accepted # <<>>
    BY <2>1, <2>2, EmptySeq
  <2>4. QED
    BY <2>2, <2>3, HeadTailProperties
<1>5. params[h].result = (worker = "resume")
  <2>1. params[h] = IF worker = "resume" THEN Answered(u) ELSE Asked(u)
    BY <1>1 DEF Sound, CallInv, ParamsFollow
  <2>2. Answered(u).result = TRUE /\ Asked(u).result = FALSE
    BY DEF Asked, Answered
  <2>3. CASE worker = "resume"
    BY <2>1, <2>2, <2>3
  <2>4. CASE worker # "resume"
    BY <2>1, <2>2, <2>4
  <2>5. QED
    BY <2>3, <2>4
<1>6. call[u] = Progress(u, h)
  BY <1>1, <1>2, CallIsShape DEF Sound, CallShape
<1>7. call[u] = IF worker = "resume" THEN "executed" ELSE "accepted"
  BY <1>1, <1>2, <1>3, <1>5, <1>6, ProgressIs DEF Sound
<1>8. QED
  BY <1>1, <1>2, <1>3, <1>4, <1>7 DEF OldestIsHeld

LEMMA OldestCallNext == Sound' /\ (fetch[Worker] = "returned")' => OldestIsHeld'
BY OldestCall, PTL

LEMMA RunActionRefined ==
    ASSUME Sound, Sound', RunAction
    PROVE  Abstract!Execute
<1> DEFINE h == msg[Worker]
           u == thread_id[h]
<1>1. /\ worker = "loop" /\ worker' = "resume" /\ fetch[Worker] = "returned"
      /\ fetch'[Worker] = "returned"
      /\ params' = [params EXCEPT ![h].result = TRUE]
      /\ UNCHANGED <<thread_id, ring_vars, waiting_msg, fetch, msg, vm, thread, callback_job,
                     resumed>>
  BY DEF RunAction, queue_vars, sni_vars
<1>2. /\ h \in Jobs /\ u \in Threads
      /\ \A t \in Threads : Awaits(t, h) => t = u
      /\ accepted # <<>> /\ Head(accepted) = u
      /\ call[u] = "accepted"
  BY <1>1, OldestCall DEF OldestIsHeld
<1>3. call'[u] = "executed"
  <2>1. OldestIsHeld'
    BY <1>1, OldestCallNext
  <2>2. QED
    BY <1>1, <2>1 DEF OldestIsHeld
<1>4. ASSUME NEW t \in Threads, t # u
      PROVE  call'[t] = call[t]
  <2>1. \A j \in Jobs : j # h => params'[j] = params[j]
    BY <1>1 DEF Sound, TypeOK
  <2>2. \A j \in Jobs : Awaits(t, j) => Awaits(t, j)' /\ params'[j] = params[j]
    BY <1>1, <1>2, <1>4, <2>1 DEF Awaits
  <2>3. QED
    BY <1>1, <2>2, CallKept DEF Sound
<1>5. call' = [call EXCEPT ![u] = "executed"]
  BY <1>2, <1>3, <1>4, OneCallChanges
<1>6. UNCHANGED <<waiting, accepted>>
  BY <1>1, WaitingSame, AcceptedKept DEF Sound
<1>7. QED
  BY <1>2, <1>5, <1>6 DEF Abstract!Execute

LEMMA ResumeRefined ==
    ASSUME Sound, Sound', ResumeThread
    PROVE  Abstract!Notify
<1> DEFINE h == msg[Worker]
           u == thread_id[h]
<1>1. /\ worker = "resume" /\ fetch[Worker] = "returned"
      /\ resumed' = [resumed EXCEPT ![u] = TRUE]
      /\ fetch'[Worker] = "idle"
      /\ UNCHANGED <<thread_id, params, ring_vars, waiting_msg, msg, vm, thread, callback_job>>
  BY DEF ResumeThread, job_vars, Q!Loop, Sound, TypeOK, Q!TypeOK
<1>2. /\ h \in Jobs /\ u \in Threads /\ Awaits(u, h)
      /\ accepted \in Seq(Threads) /\ accepted # <<>> /\ Head(accepted) = u
      /\ call[u] = "executed"
  BY <1>1, OldestCall DEF OldestIsHeld
<1>3. /\ resumed'[u]
      /\ \A t \in Threads : t # u => resumed'[t] = resumed[t]
  BY <1>1, <1>2 DEF Sound, TypeOK
<1>4. call'[u] = "notified"
  <2>1. Awaits(u, h)'
    BY <1>1, <1>2 DEF Awaits
  <2>2. call'[u] = Progress(u, h)'
    BY <1>1, <1>2, <2>1, CallIsShapeNext DEF Sound, CallShape
  <2>3. QED
    BY <1>1, <1>3, <2>2 DEF Progress
<1>5. ASSUME NEW t \in Threads, t # u
      PROVE  call'[t] = call[t]
  <2>1. \A j \in Jobs : Awaits(t, j) => Awaits(t, j)' /\ params'[j] = params[j]
    BY <1>1 DEF Awaits
  <2>2. QED
    BY <1>1, <1>3, <1>5, <2>1, CallKept DEF Sound
<1>6. call' = [call EXCEPT ![u] = "notified"]
  BY <1>2, <1>4, <1>5, OneCallChanges
<1>7. accepted' = Tail(accepted)
  <2>1. AcceptedShape /\ AcceptedShape' /\ Len(waiting_msg) \in Nat
    BY AcceptedIsSeq, AcceptedIsSeqNext DEF Sound, TypeOK, Q!TypeOK
  <2>2. /\ Len(accepted) = 1 + Len(waiting_msg)
        /\ \A i \in 1 .. Len(waiting_msg) : accepted[1 + i] = thread_id[waiting_msg[i]]
    BY <1>1, <2>1 DEF AcceptedShape
  <2>3. /\ accepted' \in Seq(Threads)
        /\ Len(accepted') = 0 + Len(waiting_msg)
        /\ \A i \in 1 .. Len(waiting_msg) : accepted'[0 + i] = thread_id[waiting_msg[i]]
    BY <1>1, <2>1 DEF AcceptedShape
  <2>4. /\ Len(accepted') = Len(accepted) - 1
        /\ \A i \in 1 .. Len(accepted') :
              i \in 1 .. Len(waiting_msg) /\ 0 + i = i /\ 1 + i = i + 1
    BY <2>1, <2>2, <2>3
  <2>5. \A i \in 1 .. Len(accepted') : accepted'[i] = accepted[i + 1]
    BY <2>2, <2>3, <2>4
  <2>6. QED
    BY <1>2, <2>3, <2>4, <2>5, IsTail
<1>8. waiting' = waiting
  BY <1>1, WaitingSame
<1>9. QED
  BY <1>2, <1>6, <1>7, <1>8 DEF Abstract!Notify

LEMMA StepRefined ==
    ASSUME Sound, Sound', Intact, Intact', [Next]_vars
    PROVE  [Abstract!Next]_(Abstract!call_vars)
<1>b. (~Intact)' = ~Intact
  OBVIOUS
<1>u. ASSUME UNCHANGED <<call, waiting, accepted>>
      PROVE  [Abstract!Next]_(Abstract!call_vars)
  BY <1>b, <1>u DEF Abstract!call_vars
<1>1. CASE Initialize
  <2>1. UNCHANGED <<call, waiting>>
    BY <1>1, WorkerStutters DEF Initialize
  <2>2. accepted' = accepted
    BY <1>1, AcceptedKept DEF Initialize, Sound, queue_vars
  <2>3. QED
    BY <1>u, <2>1, <2>2
<1>2. ASSUME NEW t \in Threads, AllocateJob(t) \/ AllocateJobWait(t) \/ AllocateJobFull(t)
      PROVE  [Abstract!Next]_(Abstract!call_vars)
  <2>1. Abstract!Start(t) \/ Abstract!Wait(t) \/ Abstract!Refuse(t)
          \/ UNCHANGED <<call, waiting, accepted>>
    BY <1>2, AllocateRefined, AllocateWaitRefined, AllocateFullRefined
  <2>2. QED
    BY <1>b, <1>u, <2>1 DEF Abstract!Next
<1>3. ASSUME NEW t \in Threads, OnDone(t)
      PROVE  [Abstract!Next]_(Abstract!call_vars)
  <2>1. Abstract!Return(t)
    BY <1>3, OnDoneRefined
  <2>2. QED
    BY <1>b, <2>1 DEF Abstract!Next
<1>4. CASE SetupFailed \/ AsyncExecFailed \/ AsyncExec
  <2>1. vm.thread \in Threads
    BY <1>4, NativeType DEF SetupFailed, AsyncExecFailed, AsyncExec, Sound
  <2>2. Abstract!Fail(vm.thread) \/ Abstract!Accept(vm.thread)
    BY <1>4, NativeFailsRefined, AsyncExecRefined
  <2>3. QED
    BY <1>b, <2>1, <2>2 DEF Abstract!Next
<1>5. CASE Setup \/ Suspend \/ FetchJob \/ FetchEnds
  BY <1>5, <1>u, SetupRefined, SuspendRefined, FetchRefined, FetchEndsRefined
<1>6. CASE RunAction \/ ResumeThread
  <2>1. Abstract!Execute \/ Abstract!Notify
    BY <1>6, RunActionRefined, ResumeRefined
  <2>2. QED
    BY <1>b, <2>1 DEF Abstract!Next
<1>7. CASE RunGarbage
  BY <1>7, AsyncWorkerAssumption DEF RunGarbage, Sound, CallInv, WorkerHolds
<1>8. CASE UNCHANGED vars
  <2>1. UNCHANGED <<call, waiting>>
    BY <1>8, WorkerStutters DEF vars, job_vars
  <2>2. accepted' = accepted
    BY <1>8, AcceptedKept DEF vars, job_vars, Sound, queue_vars
  <2>3. QED
    BY <1>u, <2>1, <2>2
<1>9. QED
  BY <1>1, <1>2, <1>3, <1>4, <1>5, <1>6, <1>7, <1>8
     DEF Next, Enter, NativeStep, WorkerStep, Halted

LEMMA InitRefined == Init => Abstract!Init
<1> SUFFICES ASSUME Init
             PROVE  Abstract!Init
  OBVIOUS
<1>1. TypeOK /\ ThreadsAgree /\ Intact
  BY InitType DEF Init, ThreadsAgree, Idle, Q!Init, Intact
<1>2. \A t \in Threads : call[t] = "none"
  BY <1>1, CallIsShape DEF Init, CallShape, JavaStates
<1>3. call = [t \in Threads |-> "none"]
  BY <1>2, CallsIsFunction
<1>4. waiting = <<>>
  BY DEF Init, waiting, RingLength, RingLengthOf
<1>5. accepted = <<>>
  BY DEF Init, Q!Init, accepted
<1>6. QED
  BY <1>1, <1>3, <1>4, <1>5 DEF Abstract!Init

(* The worker, its queue, its lists and its clients do what AsyncCall       *)
(* promises, until the first fetch that comes without a job.                *)
THEOREM WorkerImplementsAsyncCall == Spec => ImplementsAsyncCall
<1>1. IInv /\ IInv' /\ [Next]_vars => [Abstract!Next]_(Abstract!call_vars)
  <2> SUFFICES ASSUME IInv, IInv', [Next]_vars
               PROVE  [Abstract!Next]_(Abstract!call_vars)
    OBVIOUS
  <2>1. CASE Intact'
    BY <2>1, IntactBefore, StepRefined DEF IInv, Sound
  <2>2. CASE ~Intact'
    BY <2>2 DEF Abstract!Next
  <2>3. QED
    BY <2>1, <2>2
<1>2. QED
  BY <1>1, InitRefined, Invariant, PTL DEF Spec, ImplementsAsyncCall, Abstract!Spec
=============================================================================
