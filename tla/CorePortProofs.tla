--------------------------- MODULE CorePortProofs ---------------------------
(***************************************************************************)
(* Safety of the core of the port: types, the semaphore around the blocks, *)
(* and the wake-up of the virtual machine, for any number of native tasks, *)
(* any width of the words, any length of a tick and any deadlines.         *)
(***************************************************************************)
EXTENDS CorePort, FiniteSetTheorems, TLAPS

(* Milliseconds per tick and ticks per millisecond are not both above 1, so *)
(* that a wake-up request, in ticks, is never later than the deadline.      *)
LEMMA TickArithmetic ==
    /\ MSEC_PER_TICK \in Nat
    /\ TICK_PER_MSEC \in Nat
    /\ \A d \in Nat : ToUint32(d * TICK_PER_MSEC) * MSEC_PER_TICK <= d
<1>1. /\ UsecPerTick \in Nat /\ UsecPerTick > 0
      /\ Uint32 \in Nat /\ Uint32 > 0
  BY LLMJvmAssumption
<1>2. MSEC_PER_TICK \in Nat /\ TICK_PER_MSEC \in Nat
  BY <1>1 DEF MSEC_PER_TICK, TICK_PER_MSEC
<1>3. \/ MSEC_PER_TICK = 0
      \/ TICK_PER_MSEC = 0
      \/ MSEC_PER_TICK = 1 /\ TICK_PER_MSEC = 1
  <2>1. CASE UsecPerTick < 1000
    BY <2>1, <1>1 DEF MSEC_PER_TICK
  <2>2. CASE UsecPerTick = 1000
    BY <2>2, <1>1 DEF MSEC_PER_TICK, TICK_PER_MSEC
  <2>3. CASE UsecPerTick > 1000
    <3>1. 1000 \div UsecPerTick = 0
      BY <2>3, <1>1
    <3> QED
      BY <3>1 DEF TICK_PER_MSEC
  <2> QED
    BY <2>1, <2>2, <2>3, <1>1
<1>4. ASSUME NEW d \in Nat
      PROVE  ToUint32(d * TICK_PER_MSEC) * MSEC_PER_TICK <= d
  <2>1. CASE MSEC_PER_TICK = 0
    <3>1. d * TICK_PER_MSEC \in Nat
      BY <1>2
    <3>2. ToUint32(d * TICK_PER_MSEC) \in Int
      BY <3>1, <1>1 DEF ToUint32
    <3> QED
      BY <2>1, <3>2
  <2>2. CASE TICK_PER_MSEC = 0
    <3>1. d * TICK_PER_MSEC = 0
      BY <2>2
    <3>2. ToUint32(0) = 0
      BY <1>1 DEF ToUint32
    <3> QED
      BY <3>1, <3>2, <1>2
  <2>3. CASE MSEC_PER_TICK = 1 /\ TICK_PER_MSEC = 1
    <3>1. d % Uint32 <= d /\ d % Uint32 \in Nat
      BY <1>1
    <3> QED
      BY <2>3, <3>1 DEF ToUint32
  <2> QED
    BY <2>1, <2>2, <2>3, <1>3
<1> QED
  BY <1>2, <1>4

-----------------------------------------------------------------------------
(* The wake-up of the virtual machine.  A thread whose wake-up has been     *)
(* asked for, or is about to be, does sleep.                                *)
Requesting == vm \in {"late", "arm"} \/ requested => sleeper # NoDeadline

\* The next tick at which the thread is due finds the request.
Armed == sleeper # NoDeadline => nextWakeUpTicks * MSEC_PER_TICK <= sleeper

(* What has been asked for stays, unless a wake-up is on its way, or the    *)
(* scheduler has yet to look at what is pending.                            *)
Waking ==
    /\ Requesting
    /\ vm = "late" => pending
    /\ requested /\ vm \in {"running", "idle"} => pending \/ WakeupOnItsWay \/ Armed
    /\ vm = "idle" => /\ pending => WakeupOnItsWay
                      /\ sleeper # NoDeadline => requested

IInv == CoreTypeOK /\ ExclusiveAccess /\ WakeupHeard /\ Waking

LEMMA PlatformTimeType ==
    CoreTypeOK => PlatformTime \in Int /\ (0 .. MaxClock) \subseteq Nat
<1> SUFFICES ASSUME CoreTypeOK PROVE PlatformTime \in Int
  BY LLMJvmAssumption
<1>1. clock \in Nat /\ Uint32 \in Nat /\ Uint32 > 0
  BY LLMJvmAssumption DEF CoreTypeOK, TypeOK
<1>2. MSEC_PER_TICK * clock \in Nat
  BY <1>1, TickArithmetic
<1> QED
  BY <1>1, <1>2 DEF PlatformTime, ToUint32

(* The virtual machine and the interrupt keep the types of their state.     *)
LEMMA JvmStepType ==
    ASSUME CoreTypeOK, Requesting,
           \/ Scheduler \/ Java \/ Tick
           \/ \E n \in Natives : Resume(n) \/ WakeupVM(n)
    PROVE  TypeOK'
<1>t. TypeOK
  BY DEF CoreTypeOK
<1>a. /\ Uint32 \in Nat /\ Uint32 > 0 /\ UINT32_MAX \in 0 .. UINT32_MAX
      /\ MaxClock \in Nat
      /\ VM \in Tasks /\ Natives \subseteq Tasks
  BY LLMJvmAssumption DEF UINT32_MAX, Tasks
<1>w. ASSUME NEW t \in Tasks, WakeupVM(t) PROVE TypeOK'
  BY <1>w, <1>t, <1>a DEF WakeupVM, WakeupTest, WakeupReset, WakeupPost, TypeOK,
                          time_vars, java_vars
<1>s. ASSUME NEW t \in RealTimes, SetOffset(t) PROVE system_time_offset' \in Int
  BY <1>s, PlatformTimeType, LLMJvmAssumption DEF SetOffset, posix_time_getcurrenttime
<1>1. CASE Initialize
  BY <1>1, <1>t, <1>s DEF Initialize, TypeOK, java_vars
<1>2. CASE Dispatch
  BY <1>2, <1>t DEF Dispatch, TypeOK, time_vars, wake_vars
<1>3. CASE Request
  BY <1>3, <1>t, <1>a DEF Request, Schedule, TypeOK, time_vars
<1>4. CASE Disarm
  BY <1>4, <1>t, <1>a DEF Disarm, TypeOK, time_vars
<1>5. CASE Arm
  <2>1. sleeper \in Nat
    BY <1>5, <1>t, LLMJvmAssumption DEF Arm, Requesting, TypeOK
  <2>2. sleeper * TICK_PER_MSEC \in Nat
    BY <2>1, TickArithmetic
  <2>3. nextWakeUpTicks' \in 0 .. UINT32_MAX
    BY <1>5, <2>2, <1>a DEF Arm, ToUint32, UINT32_MAX
  <2> QED
    BY <1>5, <1>t, <2>3 DEF Arm, TypeOK, time_vars
<1>6. CASE Idle
  BY <1>6, <1>t DEF Idle, TypeOK, time_vars, wake_vars, java_vars
<1>7. CASE Wake
  BY <1>7, <1>t DEF Wake, TypeOK, time_vars, java_vars
<1>8. CASE Finalize
  BY <1>8, <1>t DEF Finalize, TypeOK, time_vars, wake_vars, java_vars
<1>9. CASE \E d \in Deadlines : Sleep(d)
  BY <1>9, <1>t DEF Sleep, TypeOK, time_vars, wake_vars
<1>10. CASE \E t \in RealTimes : SetApplicationTime(t)
  BY <1>10, <1>t, <1>s DEF SetApplicationTime, TypeOK, wake_vars, java_vars
<1>11. CASE Shutdown
  BY <1>11, <1>t DEF Shutdown, TypeOK, time_vars, wake_vars, java_vars
<1>12. CASE Tick
  <2>1. clock' \in 0 .. MaxClock
    BY <1>12, <1>t, <1>a DEF Tick, TypeOK
  <2>2. mutex + 1 \in Nat
    BY <1>t DEF TypeOK
  <2>3. CASE Hook(clock')
    BY <1>12, <1>t, <1>a, <2>1, <2>2, <2>3 DEF Tick, TypeOK
  <2>4. CASE ~Hook(clock')
    BY <1>12, <1>t, <2>1, <2>4 DEF Tick, TypeOK
  <2> QED
    BY <2>3, <2>4
<1>13. CASE \E n \in Natives : Resume(n)
  BY <1>13, <1>t, <1>a DEF Resume, Schedule, TypeOK, time_vars
<1> QED
  BY <1>w, <1>1, <1>2, <1>3, <1>4, <1>5, <1>6, <1>7, <1>8, <1>9, <1>10, <1>11,
     <1>12, <1>13, <1>a DEF Scheduler, Java

(* A step of LLMJVM_IMPL_wakeupVM may cancel a request or post nothing, but *)
(* then the wake-up itself is on its way.                                   *)
LEMMA WakeupOnItsWayAfter ==
    ASSUME CoreTypeOK, NEW t \in Tasks, WakeupVM(t)
    PROVE  WakeupOnItsWay'
<1>1. wakeup \in [Tasks -> {"none", "test", "reset", "post"}] /\ mutex \in Nat
  BY DEF CoreTypeOK, TypeOK
<1>2. CASE WakeupTest(t)
  <2>1. CASE mutex <= 0
    <3>1. wakeup'[t] = "reset"
      BY <1>1, <1>2, <2>1 DEF WakeupTest
    <3> QED
      BY <3>1 DEF WakeupOnItsWay
  <2>2. CASE ~(mutex <= 0)
    BY <1>1, <1>2, <2>2 DEF WakeupTest, WakeupOnItsWay
  <2> QED
    BY <2>1, <2>2
<1>3. CASE WakeupReset(t)
  <2>1. wakeup'[t] = "post"
    BY <1>1, <1>3 DEF WakeupReset
  <2> QED
    BY <2>1 DEF WakeupOnItsWay
<1>4. CASE WakeupPost(t)
  BY <1>1, <1>4 DEF WakeupPost, WakeupOnItsWay
<1> QED
  BY <1>2, <1>3, <1>4 DEF WakeupVM

(* LLMJVM_schedule begins a wake-up. *)
LEMMA ScheduleWakes ==
    ASSUME CoreTypeOK, NEW t \in Tasks, Schedule(t)
    PROVE  WakeupOnItsWay' /\ pending'
<1>1. wakeup'[t] = "test"
  BY DEF Schedule, CoreTypeOK, TypeOK
<1> QED
  BY <1>1 DEF Schedule, WakeupOnItsWay

(* No step of the virtual machine, of a native task or of the interrupt     *)
(* loses what the sleep of the virtual machine depends on.                  *)
LEMMA JvmStepWaking ==
    ASSUME CoreTypeOK, Waking,
           \/ Scheduler \/ Java \/ Tick
           \/ \E n \in Natives : Resume(n) \/ WakeupVM(n)
    PROVE  Waking'
<1>t. TypeOK
  BY DEF CoreTypeOK
<1>a. VM \in Tasks /\ Natives \subseteq Tasks
  BY DEF Tasks
<1>w. ASSUME NEW t \in Tasks, WakeupVM(t) PROVE Waking'
  <2>1. WakeupOnItsWay'
    BY <1>w, WakeupOnItsWayAfter
  <2>2. UNCHANGED <<vm, sleeper, requested, pending>>
    BY <1>w DEF WakeupVM, WakeupTest, WakeupReset, WakeupPost, java_vars
  <2> QED
    BY <2>1, <2>2 DEF Waking, Requesting
<1>1. CASE Initialize
  BY <1>1 DEF Initialize, java_vars, Waking, Requesting
<1>2. CASE Dispatch
  BY <1>2 DEF Dispatch, Waking, Requesting
<1>3. CASE Request
  BY <1>3 DEF Request, Schedule, Waking, Requesting
<1>4. CASE Disarm
  BY <1>4 DEF Disarm, Waking, Requesting
<1>5. CASE Arm
  <2>1. sleeper \in Nat /\ sleeper # NoDeadline
    BY <1>5, <1>t, LLMJvmAssumption DEF Arm, Waking, Requesting, TypeOK
  <2>2. Armed'
    BY <1>5, <2>1, TickArithmetic DEF Arm, Armed
  <2> QED
    BY <1>5, <2>1, <2>2 DEF Arm, Waking, Requesting
<1>6. CASE Idle
  BY <1>6 DEF Idle, wake_vars, java_vars, Waking, Requesting, WakeupOnItsWay, Armed
<1>7. CASE Wake
  BY <1>7 DEF Wake, java_vars, Waking, Requesting
<1>8. CASE Finalize
  BY <1>8 DEF Finalize, java_vars, Waking, Requesting
<1>9. CASE \E d \in Deadlines : Sleep(d)
  BY <1>9, LLMJvmAssumption DEF Sleep, Waking, Requesting
<1>10. CASE \E t \in RealTimes : SetApplicationTime(t)
  BY <1>10 DEF SetApplicationTime, wake_vars, java_vars, Waking, Requesting,
               WakeupOnItsWay, Armed
<1>11. CASE Shutdown
  BY <1>11 DEF Shutdown, java_vars, Waking, Requesting
<1>12. CASE Tick
  <2>1. UNCHANGED <<wakeup, vm, sleeper, requested>>
    BY <1>12 DEF Tick
  <2>2. CASE Hook(clock')
    <3>1. mutex' > 0 /\ pending'
      BY <1>12, <2>2, <1>t DEF Tick, TypeOK
    <3> QED
      BY <2>1, <3>1 DEF Waking, Requesting, WakeupOnItsWay
  <2>3. CASE ~Hook(clock')
    BY <1>12, <2>1, <2>3 DEF Tick, Waking, Requesting, WakeupOnItsWay, Armed
  <2> QED
    BY <2>2, <2>3
<1>13. ASSUME NEW n \in Natives, Resume(n) PROVE Waking'
  <2>1. WakeupOnItsWay' /\ pending'
    BY <1>13, <1>a, ScheduleWakes DEF Resume
  <2>2. UNCHANGED <<vm, sleeper, requested>>
    BY <1>13 DEF Resume
  <2> QED
    BY <2>1, <2>2 DEF Waking, Requesting
<1> QED
  BY <1>w, <1>1, <1>2, <1>3, <1>4, <1>5, <1>6, <1>7, <1>8, <1>9, <1>10, <1>11,
     <1>12, <1>13, <1>a DEF Scheduler, Java

-----------------------------------------------------------------------------
(* The Shielded Plug, in the calls of the core or on its own.              *)
LEMMA PlugStepType ==
    ASSUME Plug!PlugTypeOK, Plug!PlugNext
    PROVE  Plug!PlugTypeOK'
<1> USE DEF Plug!PlugTypeOK, Plug!AccessStates, Plug!wait_vars
<1>1. ASSUME NEW t \in Tasks, Plug!PlugInitialize(t) \/ Plug!PlugInitializeAgain(t)
      PROVE  Plug!PlugTypeOK'
  <2>1. access' \in [Tasks -> Plug!AccessStates]
    BY <1>1 DEF Plug!PlugInitialize, Plug!PlugInitializeAgain
  <2>2. rw_access_mutex' = 1 /\ intrusions' \in Nat
    BY <1>1 DEF Plug!PlugInitialize, Plug!PlugInitializeAgain, Plug!SemInit
  <2>3. UNCHANGED <<task_mutex, unheard>>
    BY <1>1 DEF Plug!PlugInitialize, Plug!PlugInitializeAgain, Plug!SemInit
  <2> QED
    BY <2>1, <2>2, <2>3
<1>2. ASSUME NEW t \in Tasks, Plug!Enter(t) PROVE Plug!PlugTypeOK'
  BY <1>2 DEF Plug!Enter
<1>3. ASSUME NEW t \in Tasks, Plug!Exit(t) PROVE Plug!PlugTypeOK'
  BY <1>3 DEF Plug!Exit
<1>4. ASSUME NEW t \in Tasks, Plug!ExitPost(t) PROVE Plug!PlugTypeOK'
  BY <1>4 DEF Plug!ExitPost
<1>5. ASSUME NEW t \in Tasks, Plug!Wait(t) PROVE Plug!PlugTypeOK'
  BY <1>5 DEF Plug!Wait
<1>r. ASSUME NEW t \in Tasks, Plug!Returns(t)
      PROVE  /\ access' \in [Tasks -> Plug!AccessStates]
             /\ UNCHANGED <<rw_access_mutex, intrusions>>
  BY <1>r DEF Plug!Returns
<1>6. ASSUME NEW t \in Tasks, Plug!WaitReturns(t) PROVE Plug!PlugTypeOK'
  <2>1. Plug!Returns(t) /\ task_mutex > 0 /\ task_mutex' = task_mutex - 1 /\ unheard' = FALSE
    BY <1>6 DEF Plug!WaitReturns
  <2>2. task_mutex' \in Nat
    BY <2>1
  <2> QED
    BY <2>1, <2>2, <1>r
<1>7. ASSUME NEW t \in Tasks, Plug!WaitInterrupted(t) PROVE Plug!PlugTypeOK'
  <2>1. Plug!Returns(t) /\ UNCHANGED <<task_mutex, unheard>>
    BY <1>7 DEF Plug!WaitInterrupted
  <2> QED
    BY <2>1, <1>r
<1>8. ASSUME NEW t \in Tasks, NEW u \in Tasks, Plug!Wakeup(t, u) PROVE Plug!PlugTypeOK'
  BY <1>8 DEF Plug!Wakeup
<1>9. ASSUME NEW t \in Tasks, Plug!WakeupTest(t) PROVE Plug!PlugTypeOK'
  BY <1>9 DEF Plug!WakeupTest
<1>10. ASSUME NEW t \in Tasks, Plug!WakeupPost(t) PROVE Plug!PlugTypeOK'
  BY <1>10 DEF Plug!WakeupPost
<1> QED
  BY <1>1, <1>2, <1>3, <1>4, <1>5, <1>6, <1>7, <1>8, <1>9, <1>10
     DEF Plug!PlugNext, Plug!PlugCall, Plug!PlugStep

\* The instance counts as the library does.
LEMMA PlugCardinality == \A S : Plug!Cardinality(S) = Cardinality(S)
BY DEF Plug!Cardinality, Cardinality, Plug!IsFiniteSet, IsFiniteSet

\* How many tasks are in blocks, and how that changes with one task.
LEMMA UsersCounted ==
    ASSUME Plug!PlugTypeOK
    PROVE  /\ IsFiniteSet(Plug!Users) /\ Cardinality(Plug!Users) \in Nat
           /\ Plug!Users = {} <=> Cardinality(Plug!Users) = 0
<1>1. IsFiniteSet(Tasks)
  BY CorePortAssumption, FS_AddElement DEF Tasks
<1>2. IsFiniteSet(Plug!Users)
  BY <1>1, FS_Subset DEF Plug!Users
<1> QED
  BY <1>2, FS_CardinalityType, FS_EmptySet

LEMMA UserEnters ==
    ASSUME Plug!PlugTypeOK, NEW t \in Tasks, ~Plug!InBlock(t), NEW s \in {"in", "exit"},
           access' = [access EXCEPT ![t] = s]
    PROVE  Cardinality(Plug!Users)' = Cardinality(Plug!Users) + 1
<1>1. Plug!Users' = Plug!Users \union {t}
  BY DEF Plug!Users, Plug!InBlock, Plug!PlugTypeOK
<1>2. t \notin Plug!Users
  BY DEF Plug!Users
<1> QED
  BY <1>1, <1>2, UsersCounted, FS_AddElement

LEMMA UserLeaves ==
    ASSUME Plug!PlugTypeOK, NEW t \in Tasks, Plug!InBlock(t), NEW s, s \notin {"in", "exit"},
           access' = [access EXCEPT ![t] = s]
    PROVE  Cardinality(Plug!Users)' = Cardinality(Plug!Users) - 1
<1>1. Plug!Users' = Plug!Users \ {t}
  BY DEF Plug!Users, Plug!InBlock, Plug!PlugTypeOK
<1>2. t \in Plug!Users
  BY DEF Plug!Users
<1> QED
  BY <1>1, <1>2, UsersCounted, FS_RemoveElement

LEMMA UsersStay ==
    ASSUME Plug!PlugTypeOK, NEW t \in Tasks, NEW s,
           Plug!InBlock(t) <=> s \in {"in", "exit"},
           access' = [access EXCEPT ![t] = s]
    PROVE  Plug!Users' = Plug!Users
BY DEF Plug!Users, Plug!InBlock, Plug!PlugTypeOK

(* A task that enters takes the semaphore or is an intrusion; the one that  *)
(* leaves posts once, or not at all; and an initialization adds one at most.*)
LEMMA PlugStepExclusive ==
    ASSUME Plug!PlugTypeOK, Plug!ExclusiveAccess, Plug!PlugNext
    PROVE  Plug!ExclusiveAccess'
<1> DEFINE n == Cardinality(Plug!Users)
<1>t. /\ rw_access_mutex \in Nat /\ intrusions \in Nat
      /\ access \in [Tasks -> Plug!AccessStates]
  BY DEF Plug!PlugTypeOK
<1>n. n \in Nat /\ (Plug!Users = {} <=> n = 0) /\ n + rw_access_mutex <= 1 + intrusions
  BY UsersCounted, PlugCardinality DEF Plug!ExclusiveAccess
<1>g. SUFFICES n' + rw_access_mutex' <= 1 + intrusions'
  BY PlugCardinality DEF Plug!ExclusiveAccess
<1>1. ASSUME NEW t \in Tasks, Plug!PlugInitialize(t) \/ Plug!PlugInitializeAgain(t)
      PROVE  n' + rw_access_mutex' <= 1 + intrusions'
  <2>1. Plug!Users' = Plug!Users
    BY <1>1, UsersStay DEF Plug!PlugInitialize, Plug!PlugInitializeAgain, Plug!InBlock
  <2>2. /\ rw_access_mutex' = 1
        /\ intrusions' = IF rw_access_mutex = 0 /\ Plug!Users # {}
                           THEN intrusions + 1 ELSE intrusions
    BY <1>1 DEF Plug!PlugInitialize, Plug!PlugInitializeAgain, Plug!SemInit
  <2>3. n' = n
    BY <2>1
  <2> QED
    BY <1>t, <1>n, <2>2, <2>3
<1>2. ASSUME NEW t \in Tasks, Plug!Enter(t)
      PROVE  n' + rw_access_mutex' <= 1 + intrusions'
  <2>1. n' = n + 1
    BY <1>2, UserEnters DEF Plug!Enter, Plug!InBlock
  <2>2. \/ rw_access_mutex > 0 /\ rw_access_mutex' = rw_access_mutex - 1
           /\ intrusions' = intrusions
        \/ rw_access_mutex' = rw_access_mutex /\ intrusions' = intrusions + 1
    BY <1>2 DEF Plug!Enter
  <2> QED
    BY <1>t, <1>n, <2>1, <2>2
<1>3. ASSUME NEW t \in Tasks, Plug!Exit(t)
      PROVE  n' + rw_access_mutex' <= 1 + intrusions'
  <2>1. rw_access_mutex' = rw_access_mutex /\ intrusions' = intrusions
    BY <1>3 DEF Plug!Exit
  <2>2. CASE rw_access_mutex <= 0
    <3>1. Plug!Users' = Plug!Users
      BY <1>3, <2>2, UsersStay DEF Plug!Exit, Plug!InBlock
    <3> QED
      BY <1>t, <1>n, <2>1, <3>1
  <2>3. CASE ~(rw_access_mutex <= 0)
    <3>1. n' = n - 1
      BY <1>3, <2>3, UserLeaves DEF Plug!Exit, Plug!InBlock
    <3> QED
      BY <1>t, <1>n, <2>1, <3>1
  <2> QED
    BY <2>2, <2>3
<1>4. ASSUME NEW t \in Tasks, Plug!ExitPost(t)
      PROVE  n' + rw_access_mutex' <= 1 + intrusions'
  <2>1. n' = n - 1
    BY <1>4, UserLeaves DEF Plug!ExitPost, Plug!InBlock
  <2>2. rw_access_mutex' = rw_access_mutex + 1 /\ intrusions' = intrusions
    BY <1>4 DEF Plug!ExitPost
  <2> QED
    BY <1>t, <1>n, <2>1, <2>2
<1>5. ASSUME NEW t \in Tasks,
             \/ Plug!Wait(t) \/ Plug!WaitReturns(t) \/ Plug!WaitInterrupted(t)
             \/ \E u \in Tasks : Plug!Wakeup(t, u)
             \/ Plug!WakeupTest(t) \/ Plug!WakeupPost(t)
      PROVE  n' + rw_access_mutex' <= 1 + intrusions'
  <2> USE DEF Plug!Wait, Plug!WaitReturns, Plug!WaitInterrupted, Plug!Returns, Plug!Wakeup,
              Plug!WakeupTest, Plug!WakeupPost
  <2>1. rw_access_mutex' = rw_access_mutex /\ intrusions' = intrusions
    BY <1>5
  <2>2. ~Plug!InBlock(t) /\ \E s : s \notin {"in", "exit"} /\ access' = [access EXCEPT ![t] = s]
    BY <1>5 DEF Plug!InBlock
  <2>3. Plug!Users' = Plug!Users
    BY <2>2, UsersStay
  <2> QED
    BY <1>n, <2>1, <2>3
<1> QED
  BY <1>1, <1>2, <1>3, <1>4, <1>5 DEF Plug!PlugNext, Plug!PlugCall, Plug!PlugStep

(* A call of LLSP_IMPL_wakeup finds the semaphore posted to or posts, and   *)
(* only the wait that hears of it takes the semaphore.                      *)
LEMMA PlugStepHeard ==
    ASSUME Plug!PlugTypeOK, Plug!WakeupHeard, Plug!PlugNext
    PROVE  Plug!WakeupHeard'
<1> DEFINE OnItsWay(t) == access[t] \in {"test", "post"}
<1>t. task_mutex \in Nat /\ access \in [Tasks -> Plug!AccessStates]
  BY DEF Plug!PlugTypeOK
<1>h. unheard => task_mutex > 0 \/ \E t \in Tasks : OnItsWay(t)
  BY DEF Plug!WakeupHeard
<1>g. SUFFICES unheard' => task_mutex' > 0 \/ \E t \in Tasks : OnItsWay(t)'
  BY DEF Plug!WakeupHeard
<1>1. ASSUME NEW t \in Tasks, NEW s, access' = [access EXCEPT ![t] = s],
             ~OnItsWay(t), UNCHANGED <<task_mutex, unheard>>
      PROVE  unheard' => task_mutex' > 0 \/ \E u \in Tasks : OnItsWay(u)'
  <2>1. \A u \in Tasks : OnItsWay(u) => OnItsWay(u)'
    BY <1>1, <1>t
  <2> QED
    BY <1>1, <1>h, <2>1
<1>2. ASSUME NEW t \in Tasks,
             \/ Plug!PlugInitialize(t) \/ Plug!PlugInitializeAgain(t)
             \/ Plug!Enter(t) \/ Plug!Exit(t) \/ Plug!ExitPost(t)
             \/ Plug!Wait(t) \/ Plug!WaitInterrupted(t)
      PROVE  unheard' => task_mutex' > 0 \/ \E u \in Tasks : OnItsWay(u)'
  <2>1. ~OnItsWay(t) /\ UNCHANGED <<task_mutex, unheard>>
    BY <1>2 DEF Plug!PlugInitialize, Plug!PlugInitializeAgain, Plug!SemInit, Plug!Enter,
                Plug!Exit, Plug!ExitPost, Plug!Wait, Plug!WaitInterrupted, Plug!Returns,
                Plug!wait_vars
  <2>2. \E s : access' = [access EXCEPT ![t] = s]
    BY <1>2 DEF Plug!PlugInitialize, Plug!PlugInitializeAgain, Plug!Enter, Plug!Exit,
                Plug!ExitPost, Plug!Wait, Plug!WaitInterrupted, Plug!Returns
  <2> QED
    BY <1>1, <2>1, <2>2
<1>3. ASSUME NEW t \in Tasks, Plug!WaitReturns(t) PROVE ~unheard'
  BY <1>3 DEF Plug!WaitReturns
<1>4. ASSUME NEW t \in Tasks, NEW u \in Tasks, Plug!Wakeup(t, u) PROVE OnItsWay(t)'
  BY <1>4, <1>t DEF Plug!Wakeup
<1>5. ASSUME NEW t \in Tasks, Plug!WakeupTest(t) PROVE task_mutex' > 0 \/ OnItsWay(t)'
  <2>1. /\ task_mutex' = task_mutex
        /\ access' = [access EXCEPT ![t] = IF task_mutex <= 0 THEN "post" ELSE "out"]
    BY <1>5 DEF Plug!WakeupTest, Plug!wait_vars
  <2> QED
    BY <1>t, <2>1
<1>6. ASSUME NEW t \in Tasks, Plug!WakeupPost(t) PROVE task_mutex' > 0
  BY <1>6, <1>t DEF Plug!WakeupPost
<1> QED
  BY <1>2, <1>3, <1>4, <1>5, <1>6 DEF Plug!PlugNext, Plug!PlugCall, Plug!PlugStep

\* The inductive invariant of the plug.
PlugInv == Plug!PlugTypeOK /\ Plug!ExclusiveAccess /\ Plug!WakeupHeard

\* The plug starts in it, and every step of the plug keeps it.
LEMMA PlugInitInv == Plug!PlugInit => PlugInv
<1> SUFFICES ASSUME Plug!PlugInit PROVE PlugInv
  OBVIOUS
<1>1. Plug!PlugTypeOK
  BY DEF Plug!PlugInit, Plug!PlugTypeOK, Plug!AccessStates
<1>2. Plug!Users = {}
  BY DEF Plug!PlugInit, Plug!Users, Plug!InBlock
<1>3. Plug!ExclusiveAccess
  BY <1>1, <1>2, FS_EmptySet, PlugCardinality DEF Plug!PlugInit, Plug!ExclusiveAccess
<1>4. Plug!WakeupHeard
  BY DEF Plug!PlugInit, Plug!WakeupHeard
<1> QED
  BY <1>1, <1>3, <1>4 DEF PlugInv

LEMMA PlugStepInv == PlugInv /\ (Plug!PlugNext \/ UNCHANGED plug_vars) => PlugInv'
<1>1. PlugInv /\ Plug!PlugNext => PlugInv'
  BY PlugStepType, PlugStepExclusive, PlugStepHeard DEF PlugInv
<1>2. PlugInv /\ UNCHANGED plug_vars => PlugInv'
  BY DEF plug_vars, PlugInv, Plug!PlugTypeOK, Plug!ExclusiveAccess, Plug!Users,
         Plug!InBlock, Plug!WakeupHeard
<1> QED
  BY <1>1, <1>2

LEMMA PlugInvariance == Plug!PlugSpec => []PlugInv
<1>1. PlugInv /\ [Plug!PlugNext]_(Plug!plug_vars) => PlugInv'
  BY PlugStepInv DEF plug_vars, Plug!plug_vars, Plug!wait_vars
<1> QED
  BY PlugInitInv, <1>1, PTL DEF Plug!PlugSpec

(* Each interrupted wait for a block and each initialization of a semaphore *)
(* in use lets one more task in at most, whatever the number of tasks.      *)
THEOREM PlugExclusiveAccess == Plug!PlugSpec => []ExclusiveAccess
<1>1. PlugInv => ExclusiveAccess
  BY DEF PlugInv, ExclusiveAccess
<1> QED
  BY <1>1, PlugInvariance, PTL

(* The last call of LLSP_IMPL_wakeup is in the semaphore, or about to be,   *)
(* until a wait ends for it, however many tasks wait and wake others up.    *)
THEOREM PlugWakeupHeard == Plug!PlugSpec => []WakeupHeard
<1>1. PlugInv => WakeupHeard
  BY DEF PlugInv, WakeupHeard
<1> QED
  BY <1>1, PlugInvariance, PTL

-----------------------------------------------------------------------------
(* IInv is inductive: each step is one of the virtual machine's side or one *)
(* of the plug, and leaves the other side alone.                            *)
LEMMA CoreInitInv == CoreInit => IInv
<1> SUFFICES ASSUME CoreInit PROVE IInv
  OBVIOUS
<1>1. TypeOK
  <2>1. 0 \in 0 .. MaxClock /\ UINT32_MAX \in 0 .. UINT32_MAX
    BY LLMJvmAssumption DEF UINT32_MAX
  <2>2. clock \in 0 .. MaxClock /\ nextWakeUpTicks \in 0 .. UINT32_MAX
    BY <2>1 DEF CoreInit, Init
  <2>3. wakeup \in [Tasks -> {"none", "test", "reset", "post"}]
    BY DEF CoreInit, Init
  <2>4. system_time_offset \in Int /\ mutex \in Nat
    BY DEF CoreInit, Init
  <2>5. vm_is_running \in BOOLEAN /\ requested \in BOOLEAN /\ pending \in BOOLEAN
    BY DEF CoreInit, Init
  <2>6. sleeper \in Deadlines \union {NoDeadline}
    BY DEF CoreInit, Init
  <2> QED
    BY <2>2, <2>3, <2>4, <2>5, <2>6 DEF CoreInit, Init, TypeOK
<1>2. PlugInv
  BY PlugInitInv DEF CoreInit
<1>3. Waking
  BY DEF CoreInit, Init, Waking, Requesting
<1> QED
  BY <1>1, <1>2, <1>3 DEF IInv, CoreTypeOK, PlugInv, ExclusiveAccess, WakeupHeard

LEMMA CoreStepInv == IInv /\ [CoreNext]_core_vars => IInv'
<1> SUFFICES ASSUME IInv, [CoreNext]_core_vars PROVE IInv'
  OBVIOUS
<1>i. CoreTypeOK /\ PlugInv /\ Waking /\ Requesting
  BY DEF IInv, Waking, CoreTypeOK, PlugInv, ExclusiveAccess, WakeupHeard
<1>1. CASE /\ \/ Scheduler \/ Java \/ Tick
              \/ \E n \in Natives : Resume(n) \/ WakeupVM(n)
           /\ UNCHANGED plug_vars
  <2>1. TypeOK'
    BY <1>1, <1>i, JvmStepType
  <2>2. Waking'
    BY <1>1, <1>i, JvmStepWaking
  <2>3. PlugInv'
    BY <1>1, <1>i, PlugStepInv
  <2> QED
    BY <2>1, <2>2, <2>3 DEF IInv, CoreTypeOK, PlugInv, ExclusiveAccess, WakeupHeard
<1>2. CASE UNCHANGED vars /\ (Plug!PlugNext \/ UNCHANGED plug_vars)
  <2>1. TypeOK' /\ Waking'
    BY <1>2, <1>i DEF vars, time_vars, wake_vars, java_vars, CoreTypeOK, TypeOK, Waking,
                      Requesting, WakeupOnItsWay, Armed
  <2>2. PlugInv'
    BY <1>2, <1>i, PlugStepInv
  <2> QED
    BY <2>1, <2>2 DEF IInv, CoreTypeOK, PlugInv, ExclusiveAccess, WakeupHeard
<1> QED
  BY <1>1, <1>2, CorePortAssumption DEF CoreNext, VmStep, JavaStep, Interrupt, NativeResumes, NativeWakesVM,
                    PlugCall, PlugStep, PlugInterrupt, Plug!PlugNext, core_vars

LEMMA CoreInvariance == CoreSpec => []IInv
BY CoreInitInv, CoreStepInv, PTL DEF CoreSpec

(* Type correctness: the words of the port stay within their width.         *)
THEOREM CoreTypeCorrect == CoreSpec => []CoreTypeOK
<1>1. IInv => CoreTypeOK
  BY DEF IInv
<1> QED
  BY <1>1, CoreInvariance, PTL

(* The same beside a running virtual machine.                               *)
THEOREM CoreExclusiveAccess == CoreSpec => []ExclusiveAccess
<1>1. IInv => ExclusiveAccess
  BY DEF IInv
<1> QED
  BY <1>1, CoreInvariance, PTL

(* The same of the wake-ups of the plug.                                    *)
THEOREM CoreWakeupHeard == CoreSpec => []WakeupHeard
<1>1. IInv => WakeupHeard
  BY DEF IInv
<1> QED
  BY <1>1, CoreInvariance, PTL

(* The virtual machine does not sleep past what it has to do: no wake-up    *)
(* and no request is lost, whatever the tick, the words and the deadlines.  *)
THEOREM CoreAsleepOnlyIfArmed == CoreSpec => []AsleepOnlyIfArmed
<1>1. IInv => AsleepOnlyIfArmed
  BY DEF IInv, Waking, Armed, AsleepOnlyIfArmed
<1> QED
  BY <1>1, CoreInvariance, PTL
=============================================================================
