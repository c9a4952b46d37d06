------------------------------- MODULE LLMJvm -------------------------------
(***************************************************************************)
(* How the virtual machine sleeps and is woken up: LLMJVM_nuttx.c and the  *)
(* time it counts in, posix_time.c.                                        *)
(*                                                                         *)
(* The task of the virtual machine idles on a semaphore.  It is woken by   *)
(* the tick interrupt, once the requested time has come, and by native     *)
(* tasks that resume a Java thread: all of them end in                     *)
(* LLMJVM_IMPL_wakeupVM, which tests the semaphore, cancels the request    *)
(* and posts, in three steps.  The interrupt is not interrupted and is one *)
(* step.                                                                   *)
(*                                                                         *)
(* External: the virtual machine's scheduler.  LLMJVM_schedule notes that  *)
(* there is something to run and calls LLMJVM_IMPL_wakeupVM; and since     *)
(* that cancels the request, the scheduler asks for the earliest sleeping  *)
(* thread again before each idle.                                          *)
(***************************************************************************)
EXTENDS Integers

CONSTANTS
    VM,             \* the task of the virtual machine
    Natives,        \* native tasks that resume Java threads
    Uint32,         \* number of values of uint32_t and systime_t
    UsecPerTick,    \* CONFIG_USEC_PER_TICK
    RealTimes,      \* values of the real-time clock, ms
    Deadlines,      \* what Java threads sleep until, ms of platform time
    NoDeadline,
    MaxClock        \* bound: the clock stands still there, ticks go on

ASSUME LLMJvmAssumption ==
    /\ VM \notin Natives
    /\ {Uint32, UsecPerTick, MaxClock} \subseteq Nat \ {0}
    /\ RealTimes \subseteq Int
    /\ Deadlines \subseteq Nat
    /\ NoDeadline \notin Deadlines

VARIABLES
    clock,              \* clock_systimer()
    system_time_offset,
    vm_is_running,
    mutex,              \* value of the semaphore
    nextWakeUpTicks,
    wakeup,             \* where each task is in LLMJVM_IMPL_wakeupVM
    vm,                 \* where the virtual machine's task is
    sleeper,            \* when the earliest sleeping Java thread wakes up
    requested,          \* its wake-up has been asked for since the last idle
    pending             \* LLMJVM_schedule has been called

time_vars == <<clock, system_time_offset>>
wake_vars == <<mutex, nextWakeUpTicks, wakeup>>
java_vars == <<sleeper, requested, pending>>
vars == <<time_vars, vm_is_running, wake_vars, vm, java_vars>>

Tasks == Natives \union {VM}

UINT32_MAX == Uint32 - 1
ToUint32(x) == x % Uint32

(* nuttx/clock.h: both truncate. *)
MSEC_PER_TICK == UsecPerTick \div 1000
TICK_PER_MSEC == 1000 \div UsecPerTick

TypeOK ==
    /\ clock \in 0 .. MaxClock
    /\ system_time_offset \in Int
    /\ vm_is_running \in BOOLEAN
    /\ mutex \in Nat
    /\ nextWakeUpTicks \in 0 .. UINT32_MAX
    /\ wakeup \in [Tasks -> {"none", "test", "reset", "post"}]
    /\ vm \in {"init", "dispatch", "running", "late", "arm", "idle", "finalize",
               "ended", "aborted"}
    /\ sleeper \in Deadlines \union {NoDeadline}
    /\ requested \in BOOLEAN
    /\ pending \in BOOLEAN

Init ==
    /\ clock = 0
    /\ system_time_offset = 0
    /\ vm_is_running = FALSE
    /\ mutex = 0
    /\ nextWakeUpTicks = UINT32_MAX
    /\ wakeup = [t \in Tasks |-> "none"]
    /\ vm = "init"
    /\ sleeper = NoDeadline
    /\ requested = FALSE
    /\ pending = FALSE

-----------------------------------------------------------------------------
(* posix_time.c.  The product of two 32-bit numbers is one. *)
PlatformTime == ToUint32(MSEC_PER_TICK * clock)

posix_time_getcurrenttime(isPlatformTime) ==
    IF isPlatformTime THEN PlatformTime ELSE system_time_offset + PlatformTime

(* posix_time_initialize_system_time_offset and                             *)
(* posix_time_setapplicationtime: from now on the application time is t.    *)
SetOffset(t) == system_time_offset' = t - posix_time_getcurrenttime(TRUE)

-----------------------------------------------------------------------------
(* LLMJVM_schedule, called by task t: external, up to                       *)
(* LLMJVM_IMPL_wakeupVM.                                                    *)
Schedule(t) ==
    /\ pending' = TRUE
    /\ wakeup' = [wakeup EXCEPT ![t] = "test"]

\* Mutant: that no request is left is taken for a pending wake-up.
WakeupTestRequested(t) ==
    /\ wakeup[t] = "test"
    /\ wakeup' = [wakeup EXCEPT ![t] =
                    IF mutex <= 0 /\ nextWakeUpTicks # UINT32_MAX THEN "reset" ELSE "none"]
    /\ UNCHANGED <<time_vars, vm_is_running, mutex, nextWakeUpTicks, vm, java_vars>>

(* LLMJVM_IMPL_wakeupVM, step by step: nothing is done while a wake-up is   *)
(* pending.  sem_getvalue is negative while a task waits, here 0.           *)
WakeupTest(t) ==
    /\ wakeup[t] = "test"
    /\ wakeup' = [wakeup EXCEPT ![t] = IF mutex <= 0 THEN "reset" ELSE "none"]
    /\ UNCHANGED <<time_vars, vm_is_running, mutex, nextWakeUpTicks, vm, java_vars>>

WakeupReset(t) ==
    /\ wakeup[t] = "reset"
    /\ nextWakeUpTicks' = UINT32_MAX
    /\ wakeup' = [wakeup EXCEPT ![t] = "post"]
    /\ UNCHANGED <<time_vars, vm_is_running, mutex, vm, java_vars>>

WakeupPost(t) ==
    /\ wakeup[t] = "post"
    /\ mutex' = mutex + 1
    /\ wakeup' = [wakeup EXCEPT ![t] = "none"]
    /\ UNCHANGED <<time_vars, vm_is_running, nextWakeUpTicks, vm, java_vars>>

WakeupVM(t) == WakeupTest(t) \/ WakeupReset(t) \/ WakeupPost(t)

(* A native task resumes a Java thread. *)
Resume(n) ==
    /\ vm_is_running
    /\ wakeup[n] = "none"
    /\ Schedule(n)
    /\ UNCHANGED <<time_vars, vm_is_running, mutex, nextWakeUpTicks, vm, sleeper,
                   requested>>

\* board_timerhook: it is time to wake the virtual machine up.
Hook(now) == vm_is_running /\ nextWakeUpTicks <= now

(* The tick interrupt: the clock, then board_timerhook with all it calls.   *)
Tick ==
    /\ clock' = IF clock < MaxClock THEN clock + 1 ELSE clock
    /\ IF Hook(clock')
         THEN /\ pending' = TRUE
              /\ mutex' = IF mutex <= 0 THEN mutex + 1 ELSE mutex
              /\ nextWakeUpTicks' = IF mutex <= 0 THEN UINT32_MAX
                                                  ELSE nextWakeUpTicks
         ELSE UNCHANGED <<pending, mutex, nextWakeUpTicks>>
    /\ UNCHANGED <<system_time_offset, vm_is_running, wakeup, vm, sleeper, requested>>

-----------------------------------------------------------------------------
(* The virtual machine's task.                                              *)

(* LLMJVM_IMPL_initialize.  The hook does nothing before it ends, as        *)
(* nextWakeUpTicks is UINT32_MAX.                                           *)
Initialize ==
    /\ vm = "init"
    /\ mutex' = 0
    /\ vm_is_running' = TRUE
    /\ \E t \in RealTimes : SetOffset(t)
    /\ vm' = "dispatch"
    /\ UNCHANGED <<clock, nextWakeUpTicks, wakeup, java_vars>>

(* External: the scheduler runs what was resumed or has slept enough.       *)
Dispatch ==
    /\ vm = "dispatch"
    /\ pending' = FALSE
    /\ sleeper' = IF sleeper # NoDeadline /\ sleeper <= posix_time_getcurrenttime(TRUE)
                    THEN NoDeadline ELSE sleeper
    /\ requested' = FALSE
    /\ vm' = "running"
    /\ UNCHANGED <<time_vars, vm_is_running, wake_vars>>

(* External: a Java thread goes to sleep. *)
Sleep(d) ==
    /\ vm = "running"
    /\ sleeper = NoDeadline
    /\ d > posix_time_getcurrenttime(TRUE)
    /\ sleeper' = d
    /\ UNCHANGED <<time_vars, vm_is_running, wake_vars, vm, requested, pending>>

(* LLMJVM_IMPL_setApplicationTime. *)
SetApplicationTime(t) ==
    /\ vm = "running"
    /\ SetOffset(t)
    /\ UNCHANGED <<clock, vm_is_running, wake_vars, vm, java_vars>>

\* Mutant: nobody is told that the time has already come.
RequestSilent ==
    /\ vm = "running"
    /\ sleeper # NoDeadline /\ ~requested
    /\ vm' = IF sleeper <= posix_time_getcurrenttime(TRUE) THEN "late" ELSE "arm"
    /\ UNCHANGED <<time_vars, vm_is_running, wake_vars, java_vars>>

(* LLMJVM_IMPL_scheduleRequest, up to the comparison: time may go by before *)
(* the request is stored.                                                   *)
Request ==
    /\ vm = "running"
    /\ sleeper # NoDeadline /\ ~requested
    /\ IF sleeper <= posix_time_getcurrenttime(TRUE)
         THEN vm' = "late" /\ Schedule(VM)
         ELSE vm' = "arm" /\ UNCHANGED <<pending, wakeup>>
    /\ UNCHANGED <<time_vars, vm_is_running, mutex, nextWakeUpTicks, sleeper, requested>>

(* Its end when the time had come: LLMJVM_schedule has returned. *)
Disarm ==
    /\ vm = "late" /\ wakeup[VM] = "none"
    /\ nextWakeUpTicks' = UINT32_MAX
    /\ vm' = "running"
    /\ requested' = TRUE
    /\ UNCHANGED <<time_vars, vm_is_running, mutex, wakeup, sleeper, pending>>

(* Its end otherwise: 64-bit milliseconds become 32-bit ticks. *)
Arm ==
    /\ vm = "arm"
    /\ nextWakeUpTicks' = ToUint32(sleeper * TICK_PER_MSEC)
    /\ vm' = "running"
    /\ requested' = TRUE
    /\ UNCHANGED <<time_vars, vm_is_running, mutex, wakeup, sleeper, pending>>

(* External: the scheduler idles if there is nothing to run, or goes on.    *)
Idle ==
    /\ vm = "running"
    /\ sleeper = NoDeadline \/ requested
    /\ vm' = IF pending THEN "dispatch" ELSE "idle"
    /\ UNCHANGED <<time_vars, vm_is_running, wake_vars, java_vars>>

(* LLMJVM_IMPL_idleVM returns.  A wait that a signal interrupts is repeated.*)
Wake ==
    /\ vm = "idle" /\ mutex > 0
    /\ mutex' = mutex - 1
    /\ vm' = "dispatch"
    /\ UNCHANGED <<time_vars, vm_is_running, nextWakeUpTicks, wakeup, java_vars>>

(* LLMJVM_IMPL_shutdown: the hook is switched off, then the semaphore is    *)
(* destroyed, unless the assertion on a variable nobody has written ends    *)
(* the task.                                                                *)
Shutdown ==
    /\ vm = "running"
    /\ vm_is_running' = FALSE
    /\ vm' = "finalize"
    /\ UNCHANGED <<time_vars, wake_vars, java_vars>>

Finalize ==
    /\ vm = "finalize"
    /\ vm' \in {"ended", "aborted"}
    /\ UNCHANGED <<time_vars, vm_is_running, wake_vars, java_vars>>

-----------------------------------------------------------------------------
\* The scheduler's steps, as opposed to what Java code does.
Scheduler ==
    \/ Initialize \/ Dispatch \/ Request \/ Disarm \/ Arm \/ Idle \/ Wake
    \/ Finalize \/ WakeupVM(VM)

Java ==
    \/ \E d \in Deadlines : Sleep(d)
    \/ \E t \in RealTimes : SetApplicationTime(t)
    \/ Shutdown
=============================================================================
