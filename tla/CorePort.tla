------------------------------ MODULE CorePort ------------------------------
(***************************************************************************)
(* The core of the port at work: the task of the virtual machine, which    *)
(* runs Java code and idles (LLMJvm), native tasks that resume Java        *)
(* threads, and the Shielded Plug through which Java and native tasks      *)
(* exchange data (LLShieldedPlug).  A task is in one function at a time.   *)
(***************************************************************************)
EXTENDS LLMJvm, FiniteSets

CONSTANTS
    Resumers,       \* native tasks that resume Java threads
    MaxIntrusions   \* bound, see LLShieldedPlug

ASSUME CorePortAssumption ==
    /\ IsFiniteSet(Natives)
    /\ Resumers \subseteq Natives
    /\ MaxIntrusions \in Nat

VARIABLES
    rw_access_mutex, task_mutex, access, unheard, intrusions

Plug == INSTANCE LLShieldedPlug

plug_vars == <<rw_access_mutex, access, task_mutex, unheard, intrusions>>
core_vars == <<vars, plug_vars>>

CoreTypeOK == TypeOK /\ Plug!PlugTypeOK

CoreInit == Init /\ Plug!PlugInit

\* Task t runs the program's code, and is in no function of the port.
Free(t) ==
    /\ access[t] = "out"
    /\ wakeup[t] = "none"
    /\ t = VM => vm = "running"

\* Java code, which shares one task, does not wait for writes.
PlugCall(t) ==
    /\ Free(t)
    /\ Plug!PlugCall(t)
    /\ access'[VM] # "wait"
    /\ UNCHANGED vars

\* A signal ends the wait of task t.
PlugInterrupt(t) == Plug!WaitInterrupted(t) /\ UNCHANGED vars

PlugStep(t) == Plug!PlugStep(t) /\ UNCHANGED vars

\* The virtual machine's task goes on with what it does outside the plug.
VmStep == access[VM] = "out" /\ Scheduler /\ UNCHANGED plug_vars
JavaStep == access[VM] = "out" /\ Java /\ UNCHANGED plug_vars
NativeResumes(n) == Free(n) /\ Resume(n) /\ UNCHANGED plug_vars
NativeWakesVM(n) == WakeupVM(n) /\ UNCHANGED plug_vars
Interrupt == Tick /\ UNCHANGED plug_vars

CoreNext ==
    \/ VmStep \/ JavaStep \/ Interrupt
    \/ \E n \in Resumers : NativeResumes(n) \/ NativeWakesVM(n)
    \/ \E t \in Tasks : PlugCall(t) \/ PlugStep(t) \/ PlugInterrupt(t)

(* Every task that can run does, and interrupts come for ever.  Java code   *)
(* gives way to the scheduler again and again, however often it accesses    *)
(* blocks: a virtual machine shares its time out.  Nothing is assumed of    *)
(* tasks that want to enter a block, nor of signals.                        *)
CoreFairness ==
    /\ SF_core_vars(VmStep)
    /\ WF_core_vars(Interrupt)
    /\ \A n \in Resumers : WF_core_vars(NativeWakesVM(n))
    /\ \A t \in Tasks : WF_core_vars(PlugStep(t))

CoreSpec == CoreInit /\ [][CoreNext]_core_vars /\ CoreFairness

-----------------------------------------------------------------------------
(* What LLShieldedPlug says of its semaphores, beside the virtual machine.  *)
ExclusiveAccess == Plug!ExclusiveAccess
WakeupHeard == Plug!WakeupHeard

\* Somebody has posted to the semaphore of the virtual machine, or will.
WakeupOnItsWay == mutex > 0 \/ \E t \in Tasks : wakeup[t] # "none"

(* The virtual machine sleeps only if nothing has been resumed, and if the  *)
(* next tick at which its earliest thread is due finds a request, unless    *)
(* a wake-up is on its way: no interleaving of the tick interrupt, native   *)
(* tasks and the request itself loses a wake-up or a request that counts.   *)
AsleepOnlyIfArmed ==
    vm = "idle" =>
        \/ WakeupOnItsWay
        \/ /\ ~pending
           /\ sleeper # NoDeadline => nextWakeUpTicks * MSEC_PER_TICK <= sleeper

(* A Java thread that has slept long enough runs, while clocks do not wrap. *)
SleeperDue == vm_is_running /\ sleeper # NoDeadline /\ sleeper <= PlatformTime
SleeperRuns == SleeperDue ~> ~SleeperDue
=============================================================================
