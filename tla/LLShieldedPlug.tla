--------------------------- MODULE LLShieldedPlug ---------------------------
(***************************************************************************)
(* The synchronization of the Shielded Plug databases, LLSP_impl.c: one    *)
(* semaphore around every read and every write of a block, and one on      *)
(* which the tasks wait that want to hear of a write.  A semaphore is      *)
(* posted to only after a look at its value, in a second step, and what    *)
(* sem_wait returns is not looked at: it may have been interrupted.        *)
(* LLSP_IMPL_initialize may be called at any time, by any task.            *)
(*                                                                         *)
(* External: the Shielded Plug, which calls Enter and Exit in pairs, and   *)
(* wakes up tasks that wait, each as often as it likes.                    *)
(***************************************************************************)
EXTENDS Naturals, FiniteSets

CONSTANTS
    Tasks,
    MaxIntrusions   \* bound: from so many on, no Enter is interrupted and
                    \* nobody calls LLSP_IMPL_initialize

VARIABLES
    rw_access_mutex, task_mutex,    \* values of the semaphores
    access,         \* where each task is
    unheard,        \* history: LLSP_IMPL_wakeup was called, and no wait has got
                    \* the semaphore since
    intrusions      \* history: blocks entered without the semaphore, and
                    \* initializations that handed it out again

wait_vars == <<task_mutex, unheard>>
plug_vars == <<rw_access_mutex, access, wait_vars, intrusions>>

\* "init": in LLSP_IMPL_initialize.  "in" and "exit": between Enter and Exit,
\* in Exit.  "wait": in LLSP_IMPL_wait.  "test", "post": in LLSP_IMPL_wakeup.
AccessStates == {"out", "init", "in", "exit", "wait", "test", "post"}

PlugTypeOK ==
    /\ rw_access_mutex \in Nat
    /\ task_mutex \in Nat
    /\ access \in [Tasks -> AccessStates]
    /\ unheard \in BOOLEAN
    /\ intrusions \in Nat

(* Both semaphores are static variables; task_mutex stays as it is.         *)
PlugInit ==
    /\ rw_access_mutex = 0
    /\ task_mutex = 0
    /\ access = [t \in Tasks |-> "out"]
    /\ unheard = FALSE
    /\ intrusions = 0

InBlock(t) == access[t] \in {"in", "exit"}
Users == {t \in Tasks : InBlock(t)}

-----------------------------------------------------------------------------
\* sem_init: whatever the value was, it is 1.
SemInit ==
    /\ rw_access_mutex' = 1
    /\ intrusions' = IF rw_access_mutex = 0 /\ Users # {} THEN intrusions + 1 ELSE intrusions
    /\ UNCHANGED wait_vars

(* LLSP_IMPL_initialize initializes rw_access_mutex, and then once more.    *)
PlugInitialize(t) ==
    /\ access[t] = "out"
    /\ intrusions < MaxIntrusions
    /\ access' = [access EXCEPT ![t] = "init"]
    /\ SemInit

PlugInitializeAgain(t) ==
    /\ access[t] = "init"
    /\ access' = [access EXCEPT ![t] = "out"]
    /\ SemInit

-----------------------------------------------------------------------------
(* LLSP_IMPL_syncWriteBlockEnter, LLSP_IMPL_syncReadBlockEnter.  A wait     *)
(* that is interrupted is taken for one that got the semaphore.             *)
Enter(t) ==
    /\ access[t] = "out"
    /\ access' = [access EXCEPT ![t] = "in"]
    /\ \/ /\ rw_access_mutex > 0
          /\ rw_access_mutex' = rw_access_mutex - 1
          /\ UNCHANGED intrusions
       \/ /\ rw_access_mutex = 0 /\ intrusions < MaxIntrusions
          /\ intrusions' = intrusions + 1
          /\ UNCHANGED rw_access_mutex
    /\ UNCHANGED wait_vars

\* Mutant: the semaphore is posted to at once, and again by ExitPost.
ExitTwice(t) ==
    /\ access[t] = "in"
    /\ rw_access_mutex' = rw_access_mutex + 1
    /\ access' = [access EXCEPT ![t] = "exit"]
    /\ UNCHANGED <<wait_vars, intrusions>>

(* LLSP_IMPL_syncWriteBlockExit, LLSP_IMPL_syncReadBlockExit: the look at   *)
(* the value, and the post.                                                 *)
Exit(t) ==
    /\ access[t] = "in"
    /\ access' = [access EXCEPT ![t] = IF rw_access_mutex <= 0 THEN "exit" ELSE "out"]
    /\ UNCHANGED <<rw_access_mutex, wait_vars, intrusions>>

ExitPost(t) ==
    /\ access[t] = "exit"
    /\ rw_access_mutex' = rw_access_mutex + 1
    /\ access' = [access EXCEPT ![t] = "out"]
    /\ UNCHANGED <<wait_vars, intrusions>>

-----------------------------------------------------------------------------
(* LLSP_IMPL_wait: to be about to wait for a semaphore and to wait for it   *)
(* are the same.                                                            *)
Wait(t) ==
    /\ access[t] = "out"
    /\ access' = [access EXCEPT ![t] = "wait"]
    /\ UNCHANGED <<rw_access_mutex, wait_vars, intrusions>>

\* Task t leaves LLSP_IMPL_wait, which answers LLSP_OK in any case.
Returns(t) ==
    /\ access[t] = "wait"
    /\ access' = [access EXCEPT ![t] = "out"]
    /\ UNCHANGED <<rw_access_mutex, intrusions>>

(* LLSP_IMPL_wait gets the semaphore, whoever was to be woken up.           *)
WaitReturns(t) ==
    /\ Returns(t)
    /\ task_mutex > 0
    /\ task_mutex' = task_mutex - 1
    /\ unheard' = FALSE

(* LLSP_IMPL_wait is interrupted.                                           *)
WaitInterrupted(t) ==
    /\ Returns(t)
    /\ task_mutex = 0
    /\ UNCHANGED <<task_mutex, unheard>>

(* Task t calls LLSP_IMPL_wakeup for u. *)
Wakeup(t, u) ==
    /\ access[t] = "out"
    /\ access[u] = "wait"
    /\ unheard' = TRUE
    /\ access' = [access EXCEPT ![t] = "test"]
    /\ UNCHANGED <<rw_access_mutex, task_mutex, intrusions>>

\* Mutant: the comparison is the wrong way round.
WakeupTestReversed(t) ==
    /\ access[t] = "test"
    /\ access' = [access EXCEPT ![t] = IF task_mutex > 0 THEN "post" ELSE "out"]
    /\ UNCHANGED <<rw_access_mutex, wait_vars, intrusions>>

(* LLSP_IMPL_wakeup: the look at the value, and the post. *)
WakeupTest(t) ==
    /\ access[t] = "test"
    /\ access' = [access EXCEPT ![t] = IF task_mutex <= 0 THEN "post" ELSE "out"]
    /\ UNCHANGED <<rw_access_mutex, wait_vars, intrusions>>

WakeupPost(t) ==
    /\ access[t] = "post"
    /\ task_mutex' = task_mutex + 1
    /\ access' = [access EXCEPT ![t] = "out"]
    /\ UNCHANGED <<rw_access_mutex, unheard, intrusions>>

-----------------------------------------------------------------------------
\* What task t does in an LLSP function it has called.
PlugStep(t) ==
    \/ PlugInitializeAgain(t)
    \/ Exit(t) \/ ExitPost(t)
    \/ WaitReturns(t)
    \/ WakeupTest(t) \/ WakeupPost(t)

PlugCall(t) ==
    \/ PlugInitialize(t)
    \/ Enter(t)
    \/ Wait(t)
    \/ \E u \in Tasks : Wakeup(t, u)

PlugNext == \E t \in Tasks : PlugCall(t) \/ PlugStep(t) \/ WaitInterrupted(t)

PlugSpec == PlugInit /\ [][PlugNext]_plug_vars

-----------------------------------------------------------------------------
(* Each wait for a block that was interrupted, and each initialization that *)
(* took no heed of users, lets one more task in, and nothing else does: the *)
(* exits look at the value and post in two steps and several tasks may be   *)
(* there at once, but they hand an intrusion on and never add to it.  With  *)
(* none of the two, one task at a time is in a block.                       *)
ExclusiveAccess ==
    Cardinality(Users) + rw_access_mutex <= 1 + intrusions

(* A call of LLSP_IMPL_wakeup that no wait has ended for is in the          *)
(* semaphore, or on its way there: of the look at the value and the post,   *)
(* calls that overlap and waits that end in between, none loses the last    *)
(* one.  So the tasks that wait are never all left waiting.                 *)
WakeupHeard ==
    unheard => \/ task_mutex > 0
               \/ \E t \in Tasks : access[t] \in {"test", "post"}
=============================================================================
