------------------------------ MODULE AsyncCall ------------------------------
(***************************************************************************)
(* What an async worker promises to the Java threads that call blocking    *)
(* natives through it (microej_async_worker.h), without jobs, lists,       *)
(* queues, callbacks or tasks:                                             *)
(*                                                                         *)
(*   - at most JobCount calls are in progress and at most WaitingListSize  *)
(*     threads wait for their turn;                                        *)
(*   - a call is refused only when that many threads wait already;         *)
(*   - each call that ends wakes the thread that has waited longest;       *)
(*   - accepted calls execute one at a time, in the order accepted, each   *)
(*     of them exactly once, and a call returns only after it executed.    *)
(*                                                                         *)
(* The promise ends with the first fetch of the worker that returns        *)
(* OSAL_OK without a message (`broken`): nothing is said from there on.    *)
(***************************************************************************)
EXTENDS Naturals, Sequences, FiniteSets

CONSTANTS Threads, JobCount, WaitingListSize

VARIABLES
    call,       \* where the current call of each thread is
    waiting,    \* the threads that wait for a job, first come first
    accepted,   \* the threads whose call is accepted, oldest first
    broken      \* the promise has ended

call_vars == <<call, waiting, accepted, broken>>

\* "none"     the thread runs Java code
\* "waiting"  waits for a job to be free
\* "woken"    told to try again
\* "started"  has a job, its parameters are being set
\* "accepted" its action will execute
\* "executed" its action has executed
\* "notified" it has been told so
CallStates ==
    {"none", "waiting", "woken", "started", "accepted", "executed", "notified"}

InProgress ==
    {t \in Threads : call[t] \in {"started", "accepted", "executed", "notified"}}

Init ==
    /\ call = [t \in Threads |-> "none"]
    /\ waiting = <<>>
    /\ accepted = <<>>
    /\ broken = FALSE

(* A call, or a woken call that tries again, gets a job. *)
Start(t) ==
    /\ call[t] \in {"none", "woken"}
    /\ Cardinality(InProgress) < JobCount
    /\ call' = [call EXCEPT ![t] = "started"]
    /\ UNCHANGED <<waiting, accepted>>

(* No job is free: wait. *)
Wait(t) ==
    /\ call[t] \in {"none", "woken"}
    /\ Cardinality(InProgress) = JobCount
    /\ Len(waiting) < WaitingListSize
    /\ call' = [call EXCEPT ![t] = "waiting"]
    /\ waiting' = Append(waiting, t)
    /\ UNCHANGED accepted

(* No job is free and the waiting list is full: the call fails.  (For a     *)
(* thread in "none" this is a stuttering step.)                             *)
Refuse(t) ==
    /\ call[t] = "woken"
    /\ Cardinality(InProgress) = JobCount
    /\ Len(waiting) = WaitingListSize
    /\ call' = [call EXCEPT ![t] = "none"]
    /\ UNCHANGED <<waiting, accepted>>

(* The end of a call frees its job and wakes the first waiter. *)
Finish(t) ==
    \/ /\ waiting = <<>>
       /\ call' = [call EXCEPT ![t] = "none"]
       /\ UNCHANGED waiting
    \/ /\ waiting # <<>>
       /\ call' = [call EXCEPT ![t] = "none", ![Head(waiting)] = "woken"]
       /\ waiting' = Tail(waiting)

(* The parameters are wrong or the job cannot be posted: the call fails. *)
Fail(t) ==
    /\ call[t] = "started"
    /\ Finish(t)
    /\ UNCHANGED accepted

Accept(t) ==
    /\ call[t] = "started"
    /\ call' = [call EXCEPT ![t] = "accepted"]
    /\ accepted' = Append(accepted, t)
    /\ UNCHANGED waiting

(* The oldest accepted call executes. *)
Execute ==
    /\ accepted # <<>>
    /\ call[Head(accepted)] = "accepted"
    /\ call' = [call EXCEPT ![Head(accepted)] = "executed"]
    /\ UNCHANGED <<waiting, accepted>>

(* Its thread is told before the next call executes. *)
Notify ==
    /\ accepted # <<>>
    /\ call[Head(accepted)] = "executed"
    /\ call' = [call EXCEPT ![Head(accepted)] = "notified"]
    /\ accepted' = Tail(accepted)
    /\ UNCHANGED waiting

Return(t) ==
    /\ call[t] = "notified"
    /\ Finish(t)
    /\ UNCHANGED accepted

Next ==
    \/ broken'
    \/ /\ UNCHANGED broken
       /\ \/ \E t \in Threads :
                Start(t) \/ Wait(t) \/ Refuse(t) \/ Fail(t) \/ Accept(t) \/ Return(t)
          \/ Execute
          \/ Notify

Spec == Init /\ [][Next]_call_vars
=============================================================================
