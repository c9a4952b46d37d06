------------------------------ MODULE OSALQueue ------------------------------
(***************************************************************************)
(* The message queue of the OSAL (osal/src/osal_posix.c): an unbounded     *)
(* linked list of messages behind a mutex, and a condition variable on     *)
(* which OSAL_queue_fetch waits until a deadline.                          *)
(*                                                                         *)
(* Every critical section under the mutex is one step.  A fetcher that     *)
(* has left pthread_cond_timedwait must re-acquire the mutex before it     *)
(* looks at the list, so leaving the wait and returning are two steps:     *)
(* posts and other fetches can happen in between.                          *)
(*                                                                         *)
(* The condition variable is external (POSIX): a signal moves one waiter,  *)
(* if there is one; a wait may also end without any signal, at the         *)
(* deadline or spuriously.                                                 *)
(***************************************************************************)
EXTENDS Naturals, Sequences

CONSTANTS
    Fetchers,   \* the tasks that fetch from the queue
    Msgs,       \* the messages (void * in the code)
    NoMsg       \* the content of a message pointer nobody has written yet

VARIABLES
    waiting_msg,    \* the linked list of posted messages, oldest first
    fetch,          \* where each fetcher is in OSAL_queue_fetch
    msg,            \* the variable each fetcher passes as `msg`
    empty_returns   \* history: fetchers that got OSAL_OK without a message

queue_vars == <<waiting_msg, fetch, msg, empty_returns>>

\* "idle"     outside OSAL_queue_fetch, about to call it
\* "waiting"  in pthread_cond_timedwait, on the condition
\* "signalled" left the wait with result 0, has yet to take the mutex
\* "expired"  left the wait with ETIMEDOUT, has yet to take the mutex
\* "returned" back in the caller, with the status OSAL_OK
FetchStates == {"idle", "waiting", "signalled", "expired", "returned"}

TypeOK ==
    /\ waiting_msg \in Seq(Msgs)
    /\ fetch \in [Fetchers -> FetchStates]
    /\ msg \in [Fetchers -> Msgs \union {NoMsg}]
    /\ empty_returns \in SUBSET Fetchers

(* OSAL_queue_create: an empty list, nobody waiting. *)
Init ==
    /\ waiting_msg = <<>>
    /\ fetch = [f \in Fetchers |-> "idle"]
    /\ msg = [f \in Fetchers |-> NoMsg]
    /\ empty_returns = {}

At(state) == {f \in Fetchers : fetch[f] = state}

-----------------------------------------------------------------------------
\* Mutant: the signal is sent only when the list was empty.
SignalWhenEmpty ==
    \/ /\ At("waiting") = {} \/ waiting_msg # <<>>
       /\ UNCHANGED fetch
    \/ /\ waiting_msg = <<>>
       /\ \E f \in At("waiting") : fetch' = [fetch EXCEPT ![f] = "signalled"]

(* pthread_cond_signal: wakes one of the waiters, or nobody. *)
Signal ==
    \/ /\ At("waiting") = {}
       /\ UNCHANGED fetch
    \/ \E f \in At("waiting") : fetch' = [fetch EXCEPT ![f] = "signalled"]

\* Mutant: linked_list_add inserts at the head.
AddFirst(m) == waiting_msg' = <<m>> \o waiting_msg

(* OSAL_linked_list_add: the node goes behind the last one. *)
Add(m) == waiting_msg' = Append(waiting_msg, m)

\* Mutant: the message is added without a signal.
PostNoSignal(m) ==
    /\ Add(m)
    /\ UNCHANGED <<fetch, msg, empty_returns>>

(* OSAL_queue_post when the list node is allocated: returns OSAL_OK. The    *)
(* size given to OSAL_queue_create is stored and never looked at.           *)
Post(m) ==
    /\ Add(m)
    /\ Signal
    /\ UNCHANGED <<msg, empty_returns>>

(* OSAL_queue_post when malloc fails: returns OSAL_NOMEM, the list is as it *)
(* was, and the condition is signalled all the same.                        *)
PostNoMem ==
    /\ Signal
    /\ UNCHANGED <<waiting_msg, msg, empty_returns>>

-----------------------------------------------------------------------------
\* Mutant: linked_list_get forgets to unlink the node.
TakeKeepsNode(f) ==
    /\ waiting_msg # <<>>
    /\ msg' = [msg EXCEPT ![f] = Head(waiting_msg)]
    /\ fetch' = [fetch EXCEPT ![f] = "returned"]
    /\ UNCHANGED <<waiting_msg, empty_returns>>

(* OSAL_linked_list_get, then the return with OSAL_OK. *)
Take(f) ==
    /\ waiting_msg # <<>>
    /\ msg' = [msg EXCEPT ![f] = Head(waiting_msg)]
    /\ waiting_msg' = Tail(waiting_msg)
    /\ fetch' = [fetch EXCEPT ![f] = "returned"]
    /\ UNCHANGED empty_returns

(* The error branches of OSAL_queue_fetch print, leave *msg alone and       *)
(* return `result`, which OSAL_linked_list_size has set to OSAL_OK.         *)
ReturnEmpty(f) ==
    /\ fetch' = [fetch EXCEPT ![f] = "returned"]
    /\ empty_returns' = empty_returns \union {f}
    /\ UNCHANGED <<waiting_msg, msg>>

\* Mutant: the wait starts without looking at the list first.
FetchNoLook(f) ==
    /\ fetch[f] = "idle"
    /\ fetch' = [fetch EXCEPT ![f] = "waiting"]
    /\ UNCHANGED <<waiting_msg, msg, empty_returns>>

(* OSAL_queue_fetch up to its return or its wait. *)
Fetch(f) ==
    /\ fetch[f] = "idle"
    /\ \/ Take(f)
       \/ /\ waiting_msg = <<>>
          /\ fetch' = [fetch EXCEPT ![f] = "waiting"]
          /\ UNCHANGED <<waiting_msg, msg, empty_returns>>

(* pthread_cond_timedwait returned 0 and the mutex is held again: the list  *)
(* is looked at once more.                                                  *)
Wake(f) ==
    /\ fetch[f] = "signalled"
    /\ \/ Take(f)
       \/ waiting_msg = <<>> /\ ReturnEmpty(f)

(* pthread_cond_timedwait returned ETIMEDOUT and the mutex is held again:   *)
(* the list is not looked at.                                               *)
WakeExpired(f) ==
    /\ fetch[f] = "expired"
    /\ ReturnEmpty(f)

(* The deadline passes.  OSAL_INFINITE_TIME is no special value: it is a    *)
(* deadline 2^32-1 ms ahead on CLOCK_REALTIME, which a step of that clock   *)
(* brings closer.                                                           *)
Expire(f) ==
    /\ fetch[f] = "waiting"
    /\ fetch' = [fetch EXCEPT ![f] = "expired"]
    /\ UNCHANGED <<waiting_msg, msg, empty_returns>>

(* A wait that ends with 0 and without a signal. *)
Spurious(f) ==
    /\ fetch[f] = "waiting"
    /\ fetch' = [fetch EXCEPT ![f] = "signalled"]
    /\ UNCHANGED <<waiting_msg, msg, empty_returns>>

(* The caller is done with the message and loops to its next fetch. *)
Loop(f) ==
    /\ fetch[f] = "returned"
    /\ fetch' = [fetch EXCEPT ![f] = "idle"]
    /\ UNCHANGED <<waiting_msg, msg, empty_returns>>

-----------------------------------------------------------------------------
(* The steps of one fetcher inside OSAL_queue_fetch. *)
FetchStep(f) == Fetch(f) \/ Wake(f) \/ WakeExpired(f)

(* The wait ends although nobody posted. *)
WaitEnds(f) == Expire(f) \/ Spurious(f)
=============================================================================
