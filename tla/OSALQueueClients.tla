--------------------------- MODULE OSALQueueClients ---------------------------
(***************************************************************************)
(* Tasks that use one OSAL queue as the repository does: any number of     *)
(* posters, and fetchers that loop on OSAL_queue_fetch with                *)
(* OSAL_INFINITE_TIME and test the returned status for OSAL_OK             *)
(* (microej_async_worker.c, MICROEJ_ASYNC_WORKER_loop).                    *)
(*                                                                         *)
(* Messages are numbered in the order their posts succeed, which tells     *)
(* them apart; `delivered` is the history of what fetchers got.            *)
(***************************************************************************)
EXTENDS Naturals, Sequences, FiniteSets

CONSTANTS
    Fetchers,
    NoMsg,
    MaxPosts    \* bound on the number of successful posts

ASSUME OSALQueueClientsAssumption ==
    /\ IsFiniteSet(Fetchers)
    /\ MaxPosts \in Nat
    /\ NoMsg \notin 1 .. MaxPosts

VARIABLES waiting_msg, fetch, msg, empty_returns, posted, delivered

vars == <<waiting_msg, fetch, msg, empty_returns, posted, delivered>>

Messages == 1 .. MaxPosts

Q == INSTANCE OSALQueue WITH Msgs <- Messages

Init ==
    /\ Q!Init
    /\ posted = 0
    /\ delivered = <<>>

Post ==
    /\ posted < MaxPosts
    /\ Q!Post(posted + 1)
    /\ posted' = posted + 1
    /\ UNCHANGED delivered

PostNoMem ==
    /\ Q!PostNoMem
    /\ UNCHANGED <<posted, delivered>>

(* A fetch that took a message off the list delivers it. *)
FetchStep(f) ==
    /\ Q!FetchStep(f)
    /\ delivered' = IF waiting_msg' # waiting_msg
                      THEN Append(delivered, msg'[f]) ELSE delivered
    /\ UNCHANGED posted

WaitEnds(f) ==
    /\ Q!WaitEnds(f)
    /\ UNCHANGED <<posted, delivered>>

Loop(f) ==
    /\ Q!Loop(f)
    /\ UNCHANGED <<posted, delivered>>

Next ==
    \/ Post
    \/ PostNoMem
    \/ \E f \in Fetchers : FetchStep(f) \/ WaitEnds(f) \/ Loop(f)

(* A task that can run does run: a woken fetcher gets the mutex, and the    *)
(* fetchers loop forever.  Nothing is assumed of posters, deadlines or      *)
(* spurious wake-ups.                                                       *)
Fairness == \A f \in Fetchers : WF_vars(FetchStep(f)) /\ WF_vars(Loop(f))

Spec == Init /\ [][Next]_vars /\ Fairness

-----------------------------------------------------------------------------
(* The types of the queue and of the histories. *)
TypeOK ==
    /\ Q!TypeOK
    /\ posted \in 0 .. MaxPosts
    /\ delivered \in Seq(Messages)

(* A fetcher sleeps on the condition only while every message on the list   *)
(* is already promised to another fetcher that has been signalled: posts    *)
(* and fetches that overlap lose no wake-up.                                *)
NoLostWakeup ==
    Q!At("waiting") # {} => Len(waiting_msg) <= Cardinality(Q!At("signalled"))

(* Across concurrent fetchers, failed posts and expired waits, messages are *)
(* delivered in the order of the posts, none twice and none skipped: what   *)
(* was delivered and what still waits is 1, 2, ..., posted.                 *)
InOrderExactlyOnce ==
    delivered \o waiting_msg = [i \in 1 .. posted |-> i]

(* Every message accepted with OSAL_OK is eventually handed to a fetcher.   *)
EveryMessageDelivered ==
    \A m \in Messages : posted >= m ~> Len(delivered) >= m
=============================================================================
