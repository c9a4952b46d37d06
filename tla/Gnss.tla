-------------------------------- MODULE Gnss --------------------------------
(***************************************************************************)
(* The positioning service (gnss_functions.c) and its list of waiting      *)
(* threads (microej_list.c).  A fetch adds its Java thread to the list and *)
(* suspends it; the signalling thread consumes the list at each signal of  *)
(* the driver: it resumes each thread and deletes its node.                *)
(*                                                                         *)
(* The list has no lock.  Its nodes are modelled as the array they are,    *)
(* linked by `next`; each load and each store of it that the other task    *)
(* can tell apart is a step.  The driver and SNI are external.             *)
(*                                                                         *)
(* Actors: the virtual machine task (vm), in which natives run one at a    *)
(* time, and the signalling thread (signo).                                *)
(***************************************************************************)
EXTENDS Naturals, FiniteSets

CONSTANTS
    Threads,        \* Java threads
    NoThread,
    Size,           \* size of java_thread_id_list
    MaxSessions     \* bound: how often GNSS_initialize is called

Null == 0
Nodes == 1 .. Size

ASSUME GnssAssumption ==
    /\ NoThread \notin Threads
    /\ {Size, MaxSessions} \subseteq Nat \ {0}

VARIABLES
    sessions,           \* calls of gnss_init
    open,               \* gnss.fd is an open descriptor
    started,            \* the driver signals
    signal,             \* a signal is pending
    running, data_ready,
    first, free,        \* first_node, free_nodes
    next, item,         \* the nodes
    vm,                 \* the native of the VM task: its thread, its locals
    signo,              \* the signalling thread: its locals
    thread,             \* what each Java thread does
    resumed,            \* SNI: a resume of the thread is pending
    raced               \* history: the two tasks met (Race)

driver_vars == <<open, started, signal>>
list_vars == <<first, free, next, item>>
sni_vars == <<thread, resumed>>
code_vars == <<sessions, driver_vars, running, data_ready, list_vars, vm, signo,
               sni_vars>>
vars == <<code_vars, raced>>

-----------------------------------------------------------------------------
Pointers == Nodes \union {Null}

\* The locals of microej_list_add: tmp_node, its successor, current_node_ptr.
Idle == [pc |-> "idle", thread |-> NoThread, node |-> Null, after |-> Null,
         current |-> Null]

\* The locals of microej_list_consume (current, tmp, the item) and of the
\* microej_list_delete it calls (current_node_ptr, the node and its successor).
None == [pc |-> "none", current |-> Null, tmp |-> Null, item |-> NoThread,
         at |-> Null, node |-> Null, after |-> Null]

\* Suspended in a fetch, with a node in the list or without.
Asleep == {"suspended", "unlisted"}

Adding == {"alloc", "pop", "head", "set_first", "walk", "append"}
Consuming == {"visit", "resume", "search", "unlink", "free", "push"}

TypeOK ==
    /\ sessions \in 0 .. MaxSessions
    /\ {open, started, signal, running, data_ready} \subseteq BOOLEAN
    /\ first \in Pointers /\ free \in Pointers
    /\ next \in [Nodes -> Pointers]
    /\ item \in [Nodes -> Threads \union {NoThread}]
    /\ vm \in [pc : Adding \union {"idle", "suspend", "join"},
               thread : Threads \union {NoThread},
               node : Pointers, after : Pointers, current : Pointers]
    /\ signo \in [pc : Consuming \union {"none", "wait"},
                  current : Pointers, tmp : Pointers,
                  item : Threads \union {NoThread}, at : Pointers, node : Pointers,
                  after : Pointers]
    /\ thread \in [Threads -> {"java", "native"} \union Asleep]
    /\ resumed \in [Threads -> BOOLEAN]
    /\ raced \in BOOLEAN

(* MICROEJ_LIST_declare: the nodes are linked by microej_list_initialize.   *)
Init ==
    /\ sessions = 0
    /\ open = FALSE /\ started = FALSE /\ signal = FALSE
    /\ running = FALSE /\ data_ready = FALSE
    /\ first = Null /\ free = 1
    /\ next = [n \in Nodes |-> Null]
    /\ item = [n \in Nodes |-> NoThread]
    /\ vm = Idle /\ signo = None
    /\ thread = [t \in Threads |-> "java"]
    /\ resumed = [t \in Threads |-> FALSE]
    /\ raced = FALSE

-----------------------------------------------------------------------------
(* Natives.                                                                 *)
Callable(t) == vm = Idle /\ thread[t] = "java"

\* microej_list_initialize links `size` nodes from the head of the free list,
\* wherever it is.
Relinked ==
    [n \in Nodes |-> IF free # Null /\ n >= free /\ n < free + Size - 1
                     THEN n + 1 ELSE next[n]]

(* GNSS_initialize.  Java calls it first, and again after a close only.  A  *)
(* step that fails closes the descriptor and no thread is created.  Whether *)
(* pthread_create creates it is not looked at.                              *)
Initialize(t) ==
    /\ Callable(t)
    /\ ~open /\ signo.pc = "none"
    /\ sessions < MaxSessions
    /\ sessions' = sessions + 1
    /\ next' = Relinked
    /\ \/ /\ open' = TRUE /\ running' = TRUE
          /\ signo' \in {[None EXCEPT !.pc = "wait"], None}
       \/ /\ running' \in {running, FALSE}     \* FALSE: by gnss_close
          /\ UNCHANGED <<open, signo>>
    /\ UNCHANGED <<started, signal, data_ready, first, free, item, vm, sni_vars>>

(* GNSS_start, GNSS_stop: the driver starts and stops to signal.  A start   *)
(* that fails stops.                                                        *)
Start(t) ==
    /\ Callable(t) /\ open
    /\ started' \in BOOLEAN
    /\ UNCHANGED <<sessions, open, signal, running, data_ready, list_vars, vm,
                   signo, sni_vars>>

Stop(t) ==
    /\ Callable(t) /\ open
    /\ started' \in {FALSE, started}
    /\ UNCHANGED <<sessions, open, signal, running, data_ready, list_vars, vm,
                   signo, sni_vars>>

(* GNSS_close up to pthread_join.                                           *)
Close(t) ==
    /\ Callable(t) /\ open
    /\ open' = FALSE /\ started' = FALSE /\ signal' \in {signal, FALSE}
    /\ running' = FALSE
    /\ thread' = [thread EXCEPT ![t] = "native"]
    /\ vm' = [Idle EXCEPT !.pc = "join", !.thread = t]
    /\ UNCHANGED <<sessions, data_ready, list_vars, signo, resumed>>

CloseEnds ==
    /\ vm.pc = "join" /\ signo.pc = "none"
    /\ vm' = Idle
    /\ thread' = [thread EXCEPT ![vm.thread] = "java"]
    /\ UNCHANGED <<sessions, driver_vars, running, data_ready, list_vars, signo,
                   resumed>>

(* GNSS_fetch: gnss_fetch up to microej_list_add.  Java fetches from what   *)
(* it initialized.                                                          *)
Fetch(t) ==
    /\ Callable(t) /\ open
    /\ thread' = [thread EXCEPT ![t] = "native"]
    /\ vm' = [Idle EXCEPT !.pc = "alloc", !.thread = t]
    /\ UNCHANGED <<sessions, driver_vars, running, data_ready, list_vars, signo,
                   resumed>>

-----------------------------------------------------------------------------
(* microej_list_add: a new node, and a walk to the end of the list.         *)
InAdd == UNCHANGED <<sessions, driver_vars, running, data_ready, signo, sni_vars>>

(* microej_list_node_alloc, its loads.  Without a free node the thread is   *)
(* suspended all the same.                                                  *)
Add_Alloc ==
    /\ vm.pc = "alloc"
    /\ vm' = IF free = Null
             THEN [vm EXCEPT !.pc = "suspend"]
             ELSE [vm EXCEPT !.pc = "pop", !.node = free, !.after = next[free]]
    /\ UNCHANGED list_vars /\ InAdd

(* Its store, and the content of the node.                                  *)
Add_Pop ==
    /\ vm.pc = "pop"
    /\ free' = vm.after
    /\ item' = [item EXCEPT ![vm.node] = vm.thread]
    /\ next' = [next EXCEPT ![vm.node] = Null]
    /\ vm' = [vm EXCEPT !.pc = "head"]
    /\ UNCHANGED first /\ InAdd

Add_Head ==
    /\ vm.pc = "head"
    /\ vm' = IF first = Null
             THEN [vm EXCEPT !.pc = "set_first"]
             ELSE [vm EXCEPT !.pc = "walk", !.current = first]
    /\ UNCHANGED list_vars /\ InAdd

Add_SetFirst ==
    /\ vm.pc = "set_first"
    /\ first' = vm.node
    /\ vm' = [vm EXCEPT !.pc = "suspend"]
    /\ UNCHANGED <<free, next, item>> /\ InAdd

Add_Walk ==
    /\ vm.pc = "walk"
    /\ vm' = IF next[vm.current] = Null
             THEN [vm EXCEPT !.pc = "append"]
             ELSE [vm EXCEPT !.current = next[@]]
    /\ UNCHANGED list_vars /\ InAdd

Add_Append ==
    /\ vm.pc = "append"
    /\ next' = [next EXCEPT ![vm.current] = vm.node]
    /\ vm' = [vm EXCEPT !.pc = "suspend"]
    /\ UNCHANGED <<first, free, item>> /\ InAdd

Add == Add_Alloc \/ Add_Pop \/ Add_Head \/ Add_SetFirst \/ Add_Walk \/ Add_Append

(* gnss_fetch, the end: SNI_suspendCurrentJavaThread takes effect when the  *)
(* native returns, so that the data is read first, if a signal ever came.   *)
Suspend ==
    /\ vm.pc = "suspend"
    /\ vm' = Idle
    /\ thread' = [thread EXCEPT ![vm.thread] =
                      IF resumed[vm.thread] THEN "java"
                      ELSE IF vm.node = Null THEN "unlisted" ELSE "suspended"]
    /\ resumed' = [resumed EXCEPT ![vm.thread] = FALSE]
    /\ UNCHANGED <<sessions, driver_vars, running, data_ready, list_vars, signo>>

(* The thread's id is passed for the timeout of the suspension, in ms.      *)
Timeout(t) ==
    /\ thread[t] \in Asleep
    /\ thread' = [thread EXCEPT ![t] = "java"]
    /\ UNCHANGED <<sessions, driver_vars, running, data_ready, list_vars, vm,
                   signo, resumed>>

-----------------------------------------------------------------------------
(* The signalling thread: gnss_signo, microej_list_consume.                 *)
InConsume == UNCHANGED <<sessions, driver_vars, running, data_ready, vm>>

(* sigtimedwait returns a signal.                                           *)
Signalled ==
    /\ signo.pc = "wait" /\ signal
    /\ signal' = FALSE
    /\ data_ready' = TRUE
    /\ signo' = [None EXCEPT !.pc = "visit", !.current = first]
    /\ UNCHANGED <<sessions, open, started, running, list_vars, vm, sni_vars>>

\* Mutant: the end of the service is not looked at.
QuietForever ==
    /\ signo.pc = "wait" /\ ~signal
    /\ UNCHANGED vars

(* It times out after 100 ms: the thread ends once running is false.        *)
Quiet ==
    /\ signo.pc = "wait" /\ ~signal
    /\ ~running
    /\ signo' = None
    /\ UNCHANGED <<sessions, driver_vars, running, data_ready, list_vars, vm, sni_vars>>

(* One turn of microej_list_consume: the loads, or the end of the list.     *)
Consume_Visit ==
    /\ signo.pc = "visit"
    /\ signo' =
        CASE signo.current # Null ->
                [signo EXCEPT !.pc = "resume", !.tmp = next[signo.current],
                              !.item = item[signo.current]]
          [] signo.current = Null /\ running -> [None EXCEPT !.pc = "wait"]
          [] signo.current = Null /\ ~running -> None
    /\ UNCHANGED <<list_vars, sni_vars>> /\ InConsume

\* Mutant: the thread is deleted and not resumed.
Consume_ResumeNobody ==
    /\ signo.pc = "resume"
    /\ signo' = [signo EXCEPT !.pc = "search", !.at = first]
    /\ UNCHANGED <<list_vars, sni_vars>> /\ InConsume

(* microej_list_thread_id_consume.                                          *)
Consume_Resume ==
    LET t == signo.item
    IN  /\ signo.pc = "resume"
        /\ thread' = [thread EXCEPT ![t] = IF @ \in Asleep THEN "java" ELSE @]
        /\ resumed' = [resumed EXCEPT ![t] = thread[t] \notin Asleep]
        /\ signo' = [signo EXCEPT !.pc = "search", !.at = first]
        /\ UNCHANGED list_vars /\ InConsume

(* microej_list_delete: the search.  The node is the first, the next one of *)
(* another, or not there; the loads of its unlinking.                       *)
Delete_Search ==
    LET at == signo.at
        Found(previous, node) ==
            [signo EXCEPT !.pc = "unlink", !.at = previous, !.node = node,
                          !.after = next[node]]
        NotFound == [signo EXCEPT !.pc = "visit", !.current = signo.tmp]
    IN  /\ signo.pc = "search"
        /\ signo' =
            IF at = Null THEN NotFound
            ELSE IF at = first /\ item[at] = signo.item THEN Found(Null, at)
            ELSE IF next[at] = Null THEN NotFound
            ELSE IF item[next[at]] = signo.item THEN Found(at, next[at])
            ELSE [signo EXCEPT !.at = next[at]]
        /\ UNCHANGED <<list_vars, sni_vars>> /\ InConsume

\* Mutant: the node is given back without being unlinked.
Delete_UnlinkNothing ==
    /\ signo.pc = "unlink"
    /\ signo' = [signo EXCEPT !.pc = "free"]
    /\ UNCHANGED <<list_vars, sni_vars>> /\ InConsume

(* Its store: list->first_node, or the next of the node before.             *)
Delete_Unlink ==
    /\ signo.pc = "unlink"
    /\ IF signo.at = Null
         THEN first' = signo.after /\ UNCHANGED next
         ELSE next' = [next EXCEPT ![signo.at] = signo.after] /\ UNCHANGED first
    /\ signo' = [signo EXCEPT !.pc = "free"]
    /\ UNCHANGED <<free, item, sni_vars>> /\ InConsume

(* microej_list_node_free.                                                  *)
Free_Link ==
    /\ signo.pc = "free"
    /\ next' = [next EXCEPT ![signo.node] = free]
    /\ signo' = [signo EXCEPT !.pc = "push"]
    /\ UNCHANGED <<first, free, item, sni_vars>> /\ InConsume

Free_Push ==
    /\ signo.pc = "push"
    /\ free' = signo.node
    /\ signo' = [signo EXCEPT !.pc = "visit", !.current = signo.tmp]
    /\ UNCHANGED <<first, next, item, sni_vars>> /\ InConsume

Consume ==
    \/ Consume_Visit \/ Consume_Resume \/ Delete_Search
    \/ Delete_Unlink \/ Free_Link \/ Free_Push

(* External: the driver signals a position.                                 *)
DriverSignals ==
    /\ started /\ ~signal
    /\ signal' = TRUE
    /\ UNCHANGED <<sessions, open, started, running, data_ready, list_vars, vm,
                   signo, sni_vars>>

-----------------------------------------------------------------------------
Call(t) == Initialize(t) \/ Start(t) \/ Stop(t) \/ Close(t) \/ Fetch(t)
VmTask == Add \/ Suspend \/ CloseEnds
Signo == Signalled \/ Quiet \/ Consume

\* One task is about to store to the free list what it loaded before the other
\* one's store; or the node being unlinked is where the walk of a fetch is.
Race ==
    \/ vm.pc = "pop" /\ signo.pc = "push"
    \/ vm.pc \in {"walk", "append"} /\ signo.pc = "unlink" /\ vm.current = signo.node

Step ==
    \/ \E t \in Threads : Call(t) \/ Timeout(t)
    \/ VmTask \/ Signo \/ DriverSignals

Next == Step /\ raced' = (raced \/ Race')

Spec == Init /\ [][Next]_vars

(* Both tasks run and a suspension without a resume times out.              *)
FairSpec ==
    /\ Spec
    /\ WF_code_vars(VmTask) /\ WF_code_vars(Signo)
    /\ \A t \in Threads : WF_code_vars(Timeout(t))

-----------------------------------------------------------------------------
\* Where a chain of nodes leads in k steps.
Reached(from) ==
    LET node[k \in 0 .. Size] ==
            IF k = 0 THEN from ELSE IF node[k - 1] = Null THEN Null ELSE next[node[k - 1]]
    IN  node

Chain(from) == {Reached(from)[k] : k \in 0 .. Size} \ {Null}
Ends(from) == Reached(from)[Size] = Null

Listed == {item[n] : n \in Chain(first)}

(* When nobody is in the list, every node is either waiting or free, and    *)
(* both chains end: no node is lost, shared or linked in a circle.  The two *)
(* tasks may have been in the list together, in any steps but those of      *)
(* Race: of all the loads and stores done without a lock those are the only *)
(* ones that cost nodes, until the list is initialized again.               *)
NodeOwnership ==
    sessions = 1 /\ ~raced /\ vm.pc \notin Adding /\ signo.pc \notin Consuming
        => /\ Ends(first) /\ Ends(free)
           /\ Chain(first) \union Chain(free) = Nodes
           /\ Chain(first) \intersect Chain(free) = {}

(* A thread suspended in a fetch that got a node is in the list until it is *)
(* resumed: the deletion by thread of an older entry of it (its suspension  *)
(* timed out), of one it was resumed for just before it fetched again or    *)
(* while it fetched, takes none that a signal is still to find.             *)
WaitersListed ==
    sessions = 1 /\ ~raced
        => \A t \in Threads : thread[t] = "suspended" => t \in Listed

(* The virtual machine task gets out of every native: of a close, which     *)
(* waits for a signalling thread that signals may keep busy and that may    *)
(* not exist, and of a fetch, whose walk goes along a list being consumed.  *)
(* Only a race can hold it there: see README.md.                            *)
NativesReturn == vm # Idle ~> vm = Idle \/ raced

(* microej_list_add returns MICROEJ_LIST_SUCCESS when the item is in the    *)
(* list.                                                                    *)
AddedIsListed ==
    [][vm.pc \in {"set_first", "append"} /\ vm'.pc = "suspend"
           => vm.node \in Chain(first)']_vars

(* The nodes microej_list_initialize links are those of the array.          *)
InitializesItsNodes ==
    [][sessions' # sessions => free \in Nodes /\ free + Size - 1 \in Nodes]_vars
=============================================================================
