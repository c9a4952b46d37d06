-------------------------- MODULE AudioPlayerProofs --------------------------
(***************************************************************************)
(* Theorems about AudioPlayer, for every number of threads, every FIFO and *)
(* every size of the files.                                                *)
(***************************************************************************)
EXTENDS AudioPlayer, Integers, TLAPS

-----------------------------------------------------------------------------
(* The inductive invariant.                                                 *)

(* The push loop, and what it has read. *)
PushFits ==
    /\ pc["player"] \notin {"read", "offer"} => push = NoPush
    /\ pc["player"] \in {"read", "offer"} => push.left >= 1
    /\ pc["player"] # "offer" => read_buf = 0
    /\ file_open \/ pc["player"] = "offer" => unread + read_buf <= size

(* Where the calling thread is: it has opened a file and not yet set the    *)
(* status PLAYING; it is in the loop of app_play_process, or at its end.    *)
Opened == pc["player"] \in {"clock", "app_start", "run"} \/ push.first
InLoop == pc["player"] \in {"refill", "read", "offer", "again", "check"} /\ ~push.first

StatusFits == status = "PLAYING" => InLoop \/ pc["player"] = "set"

(* The virtual machine task serves the one thread that is in a native. *)
NativeFits ==
    /\ vm = Idle <=> pc["vm"] = "idle"
    /\ \A t \in Threads : thread[t] = "native" <=> t = vm.thread
    /\ pc["vm"] = "suspend" => vm.op = "play"
    /\ pc["vm"] = "join" <=> vm.op = "close"
    /\ pc["vm"] \in {"suspend", "join"} => java_thread_id = vm.thread

(* The calling thread is gone, or leaves, when the player is closed only:   *)
(* a close waits for it, and a song that is paused keeps it.                *)
LeaveFits ==
    /\ pc["player"] = "none" => status = "NULL"
    /\ pc["player"] = "leave" => pc["vm"] = "join"
    /\ pc["vm"] = "join" => order_id = "CLOSE"
    /\ order_id = "CLOSE" /\ sem > 0 /\ pc["player"] \notin {"none", "start"} => pc["vm"] = "join"
    /\ VmStopping => pc["player"] \notin {"none", "start", "leave"}
    /\ pc["vm"] = "return" /\ ret["vm"] => pc["player"] # "none"

Base == TypeOK /\ PushFits /\ StatusFits /\ NativeFits /\ LeaveFits

(* Undisturbed, thread by thread. *)
Waits(t) == thread[t] = "play" \/ (pc["vm"] \in {"suspend", "join"} /\ vm.thread = t)
Alone == \A t \in Threads : Waits(t) => t = java_thread_id

Ready == pc["player"] \in {"none", "start", "wait"}

(* One order at a time: it is posted, or the calling thread is at it, or it *)
(* is answered and its thread has not noticed yet.                          *)
OrdersFit ==
    /\ sem <= 1
    /\ sem = 1 => pc["player"] \in {"start", "wait"}
    /\ sem = 1 \/ ~Ready =>
          /\ java_thread_id \in Threads /\ Waits(java_thread_id)
          /\ \A t \in Threads : ~resumed[t]
    /\ \A t \in Threads : resumed[t] => pc["vm"] = "suspend" /\ vm.thread = t
    /\ pc["vm"] = "join" => pc["player"] \in {"none", "start", "wait", "leave"}

(* Both tasks close a song in the same order, and only one that plays. *)
SongFits ==
    /\ VmStopping => sem = 0 /\ ~Opened /\ pc["player"] \notin {"args", "open"}
    /\ pc["vm"] = "set" /\ InLoop => status = "PLAYING"
    /\ Opened => file_open
    /\ pc["player"] = "run" => subsystem = "playing"
    /\ status = "PLAYING" => /\ file_open /\ subsystem = "playing"
                             /\ pc["vm"] \notin {"stop", "close", "clear"}
    /\ InLoop /\ status # "PLAYING" => (file_open <=> pc["vm"] \in {"stop", "close"})
    /\ pc["player"] = "clear" => ~file_open
    /\ pc["player"] \in {"return", "leave"} \/ Ready =>
          (ret["player"] => ~file_open \/ pc["vm"] \in {"stop", "close"})

(* The bytes that may be in the FIFO, if it was cleared after the last song *)
(* that failed.                                                             *)
BytesFit ==
    /\ InLoop /\ status # "PLAYING" /\ pc["vm"] \notin {"stop", "close", "clear"} /\ ~uncleared =>
          fifo + read_buf <= ElementSize
    /\ pc["player"] \in {"set", "stop", "close"} /\ ~file_open /\ pc["vm"] # "clear"
       /\ ~uncleared =>
          fifo <= ElementSize
    /\ /\ pc["player"] \in {"return", "leave", "none", "start", "wait", "args", "open"}
       /\ ~uncleared
       /\ pc["vm"] # "clear"
       /\ pc["vm"] \in {"stop", "close"} => ~file_open
       => fifo <= ElementSize
    /\ pc["player"] \in {"read", "offer"} /\ (push.first => ~uncleared) =>
          fifo + push.left * ElementSize <= QueueSize

IInv == Base /\ (Alone => OrdersFit /\ SongFits /\ BytesFit)

-----------------------------------------------------------------------------
(* Numbers.                                                                 *)

LEMMA Numbers ==
    /\ ElementSize \in Nat \ {0} /\ PushNumMax \in Nat \ {0}
    /\ ElementNum \in Nat /\ ElementNum >= 2
    /\ QueueSize \in Nat
    /\ QueueSize = ElementSize * ElementNum
    /\ ElementSize + (ElementNum - 1) * ElementSize = QueueSize
    /\ ElementSize < QueueSize
<1>1. ElementSize \in Nat \ {0} /\ PushNumMax \in Nat \ {0} /\ ElementNum \in Nat \ {0, 1}
  BY AudioPlayerAssumption
<1>2. ElementSize * ElementNum \in Nat /\ QueueSize = ElementSize * ElementNum
  BY <1>1 DEF QueueSize
<1>3. ElementSize + (ElementNum - 1) * ElementSize = ElementSize * ElementNum
  BY <1>1
<1>4. (ElementNum - 1) * ElementSize >= ElementSize
  <2>1. ElementNum - 1 \in Nat /\ ElementNum - 1 >= 1
    BY <1>1
  <2>2. \A n \in Nat : n >= 1 => n * ElementSize >= ElementSize
    BY <1>1
  <2>3. QED
    BY <2>1, <2>2
<1>5. QED
  BY <1>1, <1>2, <1>3, <1>4

-----------------------------------------------------------------------------
(* Types.                                                                   *)

StepsFit ==
    /\ pc \in [Actors -> VmSteps \union PlayerSteps]
    /\ pc["vm"] \in VmSteps /\ pc["player"] \in PlayerSteps

LEMMA InitType == Init => TypeOK
<1> SUFFICES ASSUME Init PROVE TypeOK
  OBVIOUS
<1>1. StepsFit
  BY DEF Init, StepsFit, Actors, VmSteps, PlayerSteps
<1>2. ret \in [Actors -> BOOLEAN] /\ thread \in [Threads -> {"java", "native", "play"}]
      /\ resumed \in [Threads -> BOOLEAN]
  BY DEF Init
<1>3. fifo \in 0 .. QueueSize /\ read_buf \in 0 .. ElementSize
  BY Numbers DEF Init
<1>4. push \in [left : Nat, first : BOOLEAN]
  BY DEF Init, NoPush
<1>5. QED
  BY <1>1, <1>2, <1>3, <1>4 DEF Init, TypeOK, StepsFit

(* Where a step leads, and what it leaves alone. *)
LEMMA VmGoes ==
    ASSUME TypeOK, NEW step \in VmSteps, GoTo("vm", step)
    PROVE  StepsFit' /\ pc'["vm"] = step /\ pc'["player"] = pc["player"]
BY DEF TypeOK, StepsFit, GoTo, Actors

LEMMA PlayerGoes ==
    ASSUME TypeOK, NEW step \in PlayerSteps, GoTo("player", step)
    PROVE  StepsFit' /\ pc'["player"] = step /\ pc'["vm"] = pc["vm"]
BY DEF TypeOK, StepsFit, GoTo, Actors

LEMMA ActorGoes ==
    ASSUME TypeOK, NEW a \in Actors, NEW step \in PauseSteps, GoTo(a, step)
    PROVE  /\ StepsFit' /\ pc'[a] = step
           /\ \A b \in Actors \ {a} : pc'[b] = pc[b]
BY DEF TypeOK, StepsFit, GoTo, Actors, VmSteps, PlayerSteps

LEMMA StepNames ==
    /\ \A a \in {"check", "set", "stop", "close", "clear", "return"} :
          a \in PauseSteps /\ a \in VmSteps /\ a \in PlayerSteps
    /\ \A a \in {"idle", "suspend", "join"} : a \in VmSteps
    /\ \A a \in {"none", "start", "wait", "args", "open", "read", "offer", "clock", "app_start",
                 "run", "refill", "again", "leave", "aborted"} : a \in PlayerSteps
    /\ "vm" \in Actors /\ "player" \in Actors
BY DEF PauseSteps, VmSteps, PlayerSteps, Actors

LEMMA ReturnsTyped ==
    ASSUME TypeOK, NEW a \in Actors, NEW value \in BOOLEAN, Returns(a, value)
    PROVE  /\ ret' \in [Actors -> BOOLEAN]
           /\ ret'[a] = value
           /\ \A b \in Actors \ {a} : ret'[b] = ret[b]
BY DEF TypeOK, Returns

LEMMA PowersOff ==
    ASSUME TypeOK, PowerOff
    PROVE  subsystem' \in {"off", "ready", "playing"}
BY DEF TypeOK, PowerOff

LEMMA TypeNext ==
    ASSUME TypeOK, PushFits, Next
    PROVE  TypeOK'
<1> USE DEF ctx_vars, file_vars, fifo_vars, sni_vars
<1>1. ASSUME NEW t \in Threads, Initialize(t)
      PROVE  TypeOK'
  <2>1. StepsFit'
    BY <1>1, PlayerGoes, StepNames DEF Initialize
  <2>2. /\ status' \in {"NULL", "IDLE", "PLAYING"} /\ subsystem' \in {"off", "ready", "playing"}
        /\ fifo' \in 0 .. QueueSize
    BY <1>1, Numbers DEF Initialize, PlayerInitialized, InitializationFails, TypeOK
  <2>3. uncleared' \in BOOLEAN
    BY <1>1, Zenon DEF Initialize, PlayerInitialized, InitializationFails, TypeOK
  <2>4. QED
    BY <1>1, <2>1, <2>2, <2>3 DEF Initialize, TypeOK, StepsFit
<1>2. ASSUME NEW t \in Threads, NEW op \in {"pause", "play"}, CallPause(t, op)
      PROVE  TypeOK'
  <2>1. StepsFit'
    BY <1>2, VmGoes, StepNames DEF CallPause
  <2>2. QED
    BY <1>2, <2>1 DEF CallPause, Native, TypeOK, StepsFit
<1>3. ASSUME NEW t \in Threads, SetVolume(t)
      PROVE  TypeOK'
  <2>1. result' \in BOOLEAN
    BY <1>3 DEF SetVolume
  <2>2. QED
    BY <1>3, <2>1 DEF SetVolume, TypeOK
<1>4. ASSUME NEW t \in Threads, Close(t)
      PROVE  TypeOK'
  <2>1. StepsFit'
    BY <1>4, VmGoes, StepNames DEF Close
  <2>2. args' \in BOOLEAN
    BY <1>4 DEF Close
  <2>3. QED
    BY <1>4, <2>1, <2>2 DEF Close, Native, TypeOK, StepsFit
<1>5. CASE PauseEnd
  <2>1. StepsFit' /\ ret' \in [Actors -> BOOLEAN]
    BY <1>5, VmGoes, ReturnsTyped, StepNames DEF PauseEnd
  <2>2. result' \in BOOLEAN
    BY <1>5, StepNames DEF PauseEnd, TypeOK
  <2>3. QED
    BY <1>5, <2>1, <2>2, ZenonT(100) DEF PauseEnd, BackToJava, TypeOK, StepsFit
<1>6. CASE PlayOrder
  <2>1. StepsFit' /\ ret' \in [Actors -> BOOLEAN]
    BY <1>6, VmGoes, ReturnsTyped, StepNames DEF PlayOrder
  <2>2. vm.thread \in Threads
    BY <1>6 DEF PlayOrder, TypeOK, Idle
  <2>3. args' \in BOOLEAN
    BY <1>6 DEF PlayOrder
  <2>4. QED
    BY <1>6, <2>1, <2>2, <2>3 DEF PlayOrder, TypeOK, StepsFit
<1>7. CASE PlayRefused
  <2>1. StepsFit' /\ ret' \in [Actors -> BOOLEAN]
    BY <1>7, VmGoes, ReturnsTyped, StepNames DEF PlayRefused
  <2>2. QED
    BY <1>7, <2>1, ZenonT(100) DEF PlayRefused, BackToJava, TypeOK, StepsFit
<1>8. CASE Suspend
  <2>1. StepsFit'
    BY <1>8, VmGoes, StepNames DEF Suspend
  <2>2. thread' \in [Threads -> {"java", "native", "play"}] /\ resumed' \in [Threads -> BOOLEAN]
    BY <1>8 DEF Suspend, TypeOK
  <2>3. QED
    BY <1>8, <2>1, <2>2 DEF Suspend, TypeOK, StepsFit
<1>9. CASE Join
  <2>1. StepsFit'
    BY <1>9, VmGoes, StepNames DEF Join
  <2>2. QED
    BY <1>9, <2>1, ZenonT(100) DEF Join, BackToJava, TypeOK, StepsFit
<1>10. ASSUME NEW a \in Actors, Pause_Check(a)
       PROVE  TypeOK'
  <2>1. StepsFit'
    BY <1>10, ActorGoes, StepNames DEF Pause_Check
  <2>2. ret' \in [Actors -> BOOLEAN]
    BY <1>10, ReturnsTyped DEF Pause_Check
  <2>3. QED
    BY <1>10, <2>1, <2>2 DEF Pause_Check, TypeOK, StepsFit
<1>11. ASSUME NEW a \in Actors, Pause_Set(a)
       PROVE  TypeOK'
  <2>1. StepsFit'
    BY <1>11, ActorGoes, StepNames DEF Pause_Set
  <2>2. QED
    BY <1>11, <2>1 DEF Pause_Set, TypeOK, StepsFit
<1>12. ASSUME NEW a \in Actors, Pause_Stop(a)
       PROVE  TypeOK'
  <2>1. StepsFit'
    BY <1>12, ActorGoes, StepNames DEF Pause_Stop
  <2>2. ret' \in [Actors -> BOOLEAN]
    <3>1. CASE UNCHANGED ret
      BY <3>1 DEF TypeOK
    <3>2. CASE Returns(a, FALSE)
      BY <3>2, ReturnsTyped
    <3>3. QED
      BY <1>12, <3>1, <3>2 DEF Pause_Stop
  <2>3. subsystem' \in {"off", "ready", "playing"}
    BY <1>12 DEF Pause_Stop, TypeOK
  <2>4. QED
    BY <1>12, <2>1, <2>2, <2>3 DEF Pause_Stop, TypeOK, StepsFit
<1>13. ASSUME NEW a \in Actors, Pause_Close(a)
       PROVE  TypeOK'
  <2>1. StepsFit'
    BY <1>13, ActorGoes, StepNames DEF Pause_Close
  <2>2. ret' \in [Actors -> BOOLEAN]
    <3>1. CASE UNCHANGED ret
      BY <3>1 DEF TypeOK
    <3>2. CASE Returns(a, FALSE)
      BY <3>2, ReturnsTyped
    <3>3. QED
      BY <1>13, <3>1, <3>2 DEF Pause_Close
  <2>3. file_open' \in BOOLEAN /\ unread' \in Nat
    BY <1>13 DEF Pause_Close
  <2>4. QED
    BY <1>13, <2>1, <2>2, <2>3 DEF Pause_Close, TypeOK, StepsFit
<1>14. ASSUME NEW a \in Actors, Pause_Clear(a)
       PROVE  TypeOK'
  <2>1. StepsFit'
    BY <1>14, ActorGoes, StepNames DEF Pause_Clear
  <2>2. fifo' = 0 /\ uncleared' = FALSE
    BY <1>14 DEF Pause_Clear
  <2>3. 0 \in 0 .. QueueSize
    BY Numbers
  <2>4. fifo' \in 0 .. QueueSize /\ uncleared' \in BOOLEAN
    BY <2>2, <2>3
  <2>5. QED
    BY <1>14, <2>1, <2>4 DEF Pause_Clear, TypeOK, StepsFit
<1>15. CASE Start \/ TakeOrder \/ TakeSong \/ Leave
  <2>1. StepsFit'
    BY <1>15, PlayerGoes, StepNames DEF Start, TakeOrder, TakeSong, Leave
  <2>2. subsystem' \in {"off", "ready", "playing"}
    BY <1>15, PowersOff DEF Start, TakeOrder, TakeSong, Leave, TypeOK
  <2>3. QED
    BY <1>15, <2>1, <2>2 DEF Start, TakeOrder, TakeSong, Leave, TypeOK, StepsFit
<1>16. CASE Open
  <2>1. StepsFit'
    BY <1>16, PlayerGoes, StepNames DEF Open
  <2>2. audio_file_info.size \in Nat /\ audio_file_info.hires \in BOOLEAN
    BY AudioPlayerAssumption DEF TypeOK, Songs
  <2>3. push' \in [left : Nat, first : BOOLEAN]
    BY <1>16, Numbers DEF Open
  <2>4. QED
    BY <1>16, <2>1, <2>2, <2>3 DEF Open, TypeOK, StepsFit
<1>17. CASE OpenFails
  <2>1. StepsFit' /\ ret' \in [Actors -> BOOLEAN]
    BY <1>17, PlayerGoes, ReturnsTyped, StepNames DEF OpenFails
  <2>2. audio_file_info.hires \in BOOLEAN
    BY DEF TypeOK, Songs
  <2>3. file_open' \in BOOLEAN /\ hires' \in BOOLEAN /\ unread' \in Nat /\ size' \in Nat
    <3>1. unread' \in Nat /\ size' \in Nat
      BY <1>17 DEF OpenFails, TypeOK
    <3>2. CASE UNCHANGED file_vars
      BY <3>1, <3>2 DEF TypeOK
    <3>3. CASE file_open' = FALSE /\ hires' = audio_file_info.hires
      BY <2>2, <3>1, <3>3, Zenon
    <3>4. QED
      BY <1>17, <3>2, <3>3 DEF OpenFails
  <2>4. subsystem' \in {"off", "ready", "playing"}
    BY <1>17, PowersOff DEF OpenFails
  <2>5. QED
    BY <1>17, <2>1, <2>3, <2>4 DEF OpenFails, TypeOK, StepsFit
<1>18. CASE Read
  <2>1. StepsFit'
    BY <1>18, PlayerGoes, StepNames DEF Read
  <2>2. read_buf' \in 0 .. ElementSize /\ unread' \in Nat
    BY <1>18, Numbers DEF Read, Least, TypeOK
  <2>3. QED
    BY <1>18, <2>1, <2>2 DEF Read, TypeOK, StepsFit
<1>19. CASE ReadFails
  <2>1. StepsFit'
    BY <1>19, PlayerGoes, StepNames DEF ReadFails
  <2>2. ret' \in [Actors -> BOOLEAN]
    <3>1. CASE push.first
      BY <1>19, <3>1, ReturnsTyped, StepNames DEF ReadFails
    <3>2. CASE ~push.first
      BY <1>19, <3>2 DEF ReadFails, TypeOK
    <3>3. QED
      BY <3>1, <3>2
  <2>3. fifo' \in 0 .. QueueSize /\ file_open' \in BOOLEAN /\ subsystem' \in {"off", "ready", "playing"}
    <3>1. CASE push.first
      <4>1. fifo' = 0 /\ file_open' = FALSE /\ subsystem' \in {"off", "ready", "playing"}
        BY <1>19, <3>1, PowersOff DEF ReadFails
      <4>2. file_open' \in BOOLEAN
        BY <4>1, Zenon
      <4>3. fifo' \in 0 .. QueueSize
        BY <4>1, Numbers
      <4>4. QED
        BY <4>1, <4>2, <4>3
    <3>2. CASE ~push.first
      BY <1>19, <3>2, Numbers DEF ReadFails, TypeOK
    <3>3. QED
      BY <3>1, <3>2
  <2>4. push' \in [left : Nat, first : BOOLEAN]
    BY <1>19 DEF ReadFails, NoPush
  <2>5. uncleared' \in BOOLEAN
    BY <1>19, Zenon DEF ReadFails, TypeOK
  <2>6. QED
    BY <1>19, <2>1, <2>2, <2>3, <2>4, <2>5 DEF ReadFails, TypeOK, StepsFit
<1>20. CASE Offer
  <2>1. StepsFit'
    <3>1. \/ GoTo("player", "read") \/ GoTo("player", "clock") \/ GoTo("player", "again")
          \/ GoTo("player", "check")
      BY <1>20, Zenon DEF Offer, TypeOK
    <3>2. QED
      BY <3>1, PlayerGoes, StepNames
  <2>2. fifo' \in 0 .. QueueSize /\ size' \in Nat
    BY <1>20, Numbers DEF Offer, Offered, Fits, TypeOK, PushFits
  <2>3. push' \in [left : Nat, first : BOOLEAN]
    <3>1. CASE push' = NoPush
      BY <3>1 DEF NoPush
    <3>2. CASE push.left > 1 /\ push' = [push EXCEPT !.left = @ - 1]
      <4>1. push.left \in Nat /\ push.left - 1 \in Nat
        BY <3>2 DEF TypeOK
      <4>2. QED
        BY <3>2, <4>1 DEF TypeOK
    <3>3. QED
      BY <1>20, <3>1, <3>2 DEF Offer
  <2>4. read_buf' \in 0 .. ElementSize
    BY <1>20, Numbers DEF Offer
  <2>5. QED
    BY <1>20, <2>1, <2>2, <2>3, <2>4 DEF Offer, TypeOK, StepsFit
<1>21. CASE ClockRefused \/ ClockFails
  <2>1. StepsFit' /\ ret' \in [Actors -> BOOLEAN]
    BY <1>21, PlayerGoes, ReturnsTyped, StepNames DEF ClockRefused, ClockFails
  <2>2. subsystem' \in {"off", "ready", "playing"}
    BY <1>21, PowersOff DEF ClockRefused, ClockFails, TypeOK
  <2>3. clk_mode' \in BOOLEAN /\ uncleared' \in BOOLEAN
    BY <1>21, Zenon DEF ClockRefused, ClockFails, TypeOK
  <2>4. QED
    BY <1>21, <2>1, <2>2, <2>3 DEF ClockRefused, ClockFails, TypeOK, StepsFit
<1>22. CASE Clock \/ AppStart \/ Run
  <2>1. StepsFit'
    BY <1>22, PlayerGoes, StepNames DEF Clock, AppStart, Run
  <2>2. QED
    BY <1>22, <2>1, ZenonT(100) DEF Clock, AppStart, Run, TypeOK, StepsFit
<1>23. CASE AppStartFails
  <2>1. StepsFit' /\ ret' \in [Actors -> BOOLEAN]
    BY <1>23, PlayerGoes, ReturnsTyped, StepNames DEF AppStartFails
  <2>2. QED
    BY <1>23, <2>1 DEF AppStartFails, TypeOK, StepsFit
<1>24. CASE Refill
  <2>1. StepsFit'
    BY <1>24, PlayerGoes, StepNames DEF Refill
  <2>2. \A n \in Nat : n \div ElementSize \in Nat
    BY Numbers
  <2>3. push' \in [left : Nat, first : BOOLEAN]
    <3>1. QueueSize - fifo \in Nat
      BY Numbers DEF TypeOK
    <3>2. Least((QueueSize - fifo) \div ElementSize, PushNumMax) \in Nat
      BY <2>2, <3>1, Numbers DEF Least
    <3>3. QED
      <4>1. CASE push' = [left |-> Least((QueueSize - fifo) \div ElementSize, PushNumMax),
                          first |-> FALSE]
        BY <3>2, <4>1
      <4>2. CASE UNCHANGED push
        BY <4>2 DEF TypeOK
      <4>3. QED
        BY <1>24, <4>1, <4>2 DEF Refill
  <2>4. QED
    BY <1>24, <2>1, <2>3 DEF Refill, TypeOK, StepsFit
<1>25. CASE Again
  <2>1. StepsFit'
    BY <1>25, PlayerGoes, StepNames DEF Again
  <2>2. QED
    BY <1>25, <2>1 DEF Again, TypeOK, StepsFit
<1>26. CASE PlayEnd
  <2>1. StepsFit'
    BY <1>26, PlayerGoes, StepNames DEF PlayEnd
  <2>2. result' \in BOOLEAN
    BY <1>26, StepNames DEF PlayEnd, TypeOK
  <2>3. thread' \in [Threads -> {"java", "native", "play"}] /\ resumed' \in [Threads -> BOOLEAN]
    BY <1>26 DEF PlayEnd, TypeOK
  <2>4. QED
    BY <1>26, <2>1, <2>2, <2>3, ZenonT(100) DEF PlayEnd, TypeOK, StepsFit
<1>27. CASE Decode
  BY <1>27, Numbers DEF Decode, TypeOK
<1>28. CASE PlayTimeElapses
  BY <1>28 DEF PlayTimeElapses, TypeOK
<1>29. ASSUME NEW a \in Actors, PauseFails(a)
       PROVE  TypeOK'
  <2>1. StepsFit' /\ ret' \in [Actors -> BOOLEAN]
    BY <1>29, ActorGoes, ReturnsTyped, StepNames
    DEF PauseFails, Pause_StopFails, Pause_CloseFails
  <2>2. file_open' \in BOOLEAN /\ uncleared' \in BOOLEAN
    BY <1>29, Zenon DEF PauseFails, Pause_StopFails, Pause_CloseFails, TypeOK
  <2>3. unread' \in Nat
    <3>1. unread' = unread \/ unread' = 0
      BY <1>29, Zenon DEF PauseFails, Pause_StopFails, Pause_CloseFails, file_vars
    <3>2. QED
      BY <3>1 DEF TypeOK
  <2>4. UNCHANGED <<status, clk_mode, subsystem, sem, ctx_vars, hires, size, fifo, read_buf,
                    push, time_up, sni_vars>>
    BY <1>29, Zenon DEF PauseFails, Pause_StopFails, Pause_CloseFails, file_vars, fifo_vars
  <2>5. QED
    BY <2>1, <2>2, <2>3, <2>4 DEF TypeOK, StepsFit, ctx_vars, sni_vars
<1>30. QED
  BY <1>1, <1>2, <1>3, <1>4, <1>5, <1>6, <1>7, <1>8, <1>9, <1>10, <1>11, <1>12, <1>13, <1>14,
     <1>15, <1>16, <1>17, <1>18, <1>19, <1>20, <1>21, <1>22, <1>23, <1>24, <1>25, <1>26, <1>27,
     <1>28, <1>29, StepNames
  DEF Next, Call, VmTask, Player, External, Pause

-----------------------------------------------------------------------------
(* Where the steps lead.                                                    *)

To(v, p) == pc'["vm"] = v /\ pc'["player"] = p

LEMMA CallMoves ==
    ASSUME TypeOK
    PROVE  /\ \A t \in Threads : Initialize(t) => To(pc["vm"], "start")
           /\ \A t \in Threads, op \in {"pause", "play"} :
                 CallPause(t, op) => To("check", pc["player"])
           /\ \A t \in Threads : SetVolume(t) => To(pc["vm"], pc["player"])
           /\ \A t \in Threads : Close(t) => To("join", pc["player"])
BY VmGoes, PlayerGoes, StepNames DEF Initialize, CallPause, SetVolume, Close, To

LEMMA VmMoves ==
    ASSUME TypeOK
    PROVE  /\ PauseEnd \/ PlayRefused \/ Suspend \/ Join => To("idle", pc["player"])
           /\ PlayOrder => To("suspend", pc["player"])
           /\ Pause_Check("vm") =>
                 To(IF status = "PLAYING" THEN "set" ELSE "return", pc["player"])
           /\ Pause_Set("vm") => To("stop", pc["player"])
           /\ Pause_Stop("vm") => To("close", pc["player"])
           /\ Pause_Close("vm") =>
                 To(IF file_open THEN "clear" ELSE "return", pc["player"])
           /\ Pause_Clear("vm") => To("return", pc["player"])
           /\ Pause_StopFails("vm") => To("close", pc["player"])
           /\ Pause_CloseFails("vm") => To("return", pc["player"])
BY VmGoes, StepNames
DEF PauseEnd, PlayRefused, Suspend, Join, PlayOrder, Pause_Check, Pause_Set, Pause_Stop,
    Pause_Close, Pause_Clear, Pause_StopFails, Pause_CloseFails, To

LEMMA PlayerMoves ==
    ASSUME TypeOK
    PROVE  /\ Start \/ PlayEnd => To(pc["vm"], "wait")
           /\ TakeOrder => To(pc["vm"], IF order_id = "CLOSE" THEN "leave" ELSE "args")
           /\ TakeSong => To(pc["vm"], IF args THEN "open" ELSE "aborted")
           /\ Leave => To(pc["vm"], "none")
           /\ Open => To(pc["vm"], "read")
           /\ OpenFails \/ ClockFails => To(pc["vm"], "return")
           /\ Read => To(pc["vm"], "offer")
           /\ ReadFails => To(pc["vm"], IF push.first THEN "return" ELSE "check")
           /\ ClockRefused \/ AppStartFails => To(pc["vm"], "close")
           /\ Clock => To(pc["vm"], "app_start")
           /\ AppStart => To(pc["vm"], "run")
           /\ Run => To(pc["vm"], "refill")
           /\ Refill => To(pc["vm"], IF QueueSize - fifo > ElementSize THEN "read" ELSE "again")
           /\ Again => To(pc["vm"], IF status # "PLAYING" \/ time_up THEN "check" ELSE "refill")
           /\ Decode \/ PlayTimeElapses => To(pc["vm"], pc["player"])
<1>1. /\ Start \/ PlayEnd => To(pc["vm"], "wait")
      /\ TakeOrder => To(pc["vm"], IF order_id = "CLOSE" THEN "leave" ELSE "args")
      /\ TakeSong => To(pc["vm"], IF args THEN "open" ELSE "aborted")
      /\ Leave => To(pc["vm"], "none")
      /\ Open => To(pc["vm"], "read")
      /\ OpenFails \/ ClockFails => To(pc["vm"], "return")
      /\ Read => To(pc["vm"], "offer")
  BY PlayerGoes, StepNames
  DEF Start, PlayEnd, TakeOrder, TakeSong, Leave, Open, OpenFails, ClockFails, Read, To
<1>2. /\ ReadFails => To(pc["vm"], IF push.first THEN "return" ELSE "check")
      /\ ClockRefused \/ AppStartFails => To(pc["vm"], "close")
      /\ Clock => To(pc["vm"], "app_start")
      /\ AppStart => To(pc["vm"], "run")
      /\ Run => To(pc["vm"], "refill")
  BY PlayerGoes, StepNames DEF ReadFails, ClockRefused, AppStartFails, Clock, AppStart, Run, To
<1>3. Refill => To(pc["vm"], IF QueueSize - fifo > ElementSize THEN "read" ELSE "again")
  BY PlayerGoes, StepNames, Numbers DEF Refill, To, TypeOK
<1>4. Again => To(pc["vm"], IF status # "PLAYING" \/ time_up THEN "check" ELSE "refill")
  BY PlayerGoes, StepNames DEF Again, To
<1>5. Decode \/ PlayTimeElapses => To(pc["vm"], pc["player"])
  BY DEF Decode, PlayTimeElapses, To
<1>6. QED
  BY <1>1, <1>2, <1>3, <1>4, <1>5

LEMMA PlayerPauseMoves ==
    ASSUME TypeOK
    PROVE  /\ Pause_Check("player") =>
                 To(pc["vm"], IF status = "PLAYING" THEN "set" ELSE "return")
           /\ Pause_Set("player") => To(pc["vm"], "stop")
           /\ Pause_Stop("player") => To(pc["vm"], "close")
           /\ Pause_Close("player") =>
                 To(pc["vm"], IF file_open THEN "clear" ELSE "return")
           /\ Pause_Clear("player") => To(pc["vm"], "return")
           /\ Pause_StopFails("player") => To(pc["vm"], "close")
           /\ Pause_CloseFails("player") => To(pc["vm"], "return")
BY PlayerGoes, StepNames
DEF Pause_Check, Pause_Set, Pause_Stop, Pause_Close, Pause_Clear, Pause_StopFails,
    Pause_CloseFails, To

(* The next push, or the end of the push loop. *)
LEMMA OfferMoves ==
    ASSUME TypeOK, Offer
    PROVE  /\ pc'["vm"] = pc["vm"]
           /\ \/ /\ push.left > 1 /\ Offered
                 /\ push' = [push EXCEPT !.left = @ - 1]
                 /\ pc'["player"] = "read"
              \/ /\ push' = NoPush
                 /\ IF push.first THEN pc'["player"] = "clock"
                                  ELSE pc'["player"] \in {"again", "check"}
<1>1. \/ push.left > 1 /\ Offered /\ push' = [push EXCEPT !.left = @ - 1] /\ GoTo("player", "read")
      \/ push' = NoPush /\ push.first /\ GoTo("player", "clock")
      \/ push' = NoPush /\ ~push.first /\ (GoTo("player", "again") \/ GoTo("player", "check"))
  BY Zenon DEF Offer, TypeOK
<1>2. QED
  BY <1>1, PlayerGoes, StepNames

(* What the steps leave alone: the song and its bytes, or the orders and    *)
(* the natives.                                                             *)
song_vars == <<status, subsystem, file_open, unread, size, fifo, read_buf, push, uncleared>>
order_vars == <<sem, order_id, java_thread_id, vm, thread, resumed>>

LEMMA SongKept ==
    ASSUME \/ \E t \in Threads : \/ SetVolume(t) \/ Close(t)
                                 \/ CallPause(t, "pause") \/ CallPause(t, "play")
           \/ PauseEnd \/ PlayOrder \/ PlayRefused \/ Suspend \/ Join
           \/ Pause_Check("vm") \/ Pause_Check("player")
           \/ Start \/ TakeOrder \/ TakeSong \/ Again \/ PlayEnd \/ PlayTimeElapses
           \/ ClockRefused \/ Clock \/ AppStartFails
    PROVE  UNCHANGED song_vars
BY DEF song_vars, file_vars, fifo_vars, SetVolume, Close, CallPause, PauseEnd, PlayOrder,
       PlayRefused, Suspend, Join, Pause_Check, Start, TakeOrder, TakeSong, Again, PlayEnd,
       PlayTimeElapses, ClockRefused, Clock, AppStartFails

LEMMA OrdersKept ==
    ASSUME \/ \E t \in Threads : Initialize(t) \/ SetVolume(t)
           \/ Pause("vm") \/ Pause("player") \/ PauseFails("vm") \/ PauseFails("player")
           \/ TakeSong \/ Leave \/ Open \/ OpenFails \/ Read \/ ReadFails \/ Offer
           \/ ClockRefused \/ Clock \/ ClockFails \/ AppStart \/ AppStartFails \/ Run \/ Refill
           \/ Again \/ External
    PROVE  UNCHANGED order_vars
BY DEF order_vars, ctx_vars, sni_vars, Initialize, SetVolume, Pause, Pause_Check, Pause_Set,
       Pause_Stop, Pause_Close, Pause_Clear, PauseFails, Pause_StopFails, Pause_CloseFails,
       TakeSong, Leave, Open, OpenFails, Read, ReadFails, Offer,
       ClockRefused, Clock, ClockFails, AppStart, AppStartFails, Run, Refill, Again, External,
       Decode, PlayTimeElapses

-----------------------------------------------------------------------------
(* The push loop and the status.                                            *)

Pushing == pc["player"] \in {"read", "offer"}

LEMMA PushKept ==
    ASSUME PushFits, UNCHANGED song_vars,
           \/ pc'["player"] = pc["player"]
           \/ ~Pushing /\ ~Pushing'
    PROVE  PushFits'
BY DEF PushFits, song_vars, Pushing

(* What the virtual machine task does to the song. *)
LEMMA PushVm ==
    ASSUME TypeOK, PushFits, (\E t \in Threads : Call(t)) \/ VmTask \/ PauseFails("vm")
    PROVE  PushFits'
<1> USE DEF file_vars, fifo_vars, To
<1>1. ASSUME NEW t \in Threads, Initialize(t)
      PROVE  PushFits'
  BY <1>1, CallMoves DEF Initialize, PushFits
<1>2. ASSUME NEW t \in Threads,
             SetVolume(t) \/ Close(t) \/ CallPause(t, "pause") \/ CallPause(t, "play")
      PROVE  PushFits'
  <2>1. UNCHANGED song_vars
    BY <1>2, SongKept
  <2>2. pc'["player"] = pc["player"]
    BY <1>2, CallMoves
  <2>3. QED
    BY <2>1, <2>2, PushKept
<1>3. CASE PauseEnd \/ PlayOrder \/ PlayRefused \/ Suspend \/ Join \/ Pause_Check("vm")
  <2>1. UNCHANGED song_vars
    BY <1>3, SongKept
  <2>2. pc'["player"] = pc["player"]
    BY <1>3, VmMoves
  <2>3. QED
    BY <2>1, <2>2, PushKept
<1>4. CASE Pause_Set("vm") \/ Pause_Stop("vm") \/ Pause_StopFails("vm") \/ Pause_Clear("vm")
  <2>1. UNCHANGED <<read_buf, push, file_vars>>
    BY <1>4 DEF Pause_Set, Pause_Stop, Pause_StopFails, Pause_Clear
  <2>2. pc'["player"] = pc["player"]
    BY <1>4, VmMoves
  <2>3. QED
    BY <2>1, <2>2 DEF PushFits
<1>5. CASE Pause_Close("vm") \/ Pause_CloseFails("vm")
  <2>1. UNCHANGED <<read_buf, push, size>> /\ ~file_open' /\ unread' = 0
    BY <1>5 DEF Pause_Close, Pause_CloseFails
  <2>2. pc'["player"] = pc["player"]
    BY <1>5, VmMoves
  <2>3. pc["player"] = "offer" => read_buf <= size
    BY Numbers DEF PushFits, TypeOK
  <2>4. QED
    BY <2>1, <2>2, <2>3, Numbers DEF PushFits, TypeOK
<1>6. QED
  BY <1>1, <1>2, <1>3, <1>4, <1>5 DEF Call, VmTask, Pause, PauseFails

LEMMA PushNext ==
    ASSUME TypeOK, PushFits, Next
    PROVE  PushFits'
<1> USE DEF file_vars, fifo_vars, To
<1>1. CASE (\E t \in Threads : Call(t)) \/ VmTask \/ PauseFails("vm")
  BY <1>1, PushVm
<1>2. CASE \/ Start \/ TakeOrder \/ TakeSong \/ PlayEnd \/ Again \/ PlayTimeElapses
           \/ ClockRefused \/ Clock \/ AppStartFails \/ Pause_Check("player")
  <2>1. UNCHANGED song_vars
    BY <1>2, SongKept
  <2>2. CASE Start \/ PlayEnd \/ Again \/ PlayTimeElapses
    BY <2>1, <2>2, PlayerMoves, PushKept DEF Start, PlayEnd, Again, Pushing
  <2>3. CASE TakeOrder \/ TakeSong
    BY <2>1, <2>3, PlayerMoves, PushKept DEF TakeOrder, TakeSong, Pushing
  <2>4. CASE ClockRefused \/ Clock \/ AppStartFails
    BY <2>1, <2>4, PlayerMoves, PushKept DEF ClockRefused, Clock, AppStartFails, Pushing
  <2>5. CASE Pause_Check("player")
    BY <2>1, <2>5, PlayerPauseMoves, PushKept DEF Pause_Check, Pushing
  <2>6. QED
    BY <1>2, <2>2, <2>3, <2>4, <2>5
<1>3. CASE Leave \/ AppStart \/ Run \/ Decode
  <2>1. UNCHANGED <<file_vars, read_buf, push>>
    BY <1>3 DEF Leave, AppStart, Run, Decode
  <2>2. \/ pc'["player"] = pc["player"]
        \/ ~Pushing /\ ~Pushing'
    BY <1>3, PlayerMoves DEF Leave, AppStart, Run, Pushing
  <2>3. QED
    BY <2>1, <2>2 DEF PushFits, Pushing
<1>4. CASE \/ Pause_Set("player") \/ Pause_Stop("player") \/ Pause_StopFails("player")
           \/ Pause_Clear("player")
  <2>1. UNCHANGED <<read_buf, push, file_vars>>
    BY <1>4 DEF Pause_Set, Pause_Stop, Pause_StopFails, Pause_Clear
  <2>2. ~Pushing /\ ~Pushing'
    BY <1>4, PlayerPauseMoves DEF Pause_Set, Pause_Stop, Pause_StopFails, Pause_Clear, Pushing
  <2>3. QED
    BY <2>1, <2>2 DEF PushFits, Pushing
<1>5. CASE Pause_Close("player") \/ Pause_CloseFails("player")
  BY <1>5, PlayerPauseMoves DEF Pause_Close, Pause_CloseFails, PushFits
<1>6. CASE Open
  <2>1. push'.left = ElementNum - 1 /\ push'.left >= 1
    BY <1>6, Numbers DEF Open
  <2>2. audio_file_info.size \in Nat
    BY AudioPlayerAssumption DEF TypeOK, Songs
  <2>3. QED
    BY <1>6, <2>1, <2>2, PlayerMoves DEF Open, PushFits
<1>7. CASE OpenFails
  <2>1. UNCHANGED <<read_buf, push>> /\ read_buf = 0 /\ push = NoPush
    BY <1>7 DEF OpenFails, PushFits
  <2>2. file_open' => unread' + read_buf' <= size'
    <3>1. CASE UNCHANGED file_vars
      BY <2>1, <3>1 DEF PushFits
    <3>2. CASE file_open' = FALSE
      BY <3>2
    <3>3. QED
      BY <1>7, <3>1, <3>2 DEF OpenFails
  <2>3. pc'["player"] = "return"
    BY <1>7, PlayerMoves
  <2>4. QED
    BY <2>1, <2>2, <2>3 DEF PushFits
<1>8. CASE Read
  <2>1. unread' + read_buf' = unread
    BY <1>8, Numbers DEF Read, Least, TypeOK
  <2>2. QED
    BY <1>8, <2>1, PlayerMoves DEF Read, PushFits, TypeOK
<1>9. CASE ReadFails
  BY <1>9, PlayerMoves DEF ReadFails, PushFits
<1>10. CASE Offer
  <2>1. read_buf' = 0 /\ unread' = unread /\ unread' <= size'
    BY <1>10, Numbers DEF Offer, Offered, PushFits, TypeOK
  <2>2. CASE push.left > 1 /\ push' = [push EXCEPT !.left = @ - 1] /\ pc'["player"] = "read"
    <3>1. push'.left >= 1
      BY <2>2 DEF TypeOK
    <3>2. unread' + read_buf' <= size'
      BY <2>1 DEF TypeOK
    <3>3. QED
      BY <2>1, <2>2, <3>1, <3>2 DEF PushFits
  <2>3. CASE push' = NoPush /\ pc'["player"] \in {"clock", "again", "check"}
    <3>1. unread' + read_buf' <= size'
      BY <2>1 DEF TypeOK
    <3>2. QED
      BY <2>1, <2>3, <3>1 DEF PushFits, NoPush
  <2>4. QED
    BY <1>10, <2>2, <2>3, OfferMoves
<1>11. CASE ClockFails
  <2>1. UNCHANGED <<file_vars, read_buf, push>>
    BY <1>11 DEF ClockFails
  <2>2. ~Pushing /\ ~Pushing'
    BY <1>11, PlayerMoves DEF ClockFails, Pushing
  <2>3. QED
    BY <2>1, <2>2 DEF PushFits, Pushing
<1>12. CASE Refill
  <2>1. QueueSize - fifo > ElementSize =>
           push'.left = Least((QueueSize - fifo) \div ElementSize, PushNumMax)
    BY <1>12, Numbers DEF Refill, TypeOK
  <2>2. QueueSize - fifo > ElementSize => push'.left >= 1
    <3>1. \A n \in Nat : n > ElementSize => n \div ElementSize >= 1 /\ n \div ElementSize \in Nat
      BY Numbers
    <3>2. QueueSize - fifo \in Nat
      BY Numbers DEF TypeOK
    <3>3. QED
      BY <2>1, <3>1, <3>2, Numbers DEF Least
  <2>3. ~(QueueSize - fifo > ElementSize) => push' = push
    BY <1>12, Numbers DEF Refill, TypeOK
  <2>4. UNCHANGED <<file_vars, read_buf>>
    BY <1>12 DEF Refill
  <2>5. QED
    BY <1>12, <2>2, <2>3, <2>4, PlayerMoves DEF Refill, PushFits
<1>13. QED
  BY <1>1, <1>2, <1>3, <1>4, <1>5, <1>6, <1>7, <1>8, <1>9, <1>10, <1>11, <1>12
  DEF Next, Player, External, Pause, PauseFails, Actors

LEMMA StatusNext ==
    ASSUME TypeOK, PushFits, StatusFits, Next
    PROVE  StatusFits'
<1> USE DEF file_vars, fifo_vars, To, InLoop
<1>1. ASSUME status' # "PLAYING"
      PROVE  StatusFits'
  BY <1>1 DEF StatusFits
<1>2. ASSUME UNCHANGED <<status, push>>, pc'["player"] = pc["player"]
      PROVE  StatusFits'
  BY <1>2 DEF StatusFits
<1>3. ASSUME UNCHANGED status, ~InLoop, pc["player"] # "set"
      PROVE  StatusFits'
  BY <1>3 DEF StatusFits
<1>4. ASSUME NEW t \in Threads, Call(t)
      PROVE  StatusFits'
  <2>1. CASE Initialize(t)
    <3>1. UNCHANGED status \/ status' = "IDLE"
      BY <2>1 DEF Initialize, PlayerInitialized, InitializationFails
    <3>2. ~InLoop /\ pc["player"] # "set"
      BY <2>1 DEF Initialize
    <3>3. QED
      BY <1>1, <1>3, <3>1, <3>2
  <2>2. CASE SetVolume(t) \/ Close(t) \/ CallPause(t, "pause") \/ CallPause(t, "play")
    <3>1. UNCHANGED <<status, push>>
      BY <2>2, SongKept DEF song_vars
    <3>2. QED
      BY <1>2, <2>2, <3>1, CallMoves
  <2>3. QED
    BY <1>4, <2>1, <2>2 DEF Call
<1>5. CASE PauseEnd \/ PlayOrder \/ PlayRefused \/ Suspend \/ Join \/ Pause_Check("vm")
  <2>1. UNCHANGED <<status, push>>
    BY <1>5, SongKept DEF song_vars
  <2>2. QED
    BY <1>2, <1>5, <2>1, VmMoves
<1>6. CASE Pause_Set("vm") \/ Pause_Set("player")
  BY <1>1, <1>6 DEF Pause_Set
<1>7. CASE Pause_Stop("vm") \/ Pause_Close("vm") \/ Pause_Clear("vm") \/ PauseFails("vm")
  <2>1. UNCHANGED <<status, push>>
    BY <1>7 DEF Pause_Stop, Pause_Close, Pause_Clear, PauseFails, Pause_StopFails,
                Pause_CloseFails
  <2>2. QED
    BY <1>2, <1>7, <2>1, VmMoves DEF PauseFails
<1>8. CASE Pause_Check("player")
  BY <1>8, PlayerPauseMoves DEF Pause_Check, StatusFits
<1>9. CASE \/ Pause_Stop("player") \/ Pause_Close("player") \/ Pause_Clear("player")
           \/ PauseFails("player")
  <2>1. UNCHANGED status /\ ~InLoop /\ pc["player"] # "set"
    BY <1>9 DEF Pause_Stop, Pause_Close, Pause_Clear, PauseFails, Pause_StopFails,
                Pause_CloseFails
  <2>2. QED
    BY <1>3, <2>1
<1>10. CASE Start \/ TakeOrder \/ TakeSong \/ PlayEnd \/ ClockRefused \/ Clock \/ AppStartFails
  <2>1. UNCHANGED status
    BY <1>10, SongKept DEF song_vars
  <2>2. ~InLoop /\ pc["player"] # "set"
    BY <1>10 DEF Start, TakeOrder, TakeSong, PlayEnd, ClockRefused, Clock, AppStartFails
  <2>3. QED
    BY <1>3, <2>1, <2>2
<1>11. CASE Leave
  BY <1>1, <1>11 DEF Leave
<1>12. CASE Open \/ OpenFails \/ ClockFails \/ AppStart
  <2>1. UNCHANGED status /\ ~InLoop /\ pc["player"] # "set"
    BY <1>12 DEF Open, OpenFails, ClockFails, AppStart
  <2>2. QED
    BY <1>3, <2>1
<1>13. CASE Read
  BY <1>13, PlayerMoves DEF Read, StatusFits
<1>14. CASE ReadFails
  <2>1. UNCHANGED status /\ ~push'.first
    BY <1>14 DEF ReadFails, NoPush
  <2>2. QED
    BY <1>14, <2>1, PlayerMoves DEF ReadFails, StatusFits
<1>15. CASE Offer
  <2>1. UNCHANGED status /\ pc["player"] = "offer"
    BY <1>15 DEF Offer
  <2>2. CASE push.first
    BY <1>3, <2>1, <2>2
  <2>3. CASE ~push.first
    <3>1. pc'["player"] \in {"read", "again", "check"} /\ ~push'.first
      BY <1>15, <2>3, OfferMoves DEF NoPush, TypeOK
    <3>2. QED
      BY <3>1 DEF StatusFits
  <2>4. QED
    BY <2>2, <2>3
<1>16. CASE Run
  <2>1. ~push'.first
    BY <1>16 DEF Run, PushFits, NoPush
  <2>2. QED
    BY <1>16, <2>1, PlayerMoves DEF StatusFits
<1>17. CASE Refill
  <2>1. UNCHANGED status /\ (push' = push \/ ~push'.first) /\ pc["player"] = "refill"
    BY <1>17 DEF Refill
  <2>2. QED
    BY <1>17, <2>1, PlayerMoves DEF StatusFits
<1>18. CASE Again
  <2>1. UNCHANGED <<status, push>> /\ pc["player"] = "again"
    BY <1>18 DEF Again
  <2>2. QED
    BY <1>18, <2>1, PlayerMoves DEF StatusFits
<1>19. CASE Decode \/ PlayTimeElapses
  <2>1. UNCHANGED <<status, push>>
    BY <1>19 DEF Decode, PlayTimeElapses
  <2>2. QED
    BY <1>2, <1>19, <2>1, PlayerMoves
<1>20. QED
  BY <1>4, <1>5, <1>6, <1>7, <1>8, <1>9, <1>10, <1>11, <1>12, <1>13, <1>14, <1>15, <1>16, <1>17,
     <1>18, <1>19
  DEF Next, VmTask, Player, External, Pause, Actors

-----------------------------------------------------------------------------
(* The natives.                                                             *)

Stopping(v) == v \in {"check", "set", "stop", "close", "clear", "return"}

LEMMA NativeKept ==
    ASSUME NativeFits, UNCHANGED <<vm, thread, java_thread_id>>,
           \/ pc'["vm"] = pc["vm"]
           \/ Stopping(pc["vm"]) /\ Stopping(pc'["vm"])
    PROVE  NativeFits'
BY DEF NativeFits, Stopping

(* A thread is in a native while the virtual machine task runs it. *)
LEMMA NativeOf ==
    ASSUME TypeOK, NativeFits, pc["vm"] # "idle"
    PROVE  /\ vm.thread \in Threads /\ vm.op \in {"play", "pause", "close"}
           /\ vm # Idle
           /\ thread[vm.thread] = "native"
BY DEF TypeOK, NativeFits, Idle

LEMMA NativeNext ==
    ASSUME TypeOK, NativeFits, Next
    PROVE  NativeFits'
<1> USE DEF To
<1>1. ASSUME NEW t \in Threads, Initialize(t) \/ SetVolume(t)
      PROVE  NativeFits'
  <2>1. UNCHANGED <<vm, thread, java_thread_id>>
    BY <1>1, OrdersKept DEF order_vars
  <2>2. QED
    BY <1>1, <2>1, CallMoves, NativeKept
<1>2. ASSUME NEW t \in Threads, NEW op \in {"pause", "play", "close"}, NEW v,
             vm = Idle, thread[t] = "java", Native(t, op),
             thread' = [thread EXCEPT ![t] = "native"],
             pc'["vm"] = v,
             \/ op # "close" /\ v = "check"
             \/ op = "close" /\ v = "join" /\ java_thread_id' = t
      PROVE  NativeFits'
  <2>1. vm' # Idle /\ vm'.thread = t /\ vm'.op = op
    BY <1>2, AudioPlayerAssumption DEF Native, Idle
  <2>2. \A u \in Threads : thread[u] # "native"
    BY <1>2, AudioPlayerAssumption DEF NativeFits, Idle
  <2>3. \A u \in Threads : thread'[u] = "native" <=> u = t
    BY <1>2, <2>2 DEF TypeOK
  <2>4. QED
    BY <1>2, <2>1, <2>3 DEF NativeFits
<1>3. ASSUME NEW t \in Threads, Close(t)
      PROVE  NativeFits'
  BY <1>2, <1>3, CallMoves DEF Close
<1>4. ASSUME NEW t \in Threads, NEW op \in {"pause", "play"}, CallPause(t, op)
      PROVE  NativeFits'
  BY <1>2, <1>4, CallMoves DEF CallPause
<1>5. ASSUME pc["vm"] # "idle", NEW s \in {"java", "play"},
             vm' = Idle, thread' = [thread EXCEPT ![vm.thread] = s], pc'["vm"] = "idle"
      PROVE  NativeFits'
  <2>1. \A u \in Threads : thread'[u] # "native"
    BY <1>5, NativeOf DEF NativeFits, TypeOK
  <2>2. vm'.thread \notin Threads /\ vm'.op = "none"
    BY <1>5, AudioPlayerAssumption DEF Idle
  <2>3. QED
    BY <1>5, <2>1, <2>2 DEF NativeFits
<1>6. CASE PauseEnd \/ PlayRefused \/ Join
  <2>1. pc["vm"] # "idle" /\ vm' = Idle /\ thread' = [thread EXCEPT ![vm.thread] = "java"]
    BY <1>6 DEF PauseEnd, PlayRefused, Join, BackToJava
  <2>2. QED
    BY <1>5, <1>6, <2>1, VmMoves
<1>7. CASE Suspend
  <2>1. /\ pc["vm"] # "idle" /\ vm' = Idle
        /\ \/ thread' = [thread EXCEPT ![vm.thread] = "java"]
           \/ thread' = [thread EXCEPT ![vm.thread] = "play"]
    BY <1>7 DEF Suspend
  <2>2. QED
    BY <1>5, <1>7, <2>1, VmMoves
<1>8. CASE PlayOrder
  <2>1. UNCHANGED <<vm, thread>> /\ vm.op = "play" /\ java_thread_id' = vm.thread /\ vm # Idle
    BY <1>8, NativeOf DEF PlayOrder, sni_vars
  <2>2. pc'["vm"] = "suspend"
    BY <1>8, VmMoves
  <2>3. QED
    BY <2>1, <2>2 DEF NativeFits
<1>9. CASE Pause("vm") \/ PauseFails("vm")
  <2>1. UNCHANGED <<vm, thread, java_thread_id>>
    BY <1>9, OrdersKept DEF order_vars
  <2>2. Stopping(pc["vm"]) /\ Stopping(pc'["vm"])
    BY <1>9, VmMoves
    DEF Pause, Pause_Check, Pause_Set, Pause_Stop, Pause_Close, Pause_Clear, PauseFails,
        Pause_StopFails, Pause_CloseFails, Stopping
  <2>3. QED
    BY <2>1, <2>2, NativeKept
<1>10. CASE Pause("player") \/ PauseFails("player")
  <2>1. UNCHANGED <<vm, thread, java_thread_id>>
    BY <1>10, OrdersKept DEF order_vars
  <2>2. pc'["vm"] = pc["vm"]
    BY <1>10, PlayerPauseMoves DEF Pause, PauseFails
  <2>3. QED
    BY <2>1, <2>2, NativeKept
<1>11. CASE Start \/ TakeOrder
  <2>1. UNCHANGED <<vm, thread, java_thread_id>>
    BY <1>11 DEF Start, TakeOrder, ctx_vars, sni_vars
  <2>2. QED
    BY <1>11, <2>1, PlayerMoves, NativeKept
<1>12. CASE \/ TakeSong \/ Leave \/ Open \/ OpenFails \/ Read \/ ReadFails \/ Offer
            \/ ClockRefused \/ Clock \/ ClockFails \/ AppStart \/ AppStartFails \/ Run \/ Refill \/ Again
            \/ External
  <2>1. UNCHANGED <<vm, thread, java_thread_id>>
    BY <1>12, OrdersKept DEF order_vars
  <2>2. pc'["vm"] = pc["vm"]
    BY <1>12, PlayerMoves, OfferMoves DEF External
  <2>3. QED
    BY <2>1, <2>2, NativeKept
<1>13. CASE PlayEnd
  <2>1. UNCHANGED <<vm, java_thread_id>>
    BY <1>13 DEF PlayEnd
  <2>2. \A u \in Threads : thread'[u] = "native" <=> thread[u] = "native"
    BY <1>13 DEF PlayEnd, TypeOK
  <2>3. QED
    BY <1>13, <2>1, <2>2, PlayerMoves DEF NativeFits
<1>14. QED
  BY <1>1, <1>3, <1>4, <1>6, <1>7, <1>8, <1>9, <1>10, <1>11, <1>12, <1>13
  DEF Next, Call, VmTask, Player, Actors

-----------------------------------------------------------------------------
(* What the two functions return.                                           *)

LEMMA RetOfVm ==
    ASSUME TypeOK, (\E t \in Threads : Call(t)) \/ Player \/ External \/ PauseFails("player")
    PROVE  ret'["vm"] = ret["vm"]
<1>1. CASE UNCHANGED ret
  BY <1>1
<1>2. ASSUME NEW value \in BOOLEAN, Returns("player", value)
      PROVE  ret'["vm"] = ret["vm"]
  BY <1>2, ReturnsTyped DEF Actors
<1>3. CASE Pause("player") \/ PauseFails("player")
  <2>1. (status = "IDLE") \in BOOLEAN
    OBVIOUS
  <2>2. UNCHANGED ret \/ \E value \in BOOLEAN : Returns("player", value)
    BY <1>3, <2>1
    DEF Pause, Pause_Check, Pause_Set, Pause_Stop, Pause_Close, Pause_Clear, PauseFails,
        Pause_StopFails, Pause_CloseFails
  <2>3. QED
    BY <1>1, <1>2, <2>2
<1>4. CASE OpenFails \/ ClockRefused \/ ClockFails \/ AppStartFails
  <2>1. Returns("player", FALSE)
    BY <1>4 DEF OpenFails, ClockRefused, ClockFails, AppStartFails
  <2>2. QED
    BY <1>2, <2>1
<1>5. CASE ReadFails
  <2>1. UNCHANGED ret \/ Returns("player", FALSE)
    BY <1>5 DEF ReadFails
  <2>2. QED
    BY <1>1, <1>2, <2>1
<1>6. CASE \/ \E t \in Threads : Call(t)
           \/ Start \/ TakeOrder \/ TakeSong \/ Leave \/ Open \/ Read \/ Offer \/ Clock
           \/ AppStart \/ Run \/ Refill \/ Again \/ PlayEnd \/ External
  <2>1. UNCHANGED ret
    BY <1>6
    DEF Call, Initialize, CallPause, SetVolume, Close, Start, TakeOrder, TakeSong, Leave, Open, Read,
        Offer, Clock, AppStart, Run, Refill, Again, PlayEnd, External, Decode, PlayTimeElapses
  <2>2. QED
    BY <1>1, <2>1
<1>7. QED
  BY <1>3, <1>4, <1>5, <1>6 DEF Player

LEMMA RetOfPlayer ==
    ASSUME TypeOK, (\E t \in Threads : Call(t)) \/ VmTask \/ External \/ PauseFails("vm")
    PROVE  ret'["player"] = ret["player"]
<1>1. CASE UNCHANGED ret
  BY <1>1
<1>2. ASSUME NEW value \in BOOLEAN, Returns("vm", value)
      PROVE  ret'["player"] = ret["player"]
  BY <1>2, ReturnsTyped DEF Actors
<1>3. CASE Pause("vm") \/ PauseFails("vm")
  <2>1. (status = "IDLE") \in BOOLEAN
    OBVIOUS
  <2>2. UNCHANGED ret \/ \E value \in BOOLEAN : Returns("vm", value)
    BY <1>3, <2>1
    DEF Pause, Pause_Check, Pause_Set, Pause_Stop, Pause_Close, Pause_Clear, PauseFails,
        Pause_StopFails, Pause_CloseFails
  <2>3. QED
    BY <1>1, <1>2, <2>2
<1>4. CASE PauseEnd \/ PlayOrder \/ PlayRefused
  <2>1. Returns("vm", FALSE)
    BY <1>4 DEF PauseEnd, PlayOrder, PlayRefused
  <2>2. QED
    BY <1>2, <2>1
<1>5. CASE (\E t \in Threads : Call(t)) \/ Suspend \/ Join \/ External
  <2>1. UNCHANGED ret
    BY <1>5
    DEF Call, Initialize, CallPause, SetVolume, Close, Suspend, Join, External, Decode,
        PlayTimeElapses
  <2>2. QED
    BY <1>1, <2>1
<1>6. QED
  BY <1>3, <1>4, <1>5 DEF VmTask

(* A pause fails later on, or keeps what the check of the status gave. *)
LEMMA RetOfPause ==
    ASSUME TypeOK, NEW a \in Actors
    PROVE  /\ Pause_Check(a) /\ status # "PLAYING" => (ret'[a] <=> status = "IDLE")
           /\ Pause_Set(a) \/ Pause_Clear(a) => ret'[a] = ret[a]
           /\ Pause_Stop(a) \/ Pause_Close(a) => (ret'[a] => ret[a])
           /\ Pause_Close(a) /\ ~file_open => ~ret'[a]
           /\ PauseFails(a) => ~ret'[a]
<1>1. ASSUME Pause_Check(a), status # "PLAYING"
      PROVE  ret'[a] <=> status = "IDLE"
  <2>1. Returns(a, status = "IDLE") /\ (status = "IDLE") \in BOOLEAN
    BY <1>1 DEF Pause_Check
  <2>2. ret'[a] = (status = "IDLE")
    BY <2>1, ReturnsTyped
  <2>3. QED
    BY <2>2
<1>2. ASSUME UNCHANGED ret
      PROVE  ret'[a] = ret[a]
  BY <1>2
<1>3. ASSUME Returns(a, FALSE)
      PROVE  ~ret'[a]
  BY <1>3, ReturnsTyped
<1>4. QED
  BY <1>1, <1>2, <1>3
  DEF Pause_Set, Pause_Clear, Pause_Stop, Pause_Close, PauseFails, Pause_StopFails,
      Pause_CloseFails

-----------------------------------------------------------------------------
(* The calling thread's end.                                                *)

Working(p) == p \notin {"none", "start", "wait", "leave"}

LEMMA LeaveNext ==
    ASSUME TypeOK, StatusFits, NativeFits, LeaveFits, Next
    PROVE  LeaveFits'
<1> USE DEF To, Working
(* A step of the calling thread at a song. *)
<1>1. ASSUME UNCHANGED <<order_id, sem>>, ret'["vm"] = ret["vm"], pc'["vm"] = pc["vm"],
             Working(pc["player"]), pc'["player"] = "wait" \/ Working(pc'["player"])
      PROVE  LeaveFits'
  BY <1>1 DEF LeaveFits, VmStopping
<1>2. ASSUME UNCHANGED <<status, subsystem, order_id, sem>>, pc'["player"] = pc["player"],
             pc'["vm"] \notin {"join", "set", "stop", "close", "clear", "return"},
             pc["vm"] # "join"
      PROVE  LeaveFits'
  BY <1>2 DEF LeaveFits, VmStopping
<1>3. ASSUME NEW t \in Threads, Initialize(t)
      PROVE  LeaveFits'
  <2>1. pc["vm"] = "idle" /\ pc'["vm"] = "idle" /\ pc'["player"] = "start"
    BY <1>3, CallMoves DEF Initialize, NativeFits
  <2>2. QED
    BY <2>1 DEF LeaveFits, VmStopping
<1>4. ASSUME NEW t \in Threads, SetVolume(t) \/ CallPause(t, "pause") \/ CallPause(t, "play")
      PROVE  LeaveFits'
  <2>1. UNCHANGED <<status, subsystem, order_id, sem>>
    BY <1>4 DEF SetVolume, CallPause, ctx_vars
  <2>2. pc["vm"] = "idle" /\ pc'["vm"] \in {"idle", "check"} /\ pc'["player"] = pc["player"]
    BY <1>4, CallMoves DEF SetVolume, CallPause, NativeFits
  <2>3. QED
    BY <1>2, <2>1, <2>2
<1>5. ASSUME NEW t \in Threads, Close(t)
      PROVE  LeaveFits'
  <2>1. order_id' = "CLOSE" /\ pc'["vm"] = "join" /\ pc["player"] # "none"
        /\ pc'["player"] = pc["player"]
    BY <1>5, CallMoves DEF Close
  <2>2. QED
    BY <2>1 DEF LeaveFits, VmStopping
<1>6. CASE PauseEnd \/ PlayRefused \/ Suspend
  <2>1. UNCHANGED <<status, subsystem, order_id, sem>>
    BY <1>6 DEF PauseEnd, PlayRefused, Suspend, ctx_vars
  <2>2. pc["vm"] # "join" /\ pc'["vm"] = "idle" /\ pc'["player"] = pc["player"]
    BY <1>6, VmMoves DEF PauseEnd, PlayRefused, Suspend
  <2>3. QED
    BY <1>2, <2>1, <2>2
<1>7. CASE PlayOrder
  <2>1. UNCHANGED <<status, subsystem>> /\ order_id' = "PLAY_FILE" /\ pc["vm"] = "return"
    BY <1>7 DEF PlayOrder
  <2>2. pc'["vm"] = "suspend" /\ pc'["player"] = pc["player"]
    BY <1>7, VmMoves
  <2>3. QED
    BY <2>1, <2>2 DEF LeaveFits, VmStopping
<1>8. CASE Join
  <2>1. UNCHANGED <<status, subsystem>> /\ pc["player"] = "none"
    BY <1>8 DEF Join
  <2>2. pc'["vm"] = "idle" /\ pc'["player"] = pc["player"]
    BY <1>8, VmMoves
  <2>3. QED
    BY <2>1, <2>2 DEF LeaveFits, VmStopping
<1>9. CASE Pause_Check("vm")
  <2>1. UNCHANGED <<status, subsystem, order_id, sem>> /\ pc["vm"] = "check"
    BY <1>9 DEF Pause_Check, ctx_vars
  <2>2. pc'["player"] = pc["player"]
        /\ pc'["vm"] = IF status = "PLAYING" THEN "set" ELSE "return"
    BY <1>9, VmMoves
  <2>3. CASE status = "PLAYING"
    BY <2>1, <2>2, <2>3 DEF LeaveFits, VmStopping, StatusFits, InLoop
  <2>4. CASE status # "PLAYING"
    <3>1. ret'["vm"] <=> status = "IDLE"
      BY <1>9, <2>4, RetOfPause DEF Actors
    <3>2. QED
      BY <2>1, <2>2, <2>4, <3>1 DEF LeaveFits, VmStopping
  <2>5. QED
    BY <2>3, <2>4
<1>10. CASE \/ Pause_Set("vm") \/ Pause_Stop("vm") \/ Pause_Close("vm") \/ Pause_Clear("vm")
            \/ PauseFails("vm")
  <2>1. UNCHANGED <<order_id, sem>> /\ VmStopping
    BY <1>10
    DEF Pause_Set, Pause_Stop, Pause_Close, Pause_Clear, PauseFails, Pause_StopFails,
        Pause_CloseFails, ctx_vars, VmStopping
  <2>2. pc'["vm"] \in {"stop", "close", "clear", "return"} /\ pc'["player"] = pc["player"]
    BY <1>10, VmMoves DEF PauseFails
  <2>3. pc["vm"] # "join" /\ pc["player"] \notin {"none", "start", "leave"}
    BY <2>1 DEF LeaveFits, VmStopping
  <2>4. QED
    BY <2>1, <2>2, <2>3 DEF LeaveFits, VmStopping
<1>11. CASE Pause("player") \/ PauseFails("player")
  <2>1. UNCHANGED <<order_id, sem>> /\ ret'["vm"] = ret["vm"]
    BY <1>11, OrdersKept, RetOfVm DEF order_vars, Player
  <2>2. pc'["vm"] = pc["vm"] /\ Working(pc["player"]) /\ Working(pc'["player"])
    BY <1>11, PlayerPauseMoves
    DEF Pause, Pause_Check, Pause_Set, Pause_Stop, Pause_Close, Pause_Clear, PauseFails,
        Pause_StopFails, Pause_CloseFails
  <2>3. QED
    BY <1>1, <2>1, <2>2
<1>12. CASE Start
  <2>1. sem' = 0 /\ UNCHANGED <<status, subsystem, order_id, ret>> /\ pc["player"] = "start"
    BY <1>12 DEF Start, ctx_vars
  <2>2. pc'["vm"] = pc["vm"] /\ pc'["player"] = "wait"
    BY <1>12, PlayerMoves
  <2>3. QED
    BY <2>1, <2>2 DEF LeaveFits, VmStopping
<1>13. CASE TakeOrder
  <2>1. /\ UNCHANGED <<status, subsystem, order_id, ret>> /\ pc["player"] = "wait"
        /\ sem > 0 /\ sem' = sem - 1
    BY <1>13 DEF TakeOrder, ctx_vars
  <2>2. pc'["vm"] = pc["vm"] /\ pc'["player"] = IF order_id = "CLOSE" THEN "leave" ELSE "args"
    BY <1>13, PlayerMoves
  <2>3. QED
    BY <2>1, <2>2 DEF LeaveFits, VmStopping
<1>14. CASE Leave
  <2>1. status' = "NULL" /\ UNCHANGED order_id /\ pc["player"] = "leave"
    BY <1>14 DEF Leave, ctx_vars
  <2>2. pc'["vm"] = pc["vm"] /\ pc'["player"] = "none"
    BY <1>14, PlayerMoves
  <2>3. QED
    BY <2>1, <2>2 DEF LeaveFits, VmStopping
<1>15. CASE \/ TakeSong \/ Open \/ OpenFails \/ Read \/ ReadFails \/ ClockRefused
            \/ Clock \/ ClockFails \/ AppStart \/ AppStartFails \/ Run \/ Refill \/ Again
  <2>1. UNCHANGED <<order_id, sem>> /\ ret'["vm"] = ret["vm"]
    BY <1>15, OrdersKept, RetOfVm DEF order_vars, Player
  <2>2. pc'["vm"] = pc["vm"] /\ Working(pc'["player"])
    BY <1>15, PlayerMoves
  <2>3. Working(pc["player"])
    BY <1>15
    DEF TakeSong, Open, OpenFails, Read, ReadFails, ClockRefused, Clock, ClockFails, AppStart,
        AppStartFails, Run, Refill, Again
  <2>4. QED
    BY <1>1, <2>1, <2>2, <2>3
<1>16. CASE Offer
  <2>1. UNCHANGED <<order_id, sem>> /\ ret'["vm"] = ret["vm"]
    BY <1>16, OrdersKept, RetOfVm DEF order_vars, Player
  <2>2. pc'["vm"] = pc["vm"] /\ Working(pc'["player"]) /\ Working(pc["player"])
    BY <1>16, OfferMoves DEF Offer
  <2>3. QED
    BY <1>1, <2>1, <2>2
<1>17. CASE PlayEnd
  <2>1. UNCHANGED <<order_id, sem, ret>> /\ pc["player"] = "return"
    BY <1>17 DEF PlayEnd
  <2>2. pc'["vm"] = pc["vm"] /\ pc'["player"] = "wait"
    BY <1>17, PlayerMoves
  <2>3. QED
    BY <1>1, <2>1, <2>2
<1>18. CASE External
  <2>1. UNCHANGED <<status, subsystem, order_id, sem>> /\ ret'["vm"] = ret["vm"]
    BY <1>18 DEF External, Decode, PlayTimeElapses, ctx_vars
  <2>2. pc'["vm"] = pc["vm"] /\ pc'["player"] = pc["player"]
    BY <1>18, PlayerMoves DEF External
  <2>3. QED
    BY <2>1, <2>2 DEF LeaveFits, VmStopping
<1>19. QED
  BY <1>3, <1>4, <1>5, <1>6, <1>7, <1>8, <1>9, <1>10, <1>11, <1>12, <1>13, <1>14, <1>15, <1>16,
     <1>17, <1>18
  DEF Next, Call, VmTask, Player, Pause, Actors

-----------------------------------------------------------------------------
(* Undisturbed, as it is used here, and that it never comes back.           *)

LEMMA AloneIs == ASSUME TypeOK, NativeFits PROVE Undisturbed <=> Alone
BY NativeOf DEF Undisturbed, Waiting, Alone, Waits, NativeFits

LEMMA AloneNext ==
    ASSUME TypeOK, NativeFits, Next, Alone'
    PROVE  Alone
<1> USE DEF To
<1> SUFFICES ASSUME NEW t \in Threads, Waits(t), t # java_thread_id
             PROVE  thread'[t] = "play" /\ t # java_thread_id'
  BY DEF Alone, Waits
<1>1. thread[t] = "play"
  BY DEF Waits, NativeFits
<1>2. CASE UNCHANGED <<thread, java_thread_id>>
  BY <1>1, <1>2
<1>3. ASSUME NEW u \in Threads, Close(u) \/ CallPause(u, "pause") \/ CallPause(u, "play")
      PROVE  thread'[t] = "play" /\ t # java_thread_id'
  <2>1. u # t /\ thread' = [thread EXCEPT ![u] = "native"]
        /\ (java_thread_id' = java_thread_id \/ java_thread_id' = u)
    BY <1>1, <1>3 DEF Close, CallPause, ctx_vars
  <2>2. QED
    BY <1>1, <2>1 DEF TypeOK
<1>4. CASE PauseEnd \/ PlayRefused \/ Suspend \/ Join
  <2>1. /\ pc["vm"] # "idle" /\ UNCHANGED java_thread_id
        /\ \E s : thread' = [thread EXCEPT ![vm.thread] = s]
    BY <1>4 DEF PauseEnd, PlayRefused, Suspend, Join, BackToJava, ctx_vars
  <2>2. vm.thread # t
    BY <1>1, <2>1, NativeOf
  <2>3. QED
    BY <1>1, <2>1, <2>2 DEF TypeOK
<1>5. CASE PlayOrder
  <2>1. thread' = thread /\ java_thread_id' = vm.thread /\ pc["vm"] # "idle"
    BY <1>5 DEF PlayOrder, sni_vars
  <2>2. vm.thread # t
    BY <1>1, <2>1, NativeOf
  <2>3. QED
    BY <1>1, <2>1, <2>2
<1>6. CASE PlayEnd
  <2>1. UNCHANGED java_thread_id
        /\ (UNCHANGED thread \/ thread' = [thread EXCEPT ![java_thread_id] = "java"])
    BY <1>6 DEF PlayEnd
  <2>2. QED
    BY <1>1, <2>1 DEF TypeOK
<1>7. CASE Start \/ TakeOrder
  BY <1>2, <1>7 DEF Start, TakeOrder, ctx_vars, sni_vars
<1>8. CASE \/ \E u \in Threads : Initialize(u) \/ SetVolume(u)
           \/ Pause("vm") \/ Pause("player") \/ PauseFails("vm") \/ PauseFails("player")
           \/ TakeSong \/ Leave \/ Open \/ OpenFails \/ Read \/ ReadFails \/ Offer
           \/ ClockRefused \/ Clock \/ ClockFails \/ AppStart \/ AppStartFails \/ Run \/ Refill
           \/ Again \/ External
  BY <1>2, <1>8, OrdersKept DEF order_vars
<1>9. QED
  BY <1>3, <1>4, <1>5, <1>6, <1>7, <1>8 DEF Next, Call, VmTask, Player, Actors

-----------------------------------------------------------------------------
(* One order at a time.                                                     *)

LEMMA OrdersSame ==
    ASSUME OrdersFit, UNCHANGED order_vars,
           \/ pc'["vm"] = pc["vm"]
           \/ Stopping(pc["vm"]) /\ Stopping(pc'["vm"]),
           \/ pc'["player"] = pc["player"]
           \/ Working(pc["player"]) /\ Working(pc'["player"])
    PROVE  OrdersFit'
BY DEF OrdersFit, order_vars, Stopping, Working, Ready, Waits

(* A native that posts an order would disturb a thread that waits. *)
LEMMA NobodyWaits ==
    ASSUME TypeOK, NativeFits, OrdersFit, Alone', NEW t \in Threads,
           thread[t] # "play", java_thread_id' = t,
           pc["vm"] \notin {"suspend", "join"},
           \A u \in Threads \ {t} : thread'[u] = thread[u]
    PROVE  /\ sem = 0 /\ Ready
           /\ \A u \in Threads : ~resumed[u]
<1>1. \A u \in Threads : thread[u] # "play"
  BY DEF Alone, Waits
<1>2. ~(java_thread_id \in Threads /\ Waits(java_thread_id))
  BY <1>1 DEF Waits
<1>3. sem # 1 /\ Ready
  BY <1>2 DEF OrdersFit
<1>4. QED
  BY <1>3 DEF OrdersFit, TypeOK

LEMMA OrdersNext ==
    ASSUME Base, OrdersFit, Alone, Alone', Next
    PROVE  OrdersFit'
<1> USE DEF To, Base
<1>1. ASSUME NEW t \in Threads, SetVolume(t)
      PROVE  OrdersFit'
  BY <1>1, OrdersKept, CallMoves, OrdersSame
<1>2. ASSUME NEW t \in Threads, Initialize(t)
      PROVE  OrdersFit'
  <2>1. UNCHANGED order_vars /\ pc["player"] = "none"
    BY <1>2, OrdersKept DEF Initialize
  <2>2. pc'["vm"] = pc["vm"] /\ pc'["player"] = "start"
    BY <1>2, CallMoves
  <2>3. QED
    BY <2>1, <2>2 DEF OrdersFit, order_vars, Ready, Waits
<1>3. ASSUME NEW t \in Threads, CallPause(t, "pause") \/ CallPause(t, "play")
      PROVE  OrdersFit'
  <2>1. /\ UNCHANGED <<sem, java_thread_id, resumed>>
        /\ vm = Idle /\ thread[t] = "java" /\ thread' = [thread EXCEPT ![t] = "native"]
    BY <1>3 DEF CallPause, ctx_vars
  <2>2. pc["vm"] = "idle" /\ pc'["vm"] = "check" /\ pc'["player"] = pc["player"]
    BY <1>3, <2>1, CallMoves DEF NativeFits
  <2>3. java_thread_id \in Threads /\ Waits(java_thread_id) => Waits(java_thread_id)'
    BY <2>1, <2>2 DEF Waits, TypeOK
  <2>4. QED
    BY <2>1, <2>2, <2>3 DEF OrdersFit, Ready
<1>4. ASSUME NEW t \in Threads, Close(t)
      PROVE  OrdersFit'
  <2>1. /\ vm = Idle /\ thread[t] = "java" /\ thread' = [thread EXCEPT ![t] = "native"]
        /\ java_thread_id' = t /\ sem' = sem + 1 /\ vm'.thread = t
        /\ pc["player"] # "none" /\ UNCHANGED resumed
    BY <1>4 DEF Close, Native
  <2>2. pc["vm"] = "idle" /\ pc'["vm"] = "join" /\ pc'["player"] = pc["player"]
    BY <1>4, <2>1, CallMoves DEF NativeFits
  <2>3. sem = 0 /\ Ready /\ \A u \in Threads : ~resumed[u]
    BY <2>1, <2>2, NobodyWaits DEF TypeOK
  <2>4. sem' = 1 /\ Waits(t)'
    BY <2>1, <2>2, <2>3 DEF Waits
  <2>5. QED
    BY <2>1, <2>2, <2>3, <2>4 DEF OrdersFit, Ready
<1>5. CASE PauseEnd \/ PlayRefused
  <2>1. /\ UNCHANGED <<sem, java_thread_id, resumed>>
        /\ pc["vm"] = "return" /\ thread' = [thread EXCEPT ![vm.thread] = "java"]
    BY <1>5 DEF PauseEnd, PlayRefused, ctx_vars, BackToJava
  <2>2. pc'["vm"] = "idle" /\ pc'["player"] = pc["player"]
    BY <1>5, VmMoves
  <2>3. java_thread_id \in Threads /\ Waits(java_thread_id) => Waits(java_thread_id)'
    BY <2>1, <2>2, NativeOf DEF Waits, TypeOK
  <2>4. QED
    BY <2>1, <2>2, <2>3 DEF OrdersFit, Ready
<1>6. CASE PlayOrder
  <2>1. /\ pc["vm"] = "return" /\ ret["vm"] /\ UNCHANGED <<vm, thread, resumed>>
        /\ java_thread_id' = vm.thread /\ sem' = sem + 1
    BY <1>6 DEF PlayOrder, sni_vars
  <2>2. pc'["vm"] = "suspend" /\ pc'["player"] = pc["player"]
    BY <1>6, VmMoves
  <2>3. vm.thread \in Threads /\ thread[vm.thread] # "play"
    BY <2>1, NativeOf
  <2>4. sem = 0 /\ Ready /\ \A u \in Threads : ~resumed[u]
    BY <2>1, <2>3, NobodyWaits
  <2>5. pc["player"] # "none"
    BY <2>1 DEF LeaveFits
  <2>6. sem' = 1 /\ Waits(vm.thread)'
    BY <2>1, <2>2, <2>4 DEF Waits
  <2>7. QED
    BY <2>1, <2>2, <2>3, <2>4, <2>5, <2>6 DEF OrdersFit, Ready
<1>7. CASE Suspend
  <2>1. /\ UNCHANGED <<sem, java_thread_id>> /\ pc["vm"] = "suspend"
        /\ resumed' = [resumed EXCEPT ![vm.thread] = FALSE]
        /\ ~resumed[vm.thread] => thread' = [thread EXCEPT ![vm.thread] = "play"]
    BY <1>7 DEF Suspend, ctx_vars
  <2>2. pc'["vm"] = "idle" /\ pc'["player"] = pc["player"]
    BY <1>7, VmMoves
  <2>3. vm.thread \in Threads /\ java_thread_id = vm.thread
    BY <2>1, NativeOf DEF NativeFits
  <2>4. \A u \in Threads : ~resumed'[u]
    <3>1. \A u \in Threads : u # vm.thread => ~resumed[u] /\ resumed'[u] = resumed[u]
      BY <2>1 DEF OrdersFit, TypeOK
    <3>2. ~resumed'[vm.thread]
      BY <2>1, <2>3 DEF TypeOK
    <3>3. QED
      BY <3>1, <3>2
  <2>5. CASE resumed[vm.thread]
    <3>1. sem # 1 /\ Ready
      BY <2>3, <2>5 DEF OrdersFit
    <3>2. QED
      BY <2>1, <2>2, <2>4, <3>1 DEF OrdersFit, Ready
  <2>6. CASE ~resumed[vm.thread]
    <3>1. Waits(java_thread_id)'
      BY <2>1, <2>3, <2>6 DEF Waits, TypeOK
    <3>2. QED
      BY <2>1, <2>2, <2>3, <2>4, <3>1 DEF OrdersFit, Ready
  <2>7. QED
    BY <2>5, <2>6
<1>8. CASE Join
  <2>1. /\ UNCHANGED <<sem, java_thread_id, resumed>> /\ pc["vm"] = "join" /\ pc["player"] = "none"
    BY <1>8 DEF Join, ctx_vars
  <2>2. pc'["vm"] = "idle" /\ pc'["player"] = pc["player"]
    BY <1>8, VmMoves
  <2>3. QED
    BY <2>1, <2>2 DEF OrdersFit, Ready
<1>9. CASE Pause("vm") \/ PauseFails("vm")
  <2>1. UNCHANGED order_vars
    BY <1>9, OrdersKept
  <2>2. Stopping(pc["vm"]) /\ Stopping(pc'["vm"]) /\ pc'["player"] = pc["player"]
    BY <1>9, VmMoves
    DEF Pause, Pause_Check, Pause_Set, Pause_Stop, Pause_Close, Pause_Clear, PauseFails,
        Pause_StopFails, Pause_CloseFails, Stopping
  <2>3. QED
    BY <2>1, <2>2, OrdersSame
<1>10. CASE Pause("player") \/ PauseFails("player")
  <2>1. UNCHANGED order_vars
    BY <1>10, OrdersKept
  <2>2. pc'["vm"] = pc["vm"] /\ Working(pc["player"]) /\ Working(pc'["player"])
    BY <1>10, PlayerPauseMoves
    DEF Pause, Pause_Check, Pause_Set, Pause_Stop, Pause_Close, Pause_Clear, PauseFails,
        Pause_StopFails, Pause_CloseFails, Working
  <2>3. QED
    BY <2>1, <2>2, OrdersSame
<1>11. CASE Start
  <2>1. UNCHANGED <<java_thread_id, vm, thread, resumed>> /\ sem' = 0
    BY <1>11 DEF Start, ctx_vars, sni_vars
  <2>2. pc'["vm"] = pc["vm"] /\ pc'["player"] = "wait"
    BY <1>11, PlayerMoves
  <2>3. QED
    BY <2>1, <2>2 DEF OrdersFit, Ready
<1>12. CASE TakeOrder
  <2>1. /\ UNCHANGED <<java_thread_id, vm, thread, resumed>>
        /\ pc["player"] = "wait" /\ sem > 0 /\ sem' = sem - 1
    BY <1>12 DEF TakeOrder, ctx_vars, sni_vars
  <2>2. pc'["vm"] = pc["vm"] /\ pc'["player"] = IF order_id = "CLOSE" THEN "leave" ELSE "args"
    BY <1>12, PlayerMoves
  <2>3. sem = 1 /\ sem' = 0
    BY <2>1 DEF OrdersFit, TypeOK
  <2>4. pc["vm"] = "join" => pc'["player"] = "leave"
    BY <2>2 DEF LeaveFits
  <2>5. Waits(java_thread_id)' <=> Waits(java_thread_id)
    BY <2>1, <2>2 DEF Waits
  <2>6. QED
    BY <2>1, <2>2, <2>3, <2>4, <2>5 DEF OrdersFit, Ready
<1>13. CASE Leave
  <2>1. UNCHANGED order_vars /\ pc["player"] = "leave"
    BY <1>13, OrdersKept DEF Leave
  <2>2. pc'["vm"] = pc["vm"] /\ pc'["player"] = "none"
    BY <1>13, PlayerMoves
  <2>3. QED
    BY <2>1, <2>2 DEF OrdersFit, Ready, order_vars
<1>14. CASE \/ TakeSong \/ Open \/ OpenFails \/ Read \/ ReadFails \/ ClockRefused \/ Offer
            \/ Clock \/ ClockFails \/ AppStart \/ AppStartFails \/ Run \/ Refill \/ Again
  <2>1. UNCHANGED order_vars
    BY <1>14, OrdersKept
  <2>2. pc'["vm"] = pc["vm"] /\ Working(pc'["player"])
    BY <1>14, PlayerMoves, OfferMoves DEF Working
  <2>3. Working(pc["player"])
    BY <1>14
    DEF TakeSong, Open, OpenFails, Read, ReadFails, Offer, ClockRefused, Clock, ClockFails,
        AppStart, AppStartFails, Run, Refill, Again, Working
  <2>4. QED
    BY <2>1, <2>2, <2>3, OrdersSame
<1>15. CASE External
  <2>1. UNCHANGED order_vars
    BY <1>15, OrdersKept
  <2>2. pc'["vm"] = pc["vm"] /\ pc'["player"] = pc["player"]
    BY <1>15, PlayerMoves DEF External
  <2>3. QED
    BY <2>1, <2>2, OrdersSame
<1>16. CASE PlayEnd
  <2>1. /\ pc["player"] = "return" /\ UNCHANGED <<sem, java_thread_id, vm>>
        /\ \/ thread[java_thread_id] = "play" /\ UNCHANGED resumed
           \/ /\ thread[java_thread_id] # "play"
              /\ resumed' = [resumed EXCEPT ![java_thread_id] = TRUE]
    BY <1>16 DEF PlayEnd
  <2>2. pc'["vm"] = pc["vm"] /\ pc'["player"] = "wait"
    BY <1>16, PlayerMoves
  <2>3. /\ sem = 0 /\ java_thread_id \in Threads /\ Waits(java_thread_id)
        /\ \A u \in Threads : ~resumed[u]
        /\ pc["vm"] # "join"
    BY <2>1 DEF OrdersFit, Ready, TypeOK
  <2>4. \A u \in Threads : resumed'[u] => pc'["vm"] = "suspend" /\ vm'.thread = u
    <3>1. CASE thread[java_thread_id] = "play" /\ UNCHANGED resumed
      BY <2>3, <3>1
    <3>2. CASE /\ thread[java_thread_id] # "play"
               /\ resumed' = [resumed EXCEPT ![java_thread_id] = TRUE]
      <4>1. pc["vm"] = "suspend" /\ vm.thread = java_thread_id
        BY <2>3, <3>2 DEF Waits
      <4>2. \A u \in Threads : u # java_thread_id => ~resumed'[u]
        BY <2>3, <3>2 DEF TypeOK
      <4>3. QED
        BY <2>1, <2>2, <4>1, <4>2
    <3>3. QED
      BY <2>1, <3>1, <3>2
  <2>5. QED
    BY <2>1, <2>2, <2>3, <2>4 DEF OrdersFit, Ready
<1>17. QED
  BY <1>1, <1>2, <1>3, <1>4, <1>5, <1>6, <1>7, <1>8, <1>9, <1>10, <1>11, <1>12, <1>13, <1>14,
     <1>15, <1>16
  DEF Next, Call, VmTask, Player, Actors

-----------------------------------------------------------------------------
(* Who closes the song.                                                     *)

LEMMA SongSame ==
    ASSUME SongFits, UNCHANGED <<status, subsystem, file_open, push>>,
           ret'["player"] = ret["player"], pc'["player"] = pc["player"],
           sem' = sem \/ ~VmStopping',
           pc'["vm"] = pc["vm"] \/ (~VmStopping /\ ~VmStopping')
    PROVE  SongFits'
BY DEF SongFits, VmStopping, Opened, InLoop, Ready

(* A step of the loop of app_play_process. *)
LEMMA LoopSame ==
    ASSUME SongFits, InLoop, InLoop', UNCHANGED <<status, subsystem, file_open, sem>>,
           pc'["vm"] = pc["vm"]
    PROVE  SongFits'
BY DEF SongFits, VmStopping, Opened, InLoop, Ready

(* A step towards PLAYING, or back: no pause is under way. *)
LEMMA OpeningSame ==
    ASSUME SongFits, StatusFits, PushFits, Opened \/ pc["player"] = "open", ~InLoop', status' = status,
           pc'["vm"] = pc["vm"], Working(pc'["player"]),
           pc'["player"] \notin {"clear", "set"},
           \/ Opened' /\ file_open' /\ pc'["player"] # "return"
           \/ ~Opened' /\ pc'["player"] = "close"
           \/ ~Opened' /\ pc'["player"] = "return" /\ ~ret'["player"],
           pc'["player"] = "run" => subsystem' = "playing"
    PROVE  SongFits'
<1>1. ~VmStopping /\ ~VmStopping'
  BY DEF SongFits, VmStopping
<1>2. status' # "PLAYING"
  BY DEF StatusFits, PushFits, NoPush, InLoop, Opened
<1>3. Opened' => file_open'
  OBVIOUS
<1>4. ~Ready' /\ pc'["player"] # "leave"
  BY DEF Ready, Working
<1>5. pc'["player"] = "return" => ~ret'["player"]
  OBVIOUS
<1>6. QED
  BY <1>1, <1>2, <1>3, <1>4, <1>5 DEF SongFits, VmStopping

LEMMA SongCalls ==
    ASSUME Base, SongFits, NEW t \in Threads, Call(t)
    PROVE  SongFits'
<1> USE DEF To, Base
<1>1. ret'["player"] = ret["player"]
  BY RetOfPlayer
<1>2. CASE Initialize(t)
  <2>1. /\ UNCHANGED <<file_open, push, sem>> /\ pc["player"] = "none"
        /\ UNCHANGED status \/ status' = "IDLE"
    BY <1>2 DEF Initialize, PlayerInitialized, InitializationFails, file_vars
  <2>2. pc["vm"] = "idle" /\ pc'["vm"] = "idle" /\ pc'["player"] = "start"
    BY <1>2, CallMoves DEF NativeFits, Initialize
  <2>3. push' = NoPush /\ status' # "PLAYING"
    BY <2>1 DEF PushFits, LeaveFits
  <2>4. ret["player"] => ~file_open
    BY <2>1, <2>2 DEF SongFits, Ready
  <2>5. QED
    BY <1>1, <2>1, <2>2, <2>3, <2>4 DEF SongFits, VmStopping, Opened, InLoop, Ready, NoPush
<1>3. CASE SetVolume(t) \/ Close(t) \/ CallPause(t, "pause") \/ CallPause(t, "play")
  <2>1. UNCHANGED <<status, subsystem, file_open, push>>
    BY <1>3, SongKept DEF song_vars
  <2>2. pc["vm"] = "idle"
    BY <1>3 DEF SetVolume, Close, CallPause, NativeFits
  <2>3. pc'["vm"] \in {"idle", "check", "join"} /\ pc'["player"] = pc["player"]
    BY <1>3, <2>2, CallMoves
  <2>4. QED
    BY <1>1, <2>1, <2>2, <2>3, SongSame DEF VmStopping
<1>4. QED
  BY <1>2, <1>3 DEF Call

LEMMA SongVm ==
    ASSUME Base, OrdersFit, SongFits, VmTask \/ PauseFails("vm")
    PROVE  SongFits'
<1> USE DEF To, Base
<1>1. ret'["player"] = ret["player"]
  BY RetOfPlayer
<1>2. CASE PauseEnd \/ PlayOrder \/ PlayRefused \/ Suspend \/ Join
  <2>1. UNCHANGED <<status, subsystem, file_open, push>>
    BY <1>2, SongKept DEF song_vars
  <2>2. pc["vm"] \in {"return", "suspend", "join"}
    BY <1>2 DEF PauseEnd, PlayOrder, PlayRefused, Suspend, Join
  <2>3. pc'["vm"] \in {"idle", "suspend"} /\ pc'["player"] = pc["player"]
    BY <1>2, VmMoves
  <2>4. QED
    BY <1>1, <2>1, <2>2, <2>3, SongSame DEF VmStopping
<1>3. CASE Pause_Check("vm")
  <2>1. UNCHANGED <<status, subsystem, file_open, push, sem>> /\ pc["vm"] = "check"
    BY <1>3, SongKept, OrdersKept DEF song_vars, order_vars, Pause, Pause_Check
  <2>2. /\ pc'["vm"] = IF status = "PLAYING" THEN "set" ELSE "return"
        /\ pc'["player"] = pc["player"]
    BY <1>3, VmMoves
  <2>3. CASE status = "PLAYING"
    <3>1. InLoop \/ (pc["player"] = "set" /\ push = NoPush)
      BY <2>3 DEF StatusFits, PushFits
    <3>2. sem = 0 /\ ~Opened /\ pc["player"] \notin {"args", "open"}
      BY <3>1 DEF OrdersFit, InLoop, Opened, Ready, NoPush, TypeOK
    <3>3. QED
      BY <1>1, <2>1, <2>2, <2>3, <3>2 DEF SongFits, VmStopping, Opened, InLoop, Ready
  <2>4. CASE status # "PLAYING"
    BY <1>1, <2>1, <2>2, <2>4, SongSame DEF VmStopping
  <2>5. QED
    BY <2>3, <2>4
<1>4. CASE Pause_Set("vm")
  <2>1. UNCHANGED <<subsystem, file_open, push, sem>> /\ pc["vm"] = "set" /\ status' = "IDLE"
    BY <1>4 DEF Pause_Set, file_vars, fifo_vars
  <2>2. pc'["vm"] = "stop" /\ pc'["player"] = pc["player"]
    BY <1>4, VmMoves
  <2>3. QED
    BY <1>1, <2>1, <2>2 DEF SongFits, VmStopping, Opened, InLoop, Ready
<1>5. CASE Pause_Stop("vm") \/ Pause_StopFails("vm")
  <2>1. UNCHANGED <<status, file_open, push, sem>> /\ pc["vm"] = "stop"
    BY <1>5 DEF Pause_Stop, Pause_StopFails, file_vars, fifo_vars
  <2>2. pc'["vm"] = "close" /\ pc'["player"] = pc["player"]
    BY <1>5, VmMoves
  <2>3. QED
    BY <1>1, <2>1, <2>2 DEF SongFits, VmStopping, Opened, InLoop, Ready
<1>6. CASE Pause_Close("vm") \/ Pause_CloseFails("vm")
  <2>1. UNCHANGED <<status, subsystem, push, sem>> /\ pc["vm"] = "close" /\ ~file_open'
    BY <1>6 DEF Pause_Close, Pause_CloseFails, fifo_vars
  <2>2. pc'["vm"] \in {"clear", "return"} /\ pc'["player"] = pc["player"]
    BY <1>6, VmMoves
  <2>3. QED
    BY <1>1, <2>1, <2>2 DEF SongFits, VmStopping, Opened, InLoop, Ready
<1>7. CASE Pause_Clear("vm")
  <2>1. UNCHANGED <<status, subsystem, file_open, push, sem>> /\ pc["vm"] = "clear"
    BY <1>7 DEF Pause_Clear, file_vars
  <2>2. pc'["vm"] = "return" /\ pc'["player"] = pc["player"]
    BY <1>7, VmMoves
  <2>3. QED
    BY <1>1, <2>1, <2>2 DEF SongFits, VmStopping, Opened, InLoop, Ready
<1>8. QED
  BY <1>2, <1>3, <1>4, <1>5, <1>6, <1>7 DEF VmTask, Pause, PauseFails

(* audio_player_pause in the calling thread, after the song. *)
LEMMA SongPause ==
    ASSUME Base, OrdersFit, SongFits, Pause("player") \/ PauseFails("player")
    PROVE  SongFits'
<1> USE DEF To, Base
<1>1. sem' = sem /\ "player" \in Actors
  BY OrdersKept DEF order_vars, Actors
<1>2. CASE Pause_Check("player")
  <2>1. UNCHANGED <<status, subsystem, file_open, push>> /\ pc["player"] = "check"
    BY <1>2, SongKept DEF song_vars, Pause_Check
  <2>2. push = NoPush /\ InLoop
    BY <2>1 DEF PushFits, InLoop, NoPush
  <2>3. CASE status = "PLAYING"
    <3>1. pc'["vm"] = pc["vm"] /\ pc'["player"] = "set"
      BY <1>2, <2>3, PlayerPauseMoves
    <3>2. QED
      BY <1>1, <2>1, <2>2, <2>3, <3>1
      DEF SongFits, VmStopping, Opened, InLoop, Ready, NoPush
  <2>4. CASE status # "PLAYING"
    <3>1. pc'["vm"] = pc["vm"] /\ pc'["player"] = "return"
      BY <1>2, <2>4, PlayerPauseMoves
    <3>2. QED
      BY <1>1, <2>1, <2>2, <2>4, <3>1
      DEF SongFits, VmStopping, Opened, InLoop, Ready, NoPush
  <2>5. QED
    BY <2>3, <2>4
<1>3. CASE Pause_Set("player")
  <2>1. /\ UNCHANGED <<subsystem, file_open, push>> /\ status' = "IDLE"
        /\ pc["player"] = "set" /\ push = NoPush
    BY <1>3 DEF Pause_Set, file_vars, fifo_vars, PushFits
  <2>2. pc'["vm"] = pc["vm"] /\ pc'["player"] = "stop"
    BY <1>3, PlayerPauseMoves
  <2>3. QED
    BY <1>1, <2>1, <2>2 DEF SongFits, VmStopping, Opened, InLoop, Ready, NoPush
<1>4. CASE Pause_Stop("player") \/ Pause_StopFails("player")
  <2>1. UNCHANGED <<status, file_open, push>> /\ pc["player"] = "stop" /\ push = NoPush
    BY <1>4 DEF Pause_Stop, Pause_StopFails, file_vars, fifo_vars, PushFits
  <2>2. pc'["vm"] = pc["vm"] /\ pc'["player"] = "close" /\ status # "PLAYING"
    BY <1>4, <2>1, PlayerPauseMoves DEF StatusFits, InLoop
  <2>3. QED
    BY <1>1, <2>1, <2>2 DEF SongFits, VmStopping, Opened, InLoop, Ready, NoPush
<1>5. CASE Pause_Close("player") \/ Pause_CloseFails("player")
  <2>1. /\ UNCHANGED <<status, subsystem, push>> /\ pc["player"] = "close" /\ push = NoPush
        /\ ~file_open'
    BY <1>5 DEF Pause_Close, Pause_CloseFails, fifo_vars, PushFits
  <2>2. /\ pc'["vm"] = pc["vm"] /\ pc'["player"] \in {"clear", "return"}
        /\ status # "PLAYING"
    BY <1>5, <2>1, PlayerPauseMoves DEF StatusFits, InLoop
  <2>3. QED
    BY <1>1, <2>1, <2>2 DEF SongFits, VmStopping, Opened, InLoop, Ready, NoPush
<1>6. CASE Pause_Clear("player")
  <2>1. UNCHANGED <<status, subsystem, file_open, push>> /\ pc["player"] = "clear" /\ push = NoPush
    BY <1>6 DEF Pause_Clear, file_vars, PushFits
  <2>2. pc'["vm"] = pc["vm"] /\ pc'["player"] = "return" /\ ~file_open
    BY <1>6, <2>1, PlayerPauseMoves DEF SongFits
  <2>3. QED
    BY <1>1, <2>1, <2>2 DEF SongFits, VmStopping, Opened, InLoop, Ready, NoPush
<1>7. QED
  BY <1>2, <1>3, <1>4, <1>5, <1>6 DEF Pause, PauseFails

(* Between two songs. *)
LEMMA SongOrders ==
    ASSUME Base, OrdersFit, SongFits, Start \/ TakeOrder \/ TakeSong \/ Leave \/ PlayEnd
    PROVE  SongFits'
<1> USE DEF To, Base
<1>1. CASE Start \/ PlayEnd
  <2>1. UNCHANGED <<status, subsystem, file_open, push, ret>>
        /\ pc["player"] \in {"start", "return"} /\ sem' \in {0, sem}
    BY <1>1, SongKept DEF song_vars, Start, PlayEnd
  <2>2. pc'["vm"] = pc["vm"] /\ pc'["player"] = "wait" /\ push = NoPush
    BY <1>1, <2>1, PlayerMoves DEF PushFits
  <2>3. QED
    BY <2>1, <2>2 DEF SongFits, VmStopping, Opened, InLoop, Ready, NoPush
<1>2. CASE TakeOrder
  <2>1. /\ UNCHANGED <<status, subsystem, file_open, push, ret>>
        /\ pc["player"] = "wait" /\ sem > 0
    BY <1>2, SongKept DEF song_vars, TakeOrder
  <2>2. pc'["vm"] = pc["vm"] /\ pc'["player"] \in {"args", "leave"} /\ push = NoPush
    BY <1>2, <2>1, PlayerMoves DEF PushFits
  <2>3. ~VmStopping
    BY <2>1 DEF SongFits
  <2>4. QED
    BY <2>1, <2>2, <2>3 DEF SongFits, VmStopping, Opened, InLoop, Ready, NoPush
<1>3. CASE Leave
  <2>1. /\ UNCHANGED <<file_open, push, ret, sem>> /\ pc["player"] = "leave"
        /\ status' = "NULL"
    BY <1>3 DEF Leave, file_vars, fifo_vars
  <2>2. pc'["vm"] = pc["vm"] /\ pc'["player"] = "none" /\ push = NoPush
    BY <1>3, <2>1, PlayerMoves DEF PushFits
  <2>3. pc["vm"] = "join"
    BY <2>1 DEF LeaveFits
  <2>4. QED
    BY <2>1, <2>2, <2>3 DEF SongFits, VmStopping, Opened, InLoop, Ready, NoPush
<1>4. CASE TakeSong
  <2>1. /\ UNCHANGED <<status, subsystem, file_open, push, ret, sem>>
        /\ pc["player"] = "args"
    BY <1>4, SongKept, OrdersKept DEF song_vars, order_vars, TakeSong
  <2>2. pc'["vm"] = pc["vm"] /\ pc'["player"] \in {"open", "aborted"} /\ push = NoPush
    BY <1>4, <2>1, PlayerMoves DEF PushFits
  <2>3. ~VmStopping
    BY <2>1 DEF SongFits
  <2>4. QED
    BY <2>1, <2>2, <2>3 DEF SongFits, VmStopping, Opened, InLoop, Ready, NoPush
<1>5. QED
  BY <1>1, <1>2, <1>3, <1>4

(* Up to PLAYING. *)
LEMMA SongOpening ==
    ASSUME Base, OrdersFit, SongFits,
           \/ Open \/ OpenFails \/ (Read /\ push.first) \/ (ReadFails /\ push.first)
           \/ (Offer /\ push.first) \/ ClockRefused \/ Clock \/ ClockFails \/ AppStart
           \/ AppStartFails
    PROVE  SongFits'
<1> USE DEF To, Base
<1>1. CASE Open
  <2>1. file_open' /\ push'.first /\ status' = status /\ pc["player"] = "open"
    BY <1>1 DEF Open
  <2>2. pc'["vm"] = pc["vm"] /\ pc'["player"] = "read"
    BY <1>1, PlayerMoves
  <2>3. QED
    BY <2>1, <2>2, OpeningSame DEF Opened, InLoop, Working
<1>2. CASE OpenFails \/ (ReadFails /\ push.first) \/ ClockFails
  <2>1. /\ status' = status /\ Returns("player", FALSE)
        /\ Opened \/ pc["player"] = "open"
        /\ push' = NoPush
    BY <1>2 DEF OpenFails, ReadFails, ClockFails, Opened, fifo_vars, PushFits
  <2>2. ~ret'["player"]
    BY <2>1, ReturnsTyped DEF Actors
  <2>3. pc'["vm"] = pc["vm"] /\ pc'["player"] = "return"
    BY <1>2, PlayerMoves
  <2>4. QED
    BY <2>1, <2>2, <2>3, OpeningSame DEF Opened, InLoop, Working, NoPush
<1>3. CASE Read /\ push.first
  <2>1. UNCHANGED <<file_open, push, status>> /\ Opened
    BY <1>3 DEF Read, Opened
  <2>2. pc'["vm"] = pc["vm"] /\ pc'["player"] = "offer" /\ file_open
    BY <1>3, <2>1, PlayerMoves DEF SongFits
  <2>3. QED
    BY <1>3, <2>1, <2>2, OpeningSame DEF Opened, InLoop, Working
<1>4. CASE Offer /\ push.first
  <2>1. UNCHANGED <<file_open, status>> /\ Opened
    BY <1>4 DEF Offer, Opened
  <2>2. /\ pc'["vm"] = pc["vm"] /\ file_open
        /\ pc'["player"] = "clock" \/ (pc'["player"] = "read" /\ push'.first)
    BY <1>4, <2>1, OfferMoves DEF SongFits, TypeOK
  <2>3. QED
    BY <2>1, <2>2, OpeningSame DEF Opened, InLoop, Working
<1>5. CASE ClockRefused \/ AppStartFails
  <2>1. /\ UNCHANGED <<status, push>> /\ Opened /\ push = NoPush
    BY <1>5 DEF ClockRefused, AppStartFails, Opened, fifo_vars, PushFits
  <2>2. pc'["vm"] = pc["vm"] /\ pc'["player"] = "close"
    BY <1>5, PlayerMoves
  <2>3. QED
    BY <2>1, <2>2, OpeningSame DEF Opened, InLoop, Working, NoPush
<1>6. CASE Clock \/ AppStart
  <2>1. /\ UNCHANGED <<status, push, file_open>> /\ Opened
        /\ AppStart => subsystem' = "playing"
    BY <1>6 DEF Clock, AppStart, Opened, fifo_vars, file_vars
  <2>2. /\ pc'["vm"] = pc["vm"] /\ pc'["player"] \in {"app_start", "run"} /\ file_open
        /\ pc'["player"] = "run" => AppStart
    BY <1>6, <2>1, PlayerMoves DEF SongFits
  <2>3. QED
    BY <2>1, <2>2, OpeningSame DEF Opened, InLoop, Working
<1>7. QED
  BY <1>1, <1>2, <1>3, <1>4, <1>5, <1>6

(* While the song plays. *)
LEMMA SongPlays ==
    ASSUME Base, OrdersFit, SongFits,
           \/ Run \/ Refill \/ (Read /\ ~push.first) \/ (ReadFails /\ ~push.first)
           \/ (Offer /\ ~push.first) \/ Again \/ External
    PROVE  SongFits'
<1> USE DEF To, Base
<1>1. sem' = sem
  BY OrdersKept DEF order_vars
<1>2. CASE Run
  <2>1. /\ UNCHANGED <<subsystem, push, file_open>> /\ pc["player"] = "run" /\ push = NoPush
        /\ status' = "PLAYING"
    BY <1>2 DEF Run, file_vars, fifo_vars, PushFits
  <2>2. pc'["vm"] = pc["vm"] /\ pc'["player"] = "refill"
    BY <1>2, PlayerMoves
  <2>3. ~VmStopping /\ file_open /\ subsystem = "playing"
    BY <2>1 DEF SongFits, Opened
  <2>4. QED
    BY <1>1, <2>1, <2>2, <2>3 DEF SongFits, VmStopping, Opened, InLoop, Ready, NoPush
<1>3. CASE Refill \/ (Read /\ ~push.first) \/ (ReadFails /\ ~push.first) \/ Again
  <2>1. UNCHANGED <<status, subsystem, file_open>> /\ InLoop
    <3>1. CASE Refill
      <4>1. push = NoPush
        BY <3>1 DEF Refill, PushFits
      <4>2. QED
        BY <3>1, <4>1 DEF Refill, InLoop, file_vars, NoPush
    <3>2. CASE Read /\ ~push.first
      BY <3>2 DEF Read, InLoop
    <3>3. CASE ReadFails /\ ~push.first
      BY <3>3 DEF ReadFails, InLoop
    <3>4. CASE Again
      <4>1. push = NoPush
        BY <3>4 DEF Again, PushFits
      <4>2. QED
        BY <3>4, <4>1 DEF Again, InLoop, file_vars, NoPush
    <3>5. QED
      BY <1>3, <3>1, <3>2, <3>3, <3>4
  <2>2. ~push'.first
    BY <1>3, <2>1 DEF Refill, Read, ReadFails, Again, InLoop, NoPush, fifo_vars
  <2>3. pc'["vm"] = pc["vm"] /\ InLoop'
    BY <1>3, <2>2, PlayerMoves DEF InLoop
  <2>4. QED
    BY <1>1, <2>1, <2>3, LoopSame
<1>4. CASE Offer /\ ~push.first
  <2>1. UNCHANGED <<status, subsystem, file_open>> /\ InLoop
    BY <1>4 DEF Offer, InLoop
  <2>2. pc'["vm"] = pc["vm"] /\ ~push'.first /\ pc'["player"] \in {"read", "again", "check"}
    BY <1>4, OfferMoves DEF NoPush, TypeOK
  <2>3. QED
    BY <1>1, <2>1, <2>2, LoopSame DEF InLoop
<1>5. CASE External
  <2>1. UNCHANGED <<status, subsystem, file_open, push, ret>>
    BY <1>5 DEF External, Decode, PlayTimeElapses, file_vars, fifo_vars
  <2>2. pc'["vm"] = pc["vm"] /\ pc'["player"] = pc["player"]
    BY <1>5, PlayerMoves DEF External
  <2>3. QED
    BY <1>1, <2>1, <2>2, SongSame
<1>6. QED
  BY <1>2, <1>3, <1>4, <1>5

LEMMA SongNext ==
    ASSUME Base, OrdersFit, SongFits, Next
    PROVE  SongFits'
BY SongCalls, SongVm, SongPause, SongOrders, SongOpening, SongPlays DEF Next, Player, Actors

-----------------------------------------------------------------------------
(* The bytes in the FIFO.                                                   *)

(* What the pushes left can offer. *)
ToPush == push.left * ElementSize

LEMMA Products ==
    \A n \in Nat : /\ n * ElementSize \in Nat
                   /\ n >= 1 => n * ElementSize >= ElementSize
                                /\ (n - 1) * ElementSize = n * ElementSize - ElementSize
BY Numbers

LEMMA ToPushIs ==
    ASSUME TypeOK
    PROVE  /\ ToPush \in Nat
           /\ push.left >= 1 => ToPush >= ElementSize
           /\ push.left >= 1 /\ push'.left = push.left - 1 => ToPush' = ToPush - ElementSize
           /\ push' = push => ToPush' = ToPush
<1>1. push.left \in Nat
  BY DEF TypeOK
<1>2. QED
  BY <1>1, Products DEF ToPush

LEMMA Bytes ==
    ASSUME TypeOK
    PROVE  /\ fifo \in Nat /\ fifo <= QueueSize /\ QueueSize \in Nat
           /\ read_buf \in Nat /\ read_buf <= ElementSize /\ ElementSize \in Nat
BY Numbers DEF TypeOK

LEMMA BytesSame ==
    ASSUME TypeOK, BytesFit, UNCHANGED <<status, uncleared, file_open, fifo, read_buf, push>>,
           pc'["player"] = pc["player"],
           \/ pc'["vm"] = pc["vm"]
           \/ /\ pc["vm"] \notin {"stop", "close", "clear"}
              /\ pc'["vm"] \notin {"stop", "close", "clear"}
    PROVE  BytesFit'
BY DEF BytesFit, InLoop

LEMMA BytesCalls ==
    ASSUME Base, BytesFit, NEW t \in Threads, Call(t)
    PROVE  BytesFit'
<1> USE DEF To, Base
<1>1. CASE Initialize(t)
  <2>1. /\ pc["player"] = "none" /\ pc["vm"] = "idle"
        /\ UNCHANGED <<fifo, uncleared>> \/ fifo' = 0
    BY <1>1 DEF Initialize, PlayerInitialized, InitializationFails, NativeFits
  <2>2. pc'["player"] = "start" /\ pc'["vm"] = "idle"
    BY <1>1, <2>1, CallMoves
  <2>3. QED
    BY <2>1, <2>2, Numbers DEF BytesFit, InLoop
<1>2. CASE SetVolume(t) \/ Close(t) \/ CallPause(t, "pause") \/ CallPause(t, "play")
  <2>1. UNCHANGED <<status, uncleared, file_open, fifo, read_buf, push>>
    BY <1>2, SongKept DEF song_vars
  <2>2. pc["vm"] = "idle"
    BY <1>2 DEF SetVolume, Close, CallPause, NativeFits
  <2>3. pc'["vm"] \in {"idle", "check", "join"} /\ pc'["player"] = pc["player"]
    BY <1>2, <2>2, CallMoves
  <2>4. QED
    BY <2>1, <2>2, <2>3, BytesSame
<1>3. QED
  BY <1>1, <1>2 DEF Call

LEMMA BytesVm ==
    ASSUME Base, SongFits, BytesFit, VmTask \/ PauseFails("vm")
    PROVE  BytesFit'
<1> USE DEF To, Base
<1>1. CASE PauseEnd \/ PlayOrder \/ PlayRefused \/ Suspend \/ Join \/ Pause_Check("vm")
  <2>1. UNCHANGED <<status, uncleared, file_open, fifo, read_buf, push>>
    BY <1>1, SongKept DEF song_vars
  <2>2. pc["vm"] \in {"return", "suspend", "join", "check"}
    BY <1>1 DEF PauseEnd, PlayOrder, PlayRefused, Suspend, Join, Pause_Check
  <2>3. pc'["vm"] \in {"idle", "suspend", "set", "return"} /\ pc'["player"] = pc["player"]
    BY <1>1, VmMoves
  <2>4. QED
    BY <2>1, <2>2, <2>3, BytesSame
<1>2. CASE Pause_Set("vm")
  <2>1. UNCHANGED <<uncleared, file_open, fifo, read_buf, push>> /\ pc["vm"] = "set"
    BY <1>2 DEF Pause_Set, file_vars, fifo_vars
  <2>2. pc'["vm"] = "stop" /\ pc'["player"] = pc["player"]
    BY <1>2, VmMoves
  <2>3. QED
    BY <2>1, <2>2 DEF BytesFit, InLoop
<1>3. CASE Pause_Stop("vm") \/ Pause_StopFails("vm")
  <2>1. UNCHANGED <<status, file_open, fifo, read_buf, push, uncleared>> /\ pc["vm"] = "stop"
    BY <1>3 DEF Pause_Stop, Pause_StopFails, file_vars, fifo_vars
  <2>2. pc'["vm"] = "close" /\ pc'["player"] = pc["player"]
    BY <1>3, VmMoves
  <2>3. QED
    BY <2>1, <2>2 DEF BytesFit, InLoop
<1>4. CASE Pause_Close("vm")
  <2>1. UNCHANGED <<status, uncleared, fifo, read_buf, push>> /\ pc["vm"] = "close"
    BY <1>4 DEF Pause_Close, fifo_vars
  <2>2. pc'["vm"] = (IF file_open THEN "clear" ELSE "return") /\ pc'["player"] = pc["player"]
    BY <1>4, VmMoves
  <2>3. CASE file_open
    BY <2>1, <2>2, <2>3 DEF BytesFit, InLoop
  <2>4. CASE ~file_open
    <3>1. ~(InLoop /\ status # "PLAYING")
      BY <2>1, <2>4 DEF SongFits
    <3>2. QED
      BY <2>1, <2>2, <2>4, <3>1 DEF BytesFit, InLoop
  <2>5. QED
    BY <2>3, <2>4
<1>5. CASE Pause_Clear("vm")
  <2>1. UNCHANGED <<status, file_open, read_buf, push>> /\ fifo' = 0 /\ pc["vm"] = "clear"
    BY <1>5 DEF Pause_Clear, file_vars
  <2>2. pc'["player"] = pc["player"]
    BY <1>5, VmMoves
  <2>3. fifo' + read_buf' <= ElementSize
    BY <2>1, Numbers DEF TypeOK
  <2>4. fifo + ToPush <= QueueSize => fifo' + ToPush' <= QueueSize
    BY <2>1, ToPushIs, Numbers DEF TypeOK
  <2>5. fifo' <= ElementSize
    BY <2>1, Numbers
  <2>6. ~push.first
    BY <2>1 DEF SongFits, VmStopping, Opened
  <2>7. QED
    BY <2>1, <2>2, <2>3, <2>4, <2>5, <2>6 DEF BytesFit, ToPush
<1>6. CASE Pause_CloseFails("vm")
  <2>1. /\ uncleared' /\ UNCHANGED <<fifo, read_buf, push>> /\ pc["vm"] = "close"
    BY <1>6 DEF Pause_CloseFails
  <2>2. pc'["player"] = pc["player"]
    BY <1>6, VmMoves
  <2>3. ~push.first
    BY <2>1 DEF SongFits, VmStopping, Opened
  <2>4. QED
    BY <2>1, <2>2, <2>3 DEF BytesFit
<1>7. QED
  BY <1>1, <1>2, <1>3, <1>4, <1>5, <1>6 DEF VmTask, Pause, PauseFails

(* audio_player_pause in the calling thread. *)
LEMMA BytesPause ==
    ASSUME Base, SongFits, BytesFit, Pause("player") \/ PauseFails("player")
    PROVE  BytesFit'
<1> USE DEF To, Base
<1>1. CASE Pause_Check("player")
  <2>1. UNCHANGED <<status, uncleared, file_open, fifo, read_buf, push>> /\ pc["player"] = "check"
    BY <1>1, SongKept DEF song_vars, Pause_Check
  <2>2. push = NoPush /\ InLoop /\ read_buf = 0
    BY <2>1 DEF PushFits, InLoop, NoPush
  <2>3. CASE status = "PLAYING"
    <3>1. pc'["vm"] = pc["vm"] /\ pc'["player"] = "set" /\ file_open
      BY <1>1, <2>3, PlayerPauseMoves DEF SongFits
    <3>2. QED
      BY <2>1, <3>1 DEF BytesFit, InLoop
  <2>4. CASE status # "PLAYING"
    <3>1. pc'["vm"] = pc["vm"] /\ pc'["player"] = "return"
      BY <1>1, <2>4, PlayerPauseMoves
    <3>2. pc["vm"] \notin {"stop", "close", "clear"} /\ ~uncleared => fifo <= ElementSize
      <4>1. fifo + read_buf = fifo
        BY <2>2, Bytes
      <4>2. QED
        BY <2>2, <2>4, <4>1 DEF BytesFit
    <3>3. pc["vm"] \in {"stop", "close"} => file_open
      BY <2>2, <2>4 DEF SongFits
    <3>4. QED
      BY <2>1, <3>1, <3>2, <3>3 DEF BytesFit, InLoop
  <2>5. QED
    BY <2>3, <2>4
<1>2. CASE Pause_Set("player") \/ Pause_Stop("player") \/ Pause_StopFails("player")
  <2>1. /\ UNCHANGED <<file_open, fifo, read_buf, push, uncleared>>
        /\ pc["player"] \in {"set", "stop"}
    BY <1>2 DEF Pause_Set, Pause_Stop, Pause_StopFails, file_vars, fifo_vars
  <2>2. pc'["vm"] = pc["vm"] /\ pc'["player"] \in {"stop", "close"}
    BY <1>2, PlayerPauseMoves
  <2>3. QED
    BY <2>1, <2>2 DEF BytesFit, InLoop
<1>3. CASE Pause_Close("player")
  <2>1. UNCHANGED <<status, uncleared, fifo, read_buf, push>> /\ pc["player"] = "close"
    BY <1>3 DEF Pause_Close, fifo_vars
  <2>2. pc'["vm"] = pc["vm"] /\ pc'["player"] = (IF file_open THEN "clear" ELSE "return")
    BY <1>3, PlayerPauseMoves
  <2>3. QED
    BY <2>1, <2>2 DEF BytesFit, InLoop
<1>4. CASE Pause_Clear("player")
  <2>1. fifo' = 0 /\ pc'["player"] = "return"
    BY <1>4, PlayerPauseMoves DEF Pause_Clear
  <2>2. QED
    BY <2>1, Numbers DEF BytesFit, InLoop
<1>5. CASE Pause_CloseFails("player")
  <2>1. uncleared' /\ pc'["player"] = "return"
    BY <1>5, PlayerPauseMoves DEF Pause_CloseFails
  <2>2. QED
    BY <2>1 DEF BytesFit, InLoop
<1>6. QED
  BY <1>1, <1>2, <1>3, <1>4, <1>5 DEF Pause, PauseFails

(* As many pushes as there is room for. *)
LEMMA RoomForPushes ==
    \A n \in Nat : Least(n \div ElementSize, PushNumMax) * ElementSize <= n
<1> SUFFICES ASSUME NEW n \in Nat
             PROVE  Least(n \div ElementSize, PushNumMax) * ElementSize <= n
  OBVIOUS
<1> DEFINE whole == n \div ElementSize
<1>1. whole \in Nat /\ whole * ElementSize <= n
  BY Numbers
<1>2. \A l \in Nat : l <= whole => l * ElementSize <= whole * ElementSize
  BY <1>1, Numbers
<1>3. Least(whole, PushNumMax) \in Nat /\ Least(whole, PushNumMax) <= whole
  BY <1>1, Numbers DEF Least
<1> HIDE DEF whole
<1>4. Least(whole, PushNumMax) * ElementSize \in Nat /\ whole * ElementSize \in Nat
  BY <1>1, <1>3, Products
<1>5. Least(whole, PushNumMax) * ElementSize <= n
  BY <1>1, <1>2, <1>3, <1>4
<1>6. QED
  BY <1>5 DEF whole

LEMMA BytesOpening ==
    ASSUME Base, SongFits, BytesFit,
           \/ Start \/ TakeOrder \/ TakeSong \/ Leave \/ PlayEnd \/ Open \/ OpenFails
           \/ (ReadFails /\ push.first) \/ ClockRefused \/ Clock \/ ClockFails \/ AppStart
           \/ AppStartFails \/ Run
    PROVE  BytesFit'
<1> USE DEF To, Base
<1>1. CASE Start \/ TakeOrder \/ TakeSong \/ Leave \/ PlayEnd
  <2>1. UNCHANGED <<uncleared, file_open, fifo, read_buf, push>>
    BY <1>1, SongKept DEF song_vars, Leave, file_vars, fifo_vars
  <2>2. pc["player"] \in {"start", "wait", "args", "leave", "return"}
    BY <1>1 DEF Start, TakeOrder, TakeSong, Leave, PlayEnd
  <2>3. /\ pc'["vm"] = pc["vm"]
        /\ pc'["player"] \in {"wait", "args", "open", "leave", "none", "aborted"}
    BY <1>1, PlayerMoves
  <2>4. QED
    BY <2>1, <2>2, <2>3 DEF BytesFit, InLoop
<1>2. CASE Clock \/ AppStart
  <2>1. pc'["player"] \in {"app_start", "run"}
    BY <1>2, PlayerMoves
  <2>2. QED
    BY <2>1 DEF BytesFit, InLoop
<1>3. CASE OpenFails \/ (ReadFails /\ push.first) \/ ClockFails
  <2>1. pc'["player"] = "return" /\ pc'["vm"] = pc["vm"]
    BY <1>3, PlayerMoves
  <2>2. CASE OpenFails
    <3>1. pc["player"] = "open" /\ UNCHANGED <<fifo, uncleared>>
      BY <2>2 DEF OpenFails, fifo_vars
    <3>2. ~VmStopping
      BY <3>1 DEF SongFits
    <3>3. QED
      BY <2>1, <3>1, <3>2 DEF BytesFit, InLoop, VmStopping
  <2>3. CASE ReadFails /\ push.first
    <3>1. fifo' = 0
      BY <2>3 DEF ReadFails
    <3>2. QED
      BY <2>1, <3>1, Numbers DEF BytesFit, InLoop
  <2>4. CASE ClockFails
    <3>1. uncleared'
      BY <2>4 DEF ClockFails
    <3>2. QED
      BY <2>1, <3>1 DEF BytesFit, InLoop
  <2>5. QED
    BY <1>3, <2>2, <2>3, <2>4
<1>4. CASE ClockRefused \/ AppStartFails
  <2>1. UNCHANGED file_open /\ Opened
    BY <1>4 DEF ClockRefused, AppStartFails, Opened, file_vars
  <2>2. pc'["player"] = "close" /\ file_open
    BY <1>4, <2>1, PlayerMoves DEF SongFits
  <2>3. QED
    BY <2>1, <2>2 DEF BytesFit, InLoop
<1>5. CASE Run
  <2>1. status' = "PLAYING" /\ pc'["player"] = "refill"
    BY <1>5, PlayerMoves DEF Run
  <2>2. QED
    BY <2>1 DEF BytesFit, InLoop
<1>6. CASE Open
  <2>1. /\ UNCHANGED <<uncleared, fifo>> /\ pc["player"] = "open"
        /\ push' = [left |-> ElementNum - 1, first |-> TRUE]
    BY <1>6 DEF Open
  <2>2. pc'["player"] = "read" /\ push'.first /\ push'.left = ElementNum - 1
    BY <1>6, <2>1, PlayerMoves
  <2>3. ~uncleared => fifo <= ElementSize
    BY <2>1 DEF SongFits, VmStopping, BytesFit
  <2>4. ToPush' = QueueSize - ElementSize
    BY <2>2, Numbers DEF ToPush
  <2>5. ~uncleared' => fifo' + ToPush' <= QueueSize
    BY <2>1, <2>3, <2>4, Numbers DEF TypeOK
  <2>6. QED
    BY <2>2, <2>5 DEF BytesFit, InLoop, ToPush
<1>7. QED
  BY <1>1, <1>2, <1>3, <1>4, <1>5, <1>6

LEMMA BytesPlay ==
    ASSUME Base, SongFits, BytesFit,
           \/ Read \/ (ReadFails /\ ~push.first) \/ Offer \/ Refill \/ Again \/ External
    PROVE  BytesFit'
<1> USE DEF To, Base
<1>1. CASE Read
  <2>1. /\ UNCHANGED <<status, uncleared, fifo, push>> /\ pc["player"] = "read"
        /\ file_open
    BY <1>1 DEF Read
  <2>2. pc'["vm"] = pc["vm"] /\ pc'["player"] = "offer"
    BY <1>1, PlayerMoves
  <2>3. InLoop /\ status # "PLAYING" => pc["vm"] \in {"stop", "close"}
    BY <2>1 DEF SongFits
  <2>4. QED
    BY <2>1, <2>2, <2>3 DEF BytesFit, InLoop
<1>2. CASE ReadFails /\ ~push.first
  <2>1. UNCHANGED <<status, fifo, read_buf, uncleared>> /\ pc["player"] = "read"
    BY <1>2 DEF ReadFails
  <2>2. pc'["vm"] = pc["vm"] /\ pc'["player"] = "check"
    BY <1>2, PlayerMoves
  <2>3. InLoop
    BY <1>2, <2>1 DEF InLoop
  <2>4. QED
    BY <2>1, <2>2, <2>3 DEF BytesFit
<1>3. CASE Offer
  <2>1. UNCHANGED <<status, uncleared>> /\ pc["player"] = "offer"
    BY <1>3 DEF Offer
  <2>2. read_buf' = 0 /\ fifo' \in {fifo, fifo + read_buf}
    BY <1>3 DEF Offer
  <2>3. fifo' + read_buf' <= fifo + read_buf /\ fifo' \in Nat
    BY <2>2, Bytes
  <2>4. CASE push.left > 1 /\ push' = [push EXCEPT !.left = @ - 1] /\ pc'["player"] = "read"
    <3>1. push'.left = push.left - 1 /\ push.left >= 1 /\ push'.first = push.first
      BY <2>4 DEF TypeOK
    <3>2. ToPush' = ToPush - ElementSize /\ ToPush \in Nat
      BY <3>1, ToPushIs
    <3>3. fifo + ToPush <= QueueSize => fifo' + ToPush' <= QueueSize
      BY <2>2, <2>3, <3>2, Bytes
    <3>4. InLoop' => InLoop
      BY <2>1, <3>1 DEF InLoop
    <3>5. pc'["vm"] = pc["vm"]
      BY <1>3, OfferMoves
    <3>6. (push'.first => ~uncleared') => fifo' + ToPush' <= QueueSize
      BY <2>1, <3>1, <3>3 DEF BytesFit, ToPush
    <3>7. InLoop' /\ status' # "PLAYING" /\ pc'["vm"] \notin {"stop", "close", "clear"}
          /\ ~uncleared' =>
             fifo' + read_buf' <= ElementSize
      <4>1. fifo + read_buf <= ElementSize => fifo' + read_buf' <= ElementSize
        BY <2>2, <2>3, Bytes
      <4>2. QED
        BY <2>1, <3>4, <3>5, <4>1 DEF BytesFit
    <3>8. QED
      BY <2>4, <3>6, <3>7 DEF BytesFit, ToPush
  <2>5. CASE push.first /\ pc'["player"] = "clock"
    BY <2>5 DEF BytesFit, InLoop
  <2>6. CASE ~push.first /\ pc'["player"] \in {"again", "check"}
    <3>1. InLoop
      BY <2>1, <2>6 DEF InLoop
    <3>2. pc'["vm"] = pc["vm"]
      BY <1>3, OfferMoves
    <3>3. status' # "PLAYING" /\ pc'["vm"] \notin {"stop", "close", "clear"} /\ ~uncleared' =>
             fifo' + read_buf' <= ElementSize
      <4>1. fifo + read_buf <= ElementSize => fifo' + read_buf' <= ElementSize
        BY <2>2, <2>3, Bytes
      <4>2. QED
        BY <2>1, <3>1, <3>2, <4>1 DEF BytesFit
    <3>4. QED
      BY <2>6, <3>3 DEF BytesFit
  <2>7. QED
    BY <1>3, <2>4, <2>5, <2>6, OfferMoves
<1>4. CASE Refill
  <2>1. /\ UNCHANGED <<status, fifo, read_buf, uncleared>> /\ pc["player"] = "refill"
    BY <1>4 DEF Refill
  <2>2. InLoop /\ pc'["vm"] = pc["vm"]
    BY <1>4, <2>1, PlayerMoves DEF InLoop, PushFits, NoPush
  <2>3. pc'["player"] = IF QueueSize - fifo > ElementSize THEN "read" ELSE "again"
    BY <1>4, PlayerMoves
  <2>4. QueueSize - fifo > ElementSize => fifo' + ToPush' <= QueueSize
    <3>1. SUFFICES ASSUME QueueSize - fifo > ElementSize
                   PROVE  fifo' + ToPush' <= QueueSize
      OBVIOUS
    <3>2. QueueSize - fifo \in Nat
      BY Numbers DEF TypeOK
    <3>3. push'.left = Least((QueueSize - fifo) \div ElementSize, PushNumMax)
      BY <1>4, <3>1, <3>2, Numbers DEF Refill
    <3>4. ToPush' <= QueueSize - fifo
      BY <3>2, <3>3, RoomForPushes DEF ToPush
    <3>5. ToPush' \in Nat
      <4>1. \A n \in Nat : Least(n \div ElementSize, PushNumMax) \in Nat
        BY Numbers DEF Least
      <4>2. push'.left \in Nat
        BY <3>2, <3>3, <4>1
      <4>3. QED
        BY <4>2, Products DEF ToPush
    <3>6. QED
      BY <2>1, <3>2, <3>4, <3>5, Bytes
  <2>5. QED
    BY <2>1, <2>2, <2>3, <2>4 DEF BytesFit, InLoop, ToPush
<1>5. CASE Again
  <2>1. UNCHANGED <<status, fifo, read_buf, uncleared>> /\ pc["player"] = "again"
    BY <1>5, SongKept DEF song_vars, Again
  <2>2. InLoop /\ pc'["vm"] = pc["vm"] /\ pc'["player"] \in {"check", "refill"}
    BY <1>5, <2>1, PlayerMoves DEF InLoop, PushFits, NoPush
  <2>3. QED
    BY <2>1, <2>2 DEF BytesFit, InLoop
<1>6. CASE Decode
  <2>1. /\ UNCHANGED <<status, uncleared, file_open, read_buf, push>> /\ fifo > 0
        /\ fifo' = fifo - 1
    BY <1>6 DEF Decode, file_vars
  <2>2. pc'["vm"] = pc["vm"] /\ pc'["player"] = pc["player"]
    BY <1>6, PlayerMoves
  <2>3. fifo' <= fifo /\ fifo' + read_buf' <= fifo + read_buf /\ fifo' + ToPush' <= fifo + ToPush
    BY <2>1, ToPushIs, Numbers DEF TypeOK
  <2>4. QED
    <3>1. /\ fifo <= ElementSize => fifo' <= ElementSize
          /\ fifo + read_buf <= ElementSize => fifo' + read_buf' <= ElementSize
          /\ fifo + ToPush <= QueueSize => fifo' + ToPush' <= QueueSize
      BY <2>1, <2>3, ToPushIs, Numbers DEF TypeOK
    <3>2. QED
      BY <2>1, <2>2, <3>1 DEF BytesFit, InLoop, ToPush
<1>7. CASE PlayTimeElapses
  <2>1. UNCHANGED <<status, uncleared, file_open, fifo, read_buf, push>>
    BY <1>7, SongKept DEF song_vars
  <2>2. QED
    BY <1>7, <2>1, PlayerMoves, BytesSame
<1>8. QED
  BY <1>1, <1>2, <1>3, <1>4, <1>5, <1>6, <1>7 DEF External

LEMMA BytesNext ==
    ASSUME Base, SongFits, BytesFit, Next
    PROVE  BytesFit'
BY BytesCalls, BytesVm, BytesPause, BytesOpening, BytesPlay DEF Next, Player, Actors

-----------------------------------------------------------------------------
(* The invariant, and what it says.                                         *)

LEMMA InitIInv == Init => IInv
<1> SUFFICES ASSUME Init PROVE IInv
  OBVIOUS
<1>1. TypeOK
  BY InitType
<1>2. pc["vm"] = "idle" /\ pc["player"] = "none" /\ vm = Idle /\ Idle.thread \notin Threads
  BY AudioPlayerAssumption DEF Init, Idle
<1>3. Base
  BY <1>1, <1>2
  DEF Init, Base, PushFits, StatusFits, NativeFits, LeaveFits, VmStopping, Idle
<1>4. \A t \in Threads : ~resumed[t]
  BY DEF Init
<1>5. OrdersFit
  BY <1>2, <1>4 DEF Init, OrdersFit, Ready
<1>6. ~push.first /\ ~file_open
  BY DEF Init, NoPush
<1>7. SongFits
  BY <1>2, <1>6 DEF Init, SongFits, VmStopping, Opened, InLoop
<1>8. BytesFit
  <2>1. fifo <= ElementSize
    BY Numbers DEF Init
  <2>2. QED
    BY <1>2, <2>1 DEF BytesFit, InLoop
<1>9. QED
  BY <1>3, <1>5, <1>7, <1>8 DEF IInv

LEMMA IInvNext == IInv /\ [Next]_vars => IInv'
<1> SUFFICES ASSUME IInv, [Next]_vars PROVE IInv'
  OBVIOUS
<1>1. CASE UNCHANGED vars
  BY <1>1
  DEF vars, ctx_vars, file_vars, fifo_vars, sni_vars, IInv, Base, TypeOK, PushFits, StatusFits,
      NativeFits, LeaveFits, Alone, Waits, OrdersFit, SongFits, BytesFit, VmStopping, Opened,
      InLoop, Ready
<1>2. CASE Next
  <2>1. Base'
    BY <1>2, TypeNext, PushNext, StatusNext, NativeNext, LeaveNext DEF IInv, Base
  <2>2. ASSUME Alone'
        PROVE  OrdersFit' /\ SongFits' /\ BytesFit'
    <3>1. Alone
      BY <1>2, <2>2, AloneNext DEF IInv, Base
    <3>2. QED
      BY <1>2, <2>2, <3>1, OrdersNext, SongNext, BytesNext DEF IInv
  <2>3. QED
    BY <2>1, <2>2 DEF IInv
<1>3. QED
  BY <1>1, <1>2

(* The invariant holds of every behaviour of the two tasks. *)
THEOREM InductiveInvariant == Spec => []IInv
BY InitIInv, IInvNext, PTL DEF Spec

(* The types hold, disturbed or not: the FIFO and the read buffer never     *)
(* exceed their sizes, and what is left of a file never becomes negative.   *)
THEOREM TypeCorrect == Spec => []TypeOK
<1>1. IInv => TypeOK
  BY DEF IInv, Base
<1>2. QED
  BY <1>1, InductiveInvariant, PTL

LEMMA WhenUndisturbed ==
    ASSUME IInv, Undisturbed
    PROVE  Base /\ OrdersFit /\ SongFits /\ BytesFit
BY AloneIs DEF IInv, Base

(* Neither task stops the subsystem or closes the file of a song under the  *)
(* status PLAYING: a pause by the virtual machine task leaves the status    *)
(* first, and finds no song that is only about to play.                     *)
THEOREM SongKeptOpen == Spec => []PlayingFromOpenFile
<1>1. IInv => PlayingFromOpenFile
  BY WhenUndisturbed DEF PlayingFromOpenFile, SongFits
<1>2. QED
  BY <1>1, InductiveInvariant, PTL

(* Whichever task ended the song, its file is closed when the calling       *)
(* thread waits for the next order.                                         *)
THEOREM SongClosed == Spec => []FileClosedAfterSong
<1>1. ASSUME IInv, Undisturbed, pc["player"] = "wait", ~VmStopping, ret["player"]
      PROVE  ~file_open
  BY <1>1, WhenUndisturbed DEF SongFits, VmStopping, Ready
<1>2. IInv => FileClosedAfterSong
  BY <1>1 DEF FileClosedAfterSong
<1>3. QED
  BY <1>2, InductiveInvariant, PTL

(* A song leaves at most one element in the FIFO for the next one, unless   *)
(* the FIFO was not cleared after a song that failed.                       *)
THEOREM ResidueKeptSmall == Spec => []ResidueBounded
<1>1. IInv => ResidueBounded
  BY WhenUndisturbed DEF ResidueBounded, BytesFit, VmStopping
<1>2. QED
  BY <1>1, InductiveInvariant, PTL

(* Every offer of app_push_simple_fifo fits, for every FIFO of at least two *)
(* elements, but in the first push after a song that failed without         *)
(* clearing it: the pushes left never exceed the room there is.             *)
THEOREM SongsWhole == Spec => []NothingDropped
<1>1. ASSUME IInv, Undisturbed, pc["player"] = "offer", push.first => ~uncleared
      PROVE  Fits
  <2>1. TypeOK /\ PushFits /\ fifo + ToPush <= QueueSize
    BY <1>1, WhenUndisturbed DEF Base, BytesFit, ToPush
  <2>2. push.left >= 1
    BY <1>1, <2>1 DEF PushFits
  <2>3. ToPush >= ElementSize /\ ToPush \in Nat
    BY <2>1, <2>2, ToPushIs
  <2>4. QED
    BY <2>1, <2>3, Numbers DEF Fits, TypeOK
<1>2. IInv => NothingDropped
  BY <1>1 DEF NothingDropped
<1>3. QED
  BY <1>2, InductiveInvariant, PTL
=============================================================================
