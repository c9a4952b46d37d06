----------------------------- MODULE AudioPlayer -----------------------------
(***************************************************************************)
(* The audio player (audio_player_LLAPI.cxx, audio_player_functions.cxx).  *)
(* A native leaves its order in the one sni_ctx and posts a semaphore; the *)
(* calling thread plays the song: it opens the file, fills the simple FIFO *)
(* from which the audio subsystem decodes, starts the subsystem, refills   *)
(* the FIFO every 2 ms, and resumes the Java thread.  A pause comes from   *)
(* the virtual machine task: it stops the subsystem, closes the file and   *)
(* clears the FIFO while the calling thread may be refilling it.           *)
(*                                                                         *)
(* External: the audio subsystem and its simple FIFO (Sony SDK), the file, *)
(* SNI.  Any command to the subsystem may fail, and a close of the file,   *)
(* which releases the descriptor all the same.  Built as the sources are:  *)
(* AUDIO_PLAYER_MODE_NORMAL, no playlist.                                  *)
(*                                                                         *)
(* Actors: the virtual machine task ("vm"), in which natives run one at a  *)
(* time, and the calling thread ("player").  Both run audio_player_pause.  *)
(***************************************************************************)
EXTENDS Naturals

CONSTANTS
    Threads,        \* Java threads
    NoThread,
    ElementSize,    \* FIFO_ELEMENT_SIZE
    ElementNum,     \* FIFO_ELEMENT_NUM
    PushNumMax,     \* PLAYER_FIFO_PUSH_NUM_MAX
    Sizes           \* sizes of the files played

ASSUME AudioPlayerAssumption ==
    /\ NoThread \notin Threads
    /\ {ElementSize, PushNumMax} \subseteq Nat \ {0}
    /\ ElementNum \in Nat \ {0, 1}     \* the first push is of ElementNum - 1
    /\ Sizes \subseteq Nat

VARIABLES
    status,         \* audio_player_status
    clk_mode,       \* the static clk_mode was set once
    subsystem,      \* the audio subsystem: "off", "ready", "playing"
    sem,
    order_id, java_thread_id, result,   \* sni_ctx
    args,           \* sni_ctx.args and sni_ctx.size are those of a song
    audio_file_info,
    file_open,      \* s_player_info.file.fd is an open descriptor
    hires,          \* file.track.sampling_rate is above AS_SAMPLINGRATE_48000
    unread,         \* bytes between its offset and its end
    size,           \* s_player_info.file.size
    fifo,           \* bytes in the simple FIFO
    read_buf,       \* bytes read and not offered yet
    push,           \* the push loop: pushes left, is it the first push
    uncleared,      \* history: a song that failed left its bytes in the FIFO,
                    \* which was not cleared since
    time_up,        \* play_time has elapsed since start_time
    pc,             \* where each actor is
    ret,            \* the value its function is about to return
    vm,             \* the native the VM task runs, and for whom
    thread,         \* what each Java thread does
    resumed         \* SNI: a resume of the thread is pending

ctx_vars == <<order_id, java_thread_id, result, args, audio_file_info>>
file_vars == <<file_open, hires, unread, size>>
fifo_vars == <<fifo, read_buf, push, uncleared>>
sni_vars == <<vm, thread, resumed>>
vars == <<status, clk_mode, subsystem, sem, ctx_vars, file_vars, fifo_vars,
          time_up, pc, ret, sni_vars>>

-----------------------------------------------------------------------------
Least(a, b) == IF a <= b THEN a ELSE b

QueueSize == ElementSize * ElementNum

Songs == [size : Sizes, hires : BOOLEAN]

Actors == {"vm", "player"}

\* The steps of audio_player_pause, which both actors run.
PauseSteps == {"check", "set", "stop", "close", "clear", "return"}
VmSteps == PauseSteps \union {"idle", "suspend", "join"}
PlayerSteps == PauseSteps \union
    {"none", "start", "wait", "args", "open", "read", "offer", "clock",
     "app_start", "run", "refill", "again", "leave", "aborted"}

Idle == [thread |-> NoThread, op |-> "none"]

NoPush == [left |-> 0, first |-> FALSE]

TypeOK ==
    /\ status \in {"NULL", "IDLE", "PLAYING"}
    /\ clk_mode \in BOOLEAN
    /\ subsystem \in {"off", "ready", "playing"}
    /\ sem \in Nat
    /\ order_id \in {"PLAY_FILE", "CLOSE"}
    /\ java_thread_id \in Threads \union {NoThread}
    /\ result \in BOOLEAN /\ args \in BOOLEAN
    /\ audio_file_info \in Songs
    /\ file_open \in BOOLEAN /\ hires \in BOOLEAN
    /\ unread \in Nat /\ size \in Nat
    /\ fifo \in 0 .. QueueSize
    /\ read_buf \in 0 .. ElementSize
    /\ push \in [left : Nat, first : BOOLEAN]
    /\ uncleared \in BOOLEAN
    /\ time_up \in BOOLEAN
    /\ pc \in [Actors -> VmSteps \union PlayerSteps]
    /\ pc["vm"] \in VmSteps /\ pc["player"] \in PlayerSteps
    /\ ret \in [Actors -> BOOLEAN]
    /\ vm \in [thread : Threads, op : {"play", "pause", "close"}] \union {Idle}
    /\ thread \in [Threads -> {"java", "native", "play"}]
    /\ resumed \in [Threads -> BOOLEAN]

Init ==
    /\ status = "NULL"
    /\ clk_mode = FALSE
    /\ subsystem = "off"
    /\ sem = 0
    /\ order_id = "PLAY_FILE" /\ java_thread_id = NoThread
    /\ result = FALSE /\ args = FALSE
    /\ audio_file_info \in Songs    \* not read before an order sets it
    /\ file_open = FALSE /\ hires = FALSE /\ unread = 0 /\ size = 0
    /\ fifo = 0 /\ read_buf = 0
    /\ push = NoPush /\ uncleared = FALSE
    /\ time_up = FALSE
    /\ pc = [vm |-> "idle", player |-> "none"]
    /\ ret = [a \in Actors |-> FALSE]
    /\ vm = Idle
    /\ thread = [t \in Threads |-> "java"]
    /\ resumed = [t \in Threads |-> FALSE]

GoTo(a, step) == pc' = [pc EXCEPT ![a] = step]
Returns(a, value) == ret' = [ret EXCEPT ![a] = value]
Native(t, op) == vm' = [thread |-> t, op |-> op]
BackToJava(t) == vm' = Idle /\ thread' = [thread EXCEPT ![t] = "java"]

(* error_leave_player: app_set_ready, if it is not ready, and app_power_off, *)
(* each of which may fail, which ends it.                                    *)
PowerOff ==
    subsystem' \in {subsystem, "off"}
                    \union (IF subsystem = "playing" THEN {"ready"} ELSE {})

-----------------------------------------------------------------------------
(* The natives up to audio_player_pause, and what they do by themselves.    *)

(* audio_player_initialize: it powers the subsystem on and clears the FIFO, *)
(* or a step of it fails.                                                   *)
PlayerInitialized ==
    /\ status = "NULL" /\ subsystem = "off"
    /\ status' = "IDLE" /\ subsystem' = "ready"
    /\ fifo' = 0 /\ uncleared' = FALSE

InitializationFails ==
    /\ \/ UNCHANGED <<subsystem, fifo, uncleared>>
       \/ /\ status = "NULL" /\ subsystem = "off"    \* and error_leave_player
          /\ subsystem' \in {"ready", "off"}
          /\ \/ UNCHANGED <<fifo, uncleared>>
             \/ fifo' = 0 /\ uncleared' = FALSE
    /\ UNCHANGED status

(* Java_audio_player_initialize: the calling thread is created even when    *)
(* audio_player_initialize fails.  Java calls it before anything else and   *)
(* again after a close only.                                                *)
Initialize(t) ==
    /\ vm = Idle /\ thread[t] = "java"
    /\ pc["player"] = "none"
    /\ PlayerInitialized \/ InitializationFails
    /\ GoTo("player", "start")
    /\ UNCHANGED <<clk_mode, sem, ctx_vars, file_vars, read_buf, push, time_up,
                   ret, sni_vars>>

\* Java_audio_player_pause, and Java_audio_player_play_file up to
\* Java_stop_playing_current_file.
CallPause(t, op) ==
    /\ vm = Idle /\ thread[t] = "java"
    /\ Native(t, op)
    /\ thread' = [thread EXCEPT ![t] = "native"]
    /\ GoTo("vm", "check")
    /\ UNCHANGED <<status, clk_mode, subsystem, sem, ctx_vars, file_vars,
                   fifo_vars, time_up, ret, resumed>>

(* Java_audio_player_pause, the end: the result is that of sni_ctx.         *)
PauseEnd ==
    /\ pc["vm"] = "return" /\ vm.op = "pause"
    /\ result' = ret["vm"]
    /\ GoTo("vm", "idle") /\ Returns("vm", FALSE)
    /\ BackToJava(vm.thread)
    /\ UNCHANGED <<status, clk_mode, subsystem, sem, order_id, java_thread_id, args,
                   audio_file_info, file_vars, fifo_vars, time_up, resumed>>

(* Java_audio_player_set_volume, Java_audio_player_mute: a command.         *)
SetVolume(t) ==
    /\ vm = Idle /\ thread[t] = "java"
    /\ result' \in IF subsystem = "off" THEN {FALSE} ELSE BOOLEAN
    /\ UNCHANGED <<status, clk_mode, subsystem, sem, order_id, java_thread_id, args,
                   audio_file_info, file_vars, fifo_vars, time_up, pc, ret, sni_vars>>

(* Java_audio_player_play_file after its pause: the order, or an exception. *)
PlayOrder ==
    /\ pc["vm"] = "return" /\ vm.op = "play"
    /\ ret["vm"]
    /\ order_id' = "PLAY_FILE" /\ java_thread_id' = vm.thread
    /\ audio_file_info' \in Songs /\ args' = TRUE
    /\ sem' = sem + 1
    /\ GoTo("vm", "suspend") /\ Returns("vm", FALSE)
    /\ UNCHANGED <<status, clk_mode, subsystem, result, file_vars, fifo_vars,
                   time_up, sni_vars>>

PlayRefused ==
    /\ pc["vm"] = "return" /\ vm.op = "play"
    /\ ~ret["vm"]
    /\ GoTo("vm", "idle") /\ Returns("vm", FALSE)
    /\ BackToJava(vm.thread)
    /\ UNCHANGED <<status, clk_mode, subsystem, sem, ctx_vars, file_vars,
                   fifo_vars, time_up, resumed>>

(* SNI_suspendCurrentJavaThread: a resume that came first ends the native.  *)
Suspend ==
    /\ pc["vm"] = "suspend"
    /\ GoTo("vm", "idle")
    /\ vm' = Idle
    /\ thread' = [thread EXCEPT ![vm.thread] =
                      IF resumed[vm.thread] THEN "java" ELSE "play"]
    /\ resumed' = [resumed EXCEPT ![vm.thread] = FALSE]
    /\ UNCHANGED <<status, clk_mode, subsystem, sem, ctx_vars, file_vars,
                   fifo_vars, time_up, ret>>

\* Mutant: the order is not posted.
CloseUnposted(t) ==
    /\ vm = Idle /\ thread[t] = "java"
    /\ pc["player"] # "none"
    /\ Native(t, "close")
    /\ thread' = [thread EXCEPT ![t] = "native"]
    /\ order_id' = "CLOSE" /\ java_thread_id' = t /\ args' = FALSE
    /\ GoTo("vm", "join")
    /\ UNCHANGED <<status, clk_mode, subsystem, sem, result, audio_file_info, file_vars,
                   fifo_vars, time_up, ret, resumed>>

(* Java_audio_player_close up to pthread_join: its order has no song.  Java *)
(* closes what it initialized.                                              *)
Close(t) ==
    /\ vm = Idle /\ thread[t] = "java"
    /\ pc["player"] # "none"
    /\ Native(t, "close")
    /\ thread' = [thread EXCEPT ![t] = "native"]
    /\ order_id' = "CLOSE" /\ java_thread_id' = t /\ args' = FALSE
    /\ sem' = sem + 1
    /\ GoTo("vm", "join")
    /\ UNCHANGED <<status, clk_mode, subsystem, result, audio_file_info, file_vars,
                   fifo_vars, time_up, ret, resumed>>

Join ==
    /\ pc["vm"] = "join" /\ pc["player"] = "none"
    /\ GoTo("vm", "idle")
    /\ BackToJava(vm.thread)
    /\ UNCHANGED <<status, clk_mode, subsystem, sem, ctx_vars, file_vars,
                   fifo_vars, time_up, ret, resumed>>

-----------------------------------------------------------------------------
(* audio_player_pause, by either actor.                                     *)

Pause_Check(a) ==
    /\ pc[a] = "check"
    /\ \/ /\ status = "PLAYING"
          /\ GoTo(a, "set") /\ Returns(a, TRUE)
       \/ /\ status # "PLAYING"
          /\ GoTo(a, "return") /\ Returns(a, status = "IDLE")
    /\ UNCHANGED <<status, clk_mode, subsystem, sem, ctx_vars, file_vars,
                   fifo_vars, time_up, sni_vars>>

\* Mutant: a pause leaves the status PLAYING.
Pause_SetForgotten(a) ==
    /\ pc[a] = "set"
    /\ GoTo(a, "stop")
    /\ UNCHANGED <<status, clk_mode, subsystem, sem, ctx_vars, file_vars,
                   fifo_vars, time_up, ret, sni_vars>>

Pause_Set(a) ==
    /\ pc[a] = "set"
    /\ status' = "IDLE"
    /\ GoTo(a, "stop")
    /\ UNCHANGED <<clk_mode, subsystem, sem, ctx_vars, file_vars, fifo_vars,
                   time_up, ret, sni_vars>>

\* Mutant: the file is not closed.
Pause_StopOnly(a) ==
    /\ pc[a] = "stop"
    /\ (size = 0 /\ subsystem = "playing") => fifo = 0
    /\ IF subsystem = "playing"
         THEN subsystem' = "ready" /\ UNCHANGED ret
         ELSE Returns(a, FALSE) /\ UNCHANGED subsystem
    /\ GoTo(a, "return")
    /\ UNCHANGED <<status, clk_mode, sem, ctx_vars, file_vars, fifo_vars,
                   time_up, sni_vars>>

(* app_stop_player: when the end of the file was reached (size is 0), the   *)
(* subsystem answers when it has played what is in the FIFO.                *)
Pause_Stop(a) ==
    /\ pc[a] = "stop"
    /\ (size = 0 /\ subsystem = "playing") => fifo = 0
    /\ IF subsystem = "playing"
         THEN subsystem' = "ready" /\ UNCHANGED ret
         ELSE Returns(a, FALSE) /\ UNCHANGED subsystem
    /\ GoTo(a, "close")
    /\ UNCHANGED <<status, clk_mode, sem, ctx_vars, file_vars, fifo_vars,
                   time_up, sni_vars>>

(* The subsystem refuses to stop, and plays on without its file.            *)
Pause_StopFails(a) ==
    /\ pc[a] = "stop"
    /\ subsystem = "playing"
    /\ GoTo(a, "close") /\ Returns(a, FALSE)
    /\ UNCHANGED <<status, clk_mode, subsystem, sem, ctx_vars, file_vars,
                   fifo_vars, time_up, sni_vars>>

(* app_close_play_file: the FIFO is cleared if the close succeeded.  Both   *)
(* also run in the calling thread when the player could not be started.     *)
Pause_Close(a) ==
    /\ pc[a] = "close"
    /\ file_open' = FALSE /\ unread' = 0
    /\ IF file_open
         THEN GoTo(a, "clear") /\ UNCHANGED ret
         ELSE GoTo(a, "return") /\ Returns(a, FALSE)
    /\ UNCHANGED <<status, clk_mode, subsystem, sem, ctx_vars, hires, size,
                   fifo_vars, time_up, sni_vars>>

(* The close of an open file fails: the FIFO is not cleared.                *)
Pause_CloseFails(a) ==
    /\ pc[a] = "close"
    /\ file_open
    /\ file_open' = FALSE /\ unread' = 0
    /\ uncleared' = TRUE
    /\ GoTo(a, "return") /\ Returns(a, FALSE)
    /\ UNCHANGED <<status, clk_mode, subsystem, sem, ctx_vars, hires, size, fifo,
                   read_buf, push, time_up, sni_vars>>

\* Mutant: the FIFO is not cleared.
Pause_ClearNothing(a) ==
    /\ pc[a] = "clear"
    /\ GoTo(a, "return")
    /\ UNCHANGED <<status, clk_mode, subsystem, sem, ctx_vars, file_vars,
                   fifo_vars, time_up, ret, sni_vars>>

Pause_Clear(a) ==
    /\ pc[a] = "clear"
    /\ fifo' = 0 /\ uncleared' = FALSE
    /\ GoTo(a, "return")
    /\ UNCHANGED <<status, clk_mode, subsystem, sem, ctx_vars, file_vars,
                   read_buf, push, time_up, ret, sni_vars>>

Pause(a) ==
    \/ Pause_Check(a) \/ Pause_Set(a) \/ Pause_Stop(a)
    \/ Pause_Close(a) \/ Pause_Clear(a)

\* What an external command answers in the middle of it.
PauseFails(a) == Pause_StopFails(a) \/ Pause_CloseFails(a)

-----------------------------------------------------------------------------
(* The calling thread.                                                      *)

(* Java_calling_thread_function_impl up to its loop: sem_init.              *)
Start ==
    /\ pc["player"] = "start"
    /\ sem' = 0
    /\ GoTo("player", "wait")
    /\ UNCHANGED <<status, clk_mode, subsystem, ctx_vars, file_vars, fifo_vars,
                   time_up, ret, sni_vars>>

(* sem_wait, and the switch on order_id.                                    *)
TakeOrder ==
    /\ pc["player"] = "wait"
    /\ sem > 0
    /\ sem' = sem - 1
    /\ GoTo("player", IF order_id = "CLOSE" THEN "leave" ELSE "args")
    /\ UNCHANGED <<status, clk_mode, subsystem, ctx_vars, file_vars, fifo_vars,
                   time_up, ret, sni_vars>>

(* The assertion on size, then the load of args, which a close may have     *)
(* reset since: the assertion fails, or the song's name is read at NULL.    *)
TakeSong ==
    /\ pc["player"] = "args"
    /\ GoTo("player", IF args THEN "open" ELSE "aborted")
    /\ UNCHANGED <<status, clk_mode, subsystem, sem, ctx_vars, file_vars, fifo_vars,
                   time_up, ret, sni_vars>>

(* After CLOSE: error_leave_player, audio_player_app_set_status_null.       *)
Leave ==
    /\ pc["player"] = "leave"
    /\ PowerOff
    /\ status' = "NULL"
    /\ GoTo("player", "none")
    /\ UNCHANGED <<clk_mode, sem, ctx_vars, file_vars, fifo_vars, time_up, ret,
                   sni_vars>>

(* audio_player_play_file, audio_player_play up to the first push: the      *)
(* player is initialized, the file is opened and is not empty.              *)
Open ==
    /\ pc["player"] = "open"
    /\ status # "NULL"
    /\ audio_file_info.size > 0
    /\ file_open' = TRUE /\ hires' = audio_file_info.hires
    /\ size' = audio_file_info.size /\ unread' = audio_file_info.size
    /\ push' = [left |-> ElementNum - 1, first |-> TRUE]
    /\ GoTo("player", "read")
    /\ UNCHANGED <<status, clk_mode, subsystem, sem, ctx_vars, fifo, read_buf,
                   uncleared, time_up, ret, sni_vars>>

\* Mutant: the thread that asked for the song is not answered.
OpenFailsSilently ==
    /\ pc["player"] = "open"
    /\ \/ status = "NULL" /\ UNCHANGED file_vars
       \/ /\ status # "NULL"
          /\ file_open' = FALSE /\ hires' = audio_file_info.hires
          /\ size' = 0 /\ UNCHANGED unread
    /\ PowerOff
    /\ GoTo("player", "wait") /\ Returns("player", FALSE)
    /\ UNCHANGED <<status, clk_mode, sem, ctx_vars, fifo_vars, time_up, sni_vars>>

(* It is not: the file cannot be opened, or it is closed at once.           *)
OpenFails ==
    /\ pc["player"] = "open"
    /\ \/ status = "NULL" /\ UNCHANGED file_vars
       \/ /\ status # "NULL"
          /\ file_open' = FALSE /\ hires' = audio_file_info.hires
          /\ size' = 0 /\ UNCHANGED unread
    /\ PowerOff
    /\ GoTo("player", "return") /\ Returns("player", FALSE)
    /\ UNCHANGED <<status, clk_mode, sem, ctx_vars, fifo_vars, time_up, sni_vars>>

(* app_push_simple_fifo, the read.                                          *)
Read ==
    /\ pc["player"] = "read"
    /\ file_open
    /\ read_buf' = Least(ElementSize, unread)
    /\ unread' = unread - read_buf'
    /\ GoTo("player", "offer")
    /\ UNCHANGED <<status, clk_mode, subsystem, sem, ctx_vars, file_open, hires, size,
                   fifo, push, uncleared, time_up, ret, sni_vars>>

(* FIFO_RESULT_ERR, of any file or of one that is closed: the first push    *)
(* gives the song up, a refill ends app_play_process.                       *)
ReadFails ==
    /\ pc["player"] = "read"
    /\ push' = NoPush
    /\ IF push.first
         THEN /\ fifo' = 0 /\ uncleared' = FALSE /\ file_open' = FALSE
              /\ PowerOff
              /\ GoTo("player", "return") /\ Returns("player", FALSE)
         ELSE /\ GoTo("player", "check")
              /\ UNCHANGED <<fifo, uncleared, file_open, subsystem, ret>>
    /\ UNCHANGED <<status, clk_mode, sem, ctx_vars, hires, unread, size, read_buf,
                   time_up, sni_vars>>

\* CMN_SimpleFifoOffer takes all or nothing, and an offer of nothing is 0.
Fits == fifo + read_buf <= QueueSize
Offered == read_buf > 0 /\ Fits

(* app_push_simple_fifo, the offer; the next push, or the end of the loop   *)
(* of app_first_push_simple_fifo or of app_refill_simple_fifo.              *)
Offer ==
    /\ pc["player"] = "offer"
    /\ IF Offered
         THEN /\ fifo' = fifo + read_buf
              /\ size' = size - read_buf
         ELSE UNCHANGED <<fifo, size>>
    /\ read_buf' = 0
    /\ LET ok == Offered /\ size' # 0
       IN  \/ /\ ok /\ push.left > 1
              /\ push' = [push EXCEPT !.left = @ - 1]
              /\ GoTo("player", "read")
           \/ /\ ~(ok /\ push.left > 1)
              /\ push' = NoPush
              /\ GoTo("player", CASE push.first -> "clock"
                                   [] ~push.first /\ ok -> "again"
                                   [] ~push.first /\ ~ok -> "check")
    /\ UNCHANGED <<status, clk_mode, subsystem, sem, ctx_vars, file_open, hires, unread,
                   uncleared, time_up, ret, sni_vars>>

(* audio_player_handle_clk_mode.  A Hi-Res file is closed.                  *)
ClockRefused ==
    /\ pc["player"] = "clock"
    /\ hires
    /\ GoTo("player", "close") /\ Returns("player", FALSE)
    /\ UNCHANGED <<status, clk_mode, subsystem, sem, ctx_vars, file_vars,
                   fifo_vars, time_up, sni_vars>>

Clock ==
    /\ pc["player"] = "clock"
    /\ ~hires
    /\ clk_mode \/ subsystem # "off"
    /\ clk_mode' = TRUE
    /\ GoTo("player", "app_start")
    /\ UNCHANGED <<status, subsystem, sem, ctx_vars, file_vars, fifo_vars,
                   time_up, ret, sni_vars>>

(* A command of the initial setting failed: the clock mode counts as set    *)
(* all the same, the file stays open and the first push in the FIFO.        *)
ClockFails ==
    /\ pc["player"] = "clock"
    /\ ~hires
    /\ ~clk_mode
    /\ clk_mode' = TRUE
    /\ uncleared' = TRUE
    /\ PowerOff
    /\ GoTo("player", "return") /\ Returns("player", FALSE)
    /\ UNCHANGED <<status, sem, ctx_vars, file_vars, fifo, read_buf, push, time_up,
                   sni_vars>>

(* app_start.                                                               *)
AppStart ==
    /\ pc["player"] = "app_start"
    /\ subsystem = "ready"
    /\ subsystem' = "playing"
    /\ GoTo("player", "run")
    /\ UNCHANGED <<status, clk_mode, sem, ctx_vars, file_vars, fifo_vars, time_up,
                   ret, sni_vars>>

AppStartFails ==
    /\ pc["player"] = "app_start"
    /\ GoTo("player", "close") /\ Returns("player", FALSE)
    /\ UNCHANGED <<status, clk_mode, subsystem, sem, ctx_vars, file_vars,
                   fifo_vars, time_up, sni_vars>>

(* app_play_process up to its loop.                                         *)
Run ==
    /\ pc["player"] = "run"
    /\ status' = "PLAYING"
    /\ time_up' = FALSE
    /\ GoTo("player", "refill")
    /\ UNCHANGED <<clk_mode, subsystem, sem, ctx_vars, file_vars, fifo_vars, ret,
                   sni_vars>>

\* Mutant: any room in the FIFO is taken for that of an element.
RefillAnyRoom ==
    LET vacant == QueueSize - fifo
    IN  /\ pc["player"] = "refill"
        /\ \/ /\ vacant > 0
              /\ push' = [left |-> Least((vacant + ElementSize - 1) \div ElementSize, PushNumMax),
                          first |-> FALSE]
              /\ GoTo("player", "read")
           \/ /\ vacant <= 0
              /\ GoTo("player", "again")
              /\ UNCHANGED push
        /\ UNCHANGED <<status, clk_mode, subsystem, sem, ctx_vars, file_vars, fifo,
                       read_buf, uncleared, time_up, ret, sni_vars>>

(* app_refill_simple_fifo up to its loop.                                   *)
Refill ==
    LET vacant == QueueSize - fifo
    IN  /\ pc["player"] = "refill"
        /\ \/ /\ vacant > ElementSize
              /\ push' = [left |-> Least(vacant \div ElementSize, PushNumMax),
                          first |-> FALSE]
              /\ GoTo("player", "read")
           \/ /\ vacant <= ElementSize
              /\ GoTo("player", "again")
              /\ UNCHANGED push
        /\ UNCHANGED <<status, clk_mode, subsystem, sem, ctx_vars, file_vars, fifo,
                       read_buf, uncleared, time_up, ret, sni_vars>>

(* app_play_process: its loop's conditions.                                 *)
Again ==
    /\ pc["player"] = "again"
    /\ GoTo("player", IF status # "PLAYING" \/ time_up THEN "check" ELSE "refill")
    /\ UNCHANGED <<status, clk_mode, subsystem, sem, ctx_vars, file_vars,
                   fifo_vars, time_up, ret, sni_vars>>

(* Java_calling_thread_function_impl: the result, SNI_resumeJavaThread.     *)
PlayEnd ==
    /\ pc["player"] = "return"
    /\ result' = ret["player"]
    /\ IF thread[java_thread_id] = "play"
         THEN /\ thread' = [thread EXCEPT ![java_thread_id] = "java"]
              /\ UNCHANGED resumed
         ELSE /\ resumed' = [resumed EXCEPT ![java_thread_id] = TRUE]
              /\ UNCHANGED thread
    /\ time_up' = FALSE
    /\ GoTo("player", "wait")
    /\ UNCHANGED <<status, clk_mode, subsystem, sem, order_id, java_thread_id,
                   args, audio_file_info, file_vars, fifo_vars, ret, vm>>

-----------------------------------------------------------------------------
(* External: the subsystem decodes what is in the FIFO; time passes.        *)
Decode ==
    /\ subsystem = "playing" /\ fifo > 0
    /\ fifo' = fifo - 1
    /\ UNCHANGED <<status, clk_mode, subsystem, sem, ctx_vars, file_vars, read_buf,
                   push, uncleared, time_up, pc, ret, sni_vars>>

PlayTimeElapses ==
    /\ ~time_up
    /\ pc["player"] \in {"refill", "read", "offer", "again"} /\ ~push.first
    /\ time_up' = TRUE
    /\ UNCHANGED <<status, clk_mode, subsystem, sem, ctx_vars, file_vars,
                   fifo_vars, pc, ret, sni_vars>>

-----------------------------------------------------------------------------
Call(t) ==
    \/ Initialize(t) \/ CallPause(t, "pause") \/ CallPause(t, "play")
    \/ SetVolume(t) \/ Close(t)

\* What the VM task has left to do of the native it runs.
VmTask == Pause("vm") \/ PauseEnd \/ PlayOrder \/ PlayRefused \/ Suspend \/ Join

Player ==
    \/ Start \/ TakeOrder \/ TakeSong \/ Leave \/ Open \/ OpenFails \/ Read
    \/ ReadFails \/ Offer \/ ClockRefused \/ Clock \/ ClockFails \/ AppStart
    \/ AppStartFails \/ Run \/ Refill \/ Again \/ Pause("player") \/ PlayEnd

External == Decode \/ PlayTimeElapses

Next ==
    \/ \E t \in Threads : Call(t)
    \/ VmTask \/ Player \/ External
    \/ \E a \in Actors : PauseFails(a)

Spec == Init /\ [][Next]_vars

(* Both tasks run when they can, the subsystem decodes, time passes.  No    *)
(* pause relies on the failure of a stop or of a close.                     *)
Fairness == WF_vars(VmTask) /\ WF_vars(Player) /\ WF_vars(Decode)
                /\ WF_vars(PlayTimeElapses)

FairSpec == Spec /\ Fairness

-----------------------------------------------------------------------------
(* There is one sni_ctx: a play or a close that is called before the last   *)
(* play was answered takes its place, and that play is never answered.      *)
Waiting ==
    {t \in Threads : thread[t] = "play"} \union
        (IF pc["vm"] \in {"suspend", "join"} THEN {vm.thread} ELSE {})
Undisturbed == Waiting \subseteq {java_thread_id}

\* The calling thread is about to reset the semaphore, an order is posted.
OrderLost == pc["player"] = "start" /\ sem > 0

\* A native pause or play_file is stopping the song.
VmStopping == pc["vm"] \in {"set", "stop", "close", "clear"}

(* As long as the status is PLAYING the subsystem plays and the file is     *)
(* open: nobody stops the one or closes the other without leaving PLAYING   *)
(* first, whichever of the two tasks ends the song.                         *)
PlayingFromOpenFile ==
    Undisturbed /\ status = "PLAYING" => file_open /\ subsystem = "playing"

(* When the calling thread waits for its next order after a song that did   *)
(* not fail, the file of that song is closed.  (A failure of the initial    *)
(* setting, ClockFails, leaves it open.)                                    *)
FileClosedAfterSong ==
    Undisturbed /\ pc["player"] = "wait" /\ ~VmStopping /\ ret["player"]
        => ~file_open

(* A refill that was reading while a pause cleared the FIFO leaves what it  *)
(* read there, for the next song to begin with: one element at most, unless *)
(* the FIFO was not cleared after a song whose initial setting or whose     *)
(* close failed.                                                            *)
ResidueBounded ==
    Undisturbed /\ pc["player"] = "wait" /\ ~VmStopping /\ ~uncleared
        => fifo <= ElementSize

(* What a refill reads always fits in the FIFO, and so does the first push  *)
(* of a song, residue included: no part of a song is dropped, but of the    *)
(* first push of one that follows a song that left its bytes in the FIFO.   *)
NothingDropped ==
    Undisturbed /\ pc["player"] = "offer" /\ ~Fits => push.first /\ uncleared

(* A play is answered, when the song ends, its time is over, it is paused   *)
(* or it fails, if no order takes its place and none is posted before the   *)
(* calling thread initialized the semaphore.                                *)
PlayReturns ==
    [](Undisturbed /\ ~OrderLost)
        => \A t \in Threads : thread[t] = "play" ~> thread[t] = "java"

(* The virtual machine task gets out of every native of the player, close   *)
(* included, which waits for the song that plays to end; the calling thread *)
(* that took an order and finds a close in its place has aborted.           *)
NativesReturn ==
    []~OrderLost => (vm # Idle ~> vm = Idle \/ pc["player"] = "aborted")

\* Bound of the checks: the orders posted and not taken.
SemBound == sem <= 2
=============================================================================
