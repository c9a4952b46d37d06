----------------------------- MODULE LLCommUart -----------------------------
(***************************************************************************)
(* The UART connection, LLCOMM_UART.c: the natives a connection calls on   *)
(* its device, and the task UART2_RX, one per LLCOMM_..._initialize, that  *)
(* polls the device and stands in for its interrupts.                      *)
(*                                                                         *)
(* External: the buffered connection above, whose callbacks dataReceived   *)
(* and transmitBufferReady run in the polling task and may use the device  *)
(* as Java does; and the driver, which polls, keeps the bytes received and *)
(* those to transmit.  A file number is not reused by another file.        *)
(***************************************************************************)
EXTENDS Naturals

CONSTANTS
    Java,           \* the task that runs Java code
    Pollers,        \* polling tasks; bound: initializations that start one
    RxSize, TxSize  \* bytes the driver keeps; more are lost or refused

ASSUME LLCommUartAssumption ==
    /\ Java \notin Pollers
    /\ RxSize \in Nat \ {0} /\ TxSize \in Nat \ {0}

VARIABLES
    uart_opened,
    shouldPollout,
    fd,             \* what comm->fd is: file 0 before the first open
    enabled,        \* enableRx, enableTx, enableRxInterrupt, enableTxInterrupt
    rx, tx,         \* how many bytes wait to be read, to be transmitted
    at,             \* where each polling task is
    events,         \* of its struct pollfd: asked for, then reported
    sending,        \* who is in sendData, past write
    draining,       \* Java is in tcdrain
    unanswered      \* history: sendData has returned since transmitBufferReady

device_vars == <<fd, rx, tx>>
polling_vars == <<at, events>>
vars == <<uart_opened, shouldPollout, device_vars, enabled, polling_vars, sending,
          draining, unanswered>>

Callers == Pollers \union {Java}
Switches == {"Rx", "Tx", "RxInterrupt", "TxInterrupt"}

\* "stray": the file was closed under its poll.  "ready": before
\* transmitBufferReady.  "dataReceived", "callback": in a callback.
Places == {"none", "loop", "poll", "stray", "polled", "ready", "dataReceived",
           "callback", "ended"}

TypeOK ==
    /\ uart_opened \in BOOLEAN
    /\ shouldPollout \in BOOLEAN
    /\ fd \in {"console", "port", "closed"}
    /\ enabled \subseteq Switches
    /\ rx \in 0 .. RxSize
    /\ tx \in 0 .. TxSize
    /\ at \in [Pollers -> Places]
    /\ events \in [Pollers -> SUBSET {"IN", "OUT"}]
    /\ sending \subseteq Callers
    /\ draining \in BOOLEAN
    /\ unanswered \in BOOLEAN

Init ==
    /\ uart_opened = FALSE
    /\ shouldPollout = TRUE
    /\ fd = "console"
    /\ enabled = {}
    /\ rx = 0 /\ tx = 0
    /\ at = [p \in Pollers |-> "none"]
    /\ events = [p \in Pollers |-> {}]
    /\ sending = {}
    /\ draining = FALSE
    /\ unanswered = FALSE

\* c runs code that may call a native: Java code, or a callback.
Calls(c) ==
    /\ c \notin sending
    /\ IF c = Java THEN uart_opened /\ ~draining
                   ELSE at[c] \in {"dataReceived", "callback"}

-----------------------------------------------------------------------------
(* LLCOMM_CUSTOM_CONNECTION_IMPL_initialize.  If open fails, fd stays as it *)
(* was; if task_create fails, nobody notices.                               *)
Initialize ==
    /\ ~uart_opened
    /\ uart_opened' = TRUE
    /\ fd' \in {fd, "port"}
    /\ \E p \in Pollers :
        /\ at[p] = "none"
        /\ at' \in {at, [at EXCEPT ![p] = "loop"]}
    /\ UNCHANGED <<shouldPollout, enabled, rx, tx, events, sending, draining, unanswered>>

(* LLCOMM_CUSTOM_CONNECTION_IMPL_released.  What becomes of a poll on the   *)
(* file is up to the driver, and the bytes are dropped.                     *)
Released ==
    /\ Calls(Java)
    /\ uart_opened' = FALSE
    /\ fd' = "closed"
    /\ rx' = 0 /\ tx' = 0
    /\ at' = [p \in Pollers |-> IF at[p] = "poll" THEN "stray" ELSE at[p]]
    /\ UNCHANGED <<shouldPollout, enabled, events, sending, draining, unanswered>>

(* enableRX, enableTX, enableRXDeviceInterrupt, enableTXDeviceInterrupt.    *)
Enable(c, s) ==
    /\ Calls(c)
    /\ enabled' = enabled \union {s}
    /\ UNCHANGED <<uart_opened, shouldPollout, device_vars, polling_vars, sending,
                   draining, unanswered>>

(* disableRX, disableTX, disableRXDeviceInterrupt, disableTXDeviceInterrupt.*)
Disable(c, s) ==
    /\ Calls(c)
    /\ enabled' = enabled \ {s}
    /\ UNCHANGED <<uart_opened, shouldPollout, device_vars, polling_vars, sending,
                   draining, unanswered>>

(* LLCOMM_CUSTOM_CONNECTION_IMPL_sendData: write, which finds room or not,  *)
(* and then in any case the flag.                                           *)
Write(c) ==
    /\ Calls(c)
    /\ "Tx" \in enabled
    /\ tx' = IF fd = "port" /\ tx < TxSize THEN tx + 1 ELSE tx
    /\ sending' = sending \union {c}
    /\ UNCHANGED <<uart_opened, shouldPollout, fd, enabled, rx, polling_vars, draining,
                   unanswered>>

AskForNotification(c) ==
    /\ c \in sending
    /\ shouldPollout' = TRUE
    /\ unanswered' = TRUE
    /\ sending' = sending \ {c}
    /\ UNCHANGED <<uart_opened, device_vars, enabled, polling_vars, draining>>

(* LLCOMM_CUSTOM_CONNECTION_IMPL_isRXDataAvailable discards what it is      *)
(* about to count.                                                          *)
IsRXDataAvailable(c) ==
    /\ Calls(c)
    /\ "Rx" \in enabled
    /\ rx' = IF fd = "port" THEN 0 ELSE rx
    /\ UNCHANGED <<uart_opened, shouldPollout, fd, tx, enabled, polling_vars, sending,
                   draining, unanswered>>

(* LLCOMM_CUSTOM_CONNECTION_IMPL_getNextRXData, when there is a byte.       *)
GetNextRXData(c) ==
    /\ Calls(c)
    /\ "Rx" \in enabled
    /\ fd = "port" /\ rx > 0
    /\ rx' = rx - 1
    /\ UNCHANGED <<uart_opened, shouldPollout, fd, tx, enabled, polling_vars, sending,
                   draining, unanswered>>

(* LLCOMM_CUSTOM_CONNECTION_IMPL_isTransmissionComplete. *)
Drain ==
    /\ Calls(Java)
    /\ "Tx" \in enabled
    /\ draining' = TRUE
    /\ UNCHANGED <<uart_opened, shouldPollout, device_vars, enabled, polling_vars,
                   sending, unanswered>>

TransmissionComplete ==
    /\ draining /\ tx = 0
    /\ draining' = FALSE
    /\ UNCHANGED <<uart_opened, shouldPollout, device_vars, enabled, polling_vars,
                   sending, unanswered>>

-----------------------------------------------------------------------------
(* LLCOM_UART_IMPL_rxData_polling_func, task p.                             *)

\* Mutant: one event at a time.
EitherEvent == IF shouldPollout THEN {"OUT"} ELSE {"IN"}

EventsToPoll == IF shouldPollout THEN {"IN", "OUT"} ELSE {"IN"}

Poll(p) ==
    /\ at[p] = "loop"
    /\ IF uart_opened
         THEN /\ at' = [at EXCEPT ![p] = "poll"]
              /\ events' = [events EXCEPT ![p] = EventsToPoll]
         ELSE /\ at' = [at EXCEPT ![p] = "ended"]
              /\ UNCHANGED events
    /\ UNCHANGED <<uart_opened, shouldPollout, device_vars, enabled, sending, draining,
                   unanswered>>

Happened ==
    (IF rx > 0 THEN {"IN"} ELSE {}) \union (IF tx < TxSize THEN {"OUT"} ELSE {})

PollReturns(p) ==
    /\ at[p] = "poll" /\ fd = "port"
    /\ events[p] \intersect Happened # {}
    /\ at' = [at EXCEPT ![p] = "polled"]
    /\ events' = [events EXCEPT ![p] = @ \intersect Happened]
    /\ UNCHANGED <<uart_opened, shouldPollout, device_vars, enabled, sending, draining,
                   unanswered>>

(* A poll of another file than the open port fails, or reports something.   *)
StrayPollReturns(p) ==
    /\ at[p] = "stray" \/ (at[p] = "poll" /\ fd # "port")
    /\ \E e \in SUBSET events[p] :
        /\ at' = [at EXCEPT ![p] = IF e = {} THEN "loop" ELSE "polled"]
        /\ events' = [events EXCEPT ![p] = e]
    /\ UNCHANGED <<uart_opened, shouldPollout, device_vars, enabled, sending, draining,
                   unanswered>>

\* To hear of room to send, and not of a byte, clears the flag.
Notifies(p) ==
    /\ ~ ("RxInterrupt" \in enabled /\ "IN" \in events[p])
    /\ "TxInterrupt" \in enabled /\ "OUT" \in events[p]

\* Mutant: the flag is cleared whenever there is room.
DispatchClears(p) ==
    /\ at[p] = "polled"
    /\ shouldPollout' = (shouldPollout /\ "OUT" \notin events[p])
    /\ at' = [at EXCEPT ![p] =
                IF "RxInterrupt" \in enabled /\ "IN" \in events[p] THEN "dataReceived"
                ELSE IF Notifies(p) THEN "ready" ELSE "loop"]
    /\ events' = [events EXCEPT ![p] = {}]
    /\ UNCHANGED <<uart_opened, device_vars, enabled, sending, draining, unanswered>>

Dispatch(p) ==
    /\ at[p] = "polled"
    /\ shouldPollout' = (shouldPollout /\ ~Notifies(p))
    /\ at' = [at EXCEPT ![p] =
                IF "RxInterrupt" \in enabled /\ "IN" \in events[p] THEN "dataReceived"
                ELSE IF Notifies(p) THEN "ready" ELSE "loop"]
    /\ events' = [events EXCEPT ![p] = {}]
    /\ UNCHANGED <<uart_opened, device_vars, enabled, sending, draining, unanswered>>

(* LLCOMM_CUSTOM_CONNECTION_transmitBufferReady is called. *)
TransmitBufferReady(p) ==
    /\ at[p] = "ready"
    /\ at' = [at EXCEPT ![p] = "callback"]
    /\ unanswered' = FALSE
    /\ UNCHANGED <<uart_opened, shouldPollout, device_vars, enabled, events, sending,
                   draining>>

\* Mutant: the flag is cleared after the callback, too.
FlagClearedLate(p) ==
    /\ at[p] \in {"dataReceived", "callback"} /\ p \notin sending
    /\ at' = [at EXCEPT ![p] = "loop"]
    /\ shouldPollout' = (shouldPollout /\ at[p] # "callback")
    /\ UNCHANGED <<uart_opened, device_vars, enabled, events, sending, draining,
                   unanswered>>

CallbackReturns(p) ==
    /\ at[p] \in {"dataReceived", "callback"} /\ p \notin sending
    /\ at' = [at EXCEPT ![p] = "loop"]
    /\ UNCHANGED <<uart_opened, shouldPollout, device_vars, enabled, events, sending,
                   draining, unanswered>>

-----------------------------------------------------------------------------
(* The driver's interrupts. *)
ByteReceived ==
    /\ fd = "port" /\ rx < RxSize
    /\ rx' = rx + 1
    /\ UNCHANGED <<uart_opened, shouldPollout, fd, tx, enabled, polling_vars, sending,
                   draining, unanswered>>

ByteTransmitted ==
    /\ tx > 0
    /\ tx' = tx - 1
    /\ UNCHANGED <<uart_opened, shouldPollout, fd, rx, enabled, polling_vars, sending,
                   draining, unanswered>>

PollerStep(p) ==
    \/ Poll(p) \/ PollReturns(p) \/ Dispatch(p) \/ TransmitBufferReady(p)

Next ==
    \/ Initialize \/ Released
    \/ \E c \in Callers, s \in Switches : Enable(c, s) \/ Disable(c, s)
    \/ \E c \in Callers : \/ Write(c) \/ AskForNotification(c)
                          \/ IsRXDataAvailable(c) \/ GetNextRXData(c)
    \/ Drain \/ TransmissionComplete
    \/ \E p \in Pollers : PollerStep(p) \/ StrayPollReturns(p) \/ CallbackReturns(p)
    \/ ByteReceived \/ ByteTransmitted

(* The polling task is scheduled, the driver notifies a poll of an event    *)
(* even if it is over when the task runs, a callback, which sends at most   *)
(* what its buffer holds, returns, and bytes leave through the serial line. *)
Spec ==
    /\ Init /\ [][Next]_vars
    /\ \A p \in Pollers : /\ WF_vars(PollerStep(p)) /\ SF_vars(PollReturns(p))
                        /\ SF_vars(CallbackReturns(p))
    /\ \A c \in Callers : WF_vars(AskForNotification(c))
    /\ WF_vars(ByteTransmitted)
-----------------------------------------------------------------------------
(* No request for a notification is lost, whatever tasks send while the     *)
(* flag is being cleared: as long as no transmitBufferReady has followed a  *)
(* sendData, the next poll asks for room to send, or the call is next.      *)
NotificationOwed ==
    unanswered => shouldPollout \/ \E p \in Pollers : at[p] = "ready"

\* A task that polls the open port, and one that does not wait for a byte only.
Polling(p) == uart_opened /\ fd = "port" /\ at[p] \notin {"none", "stray", "ended"}
PollingOut(p) == Polling(p) /\ (at[p] = "poll" => "OUT" \in events[p])

ByteWaits == rx > 0 /\ "RxInterrupt" \in enabled /\ \E p \in Pollers : Polling(p)

(* A byte that stays in the driver is announced by dataReceived, however    *)
(* much is sent meanwhile, if a task polls and nothing is switched off.     *)
ByteAnnounced ==
    ByteWaits ~> (~ByteWaits \/ \E p \in Pollers : at[p] = "dataReceived")

SenderWaits ==
    unanswered /\ rx = 0 /\ "TxInterrupt" \in enabled /\ \E p \in Pollers : Polling(p)

(* Who sends is told when there is room again, while no byte is received,   *)
(* except when all tasks that poll began before the flag was set.           *)
ReadyAnnounced ==
    (SenderWaits /\ \E p \in Pollers : PollingOut(p)) ~> ~SenderWaits
=============================================================================
