-------------------------- MODULE LLCommUartProofs --------------------------
(***************************************************************************)
(* Safety of the UART connection for any number of initializations and any *)
(* size of the driver's buffers.                                           *)
(***************************************************************************)
EXTENDS LLCommUart, TLAPS

IInv == TypeOK /\ NotificationOwed

LEMMA InitInv == Init => IInv
<1> SUFFICES ASSUME Init PROVE IInv
  OBVIOUS
<1>1. TypeOK
  <2>1. rx \in 0 .. RxSize /\ tx \in 0 .. TxSize
    BY LLCommUartAssumption DEF Init
  <2> QED
    BY <2>1 DEF Init, TypeOK, Places, Switches, Callers
<1>2. NotificationOwed
  BY DEF Init, NotificationOwed
<1> QED
  BY <1>1, <1>2 DEF IInv

(* The buffers stay within their sizes, and a polling task in its place.    *)
LEMMA StepType == TypeOK /\ [Next]_vars => TypeOK'
<1> SUFFICES ASSUME TypeOK, [Next]_vars PROVE TypeOK'
  OBVIOUS
<1> USE LLCommUartAssumption DEF TypeOK, Places, polling_vars, device_vars
<1>1. CASE Initialize
  BY <1>1 DEF Initialize
<1>2. CASE Released
  <2>1. at' \in [Pollers -> Places]
    BY <1>2 DEF Released
  <2>2. rx' \in 0 .. RxSize /\ tx' \in 0 .. TxSize
    BY <1>2 DEF Released
  <2> QED
    BY <1>2, <2>1, <2>2 DEF Released
<1>3. ASSUME NEW c \in Callers, NEW s \in Switches, Enable(c, s) \/ Disable(c, s)
      PROVE  TypeOK'
  BY <1>3 DEF Enable, Disable
<1>4. ASSUME NEW c \in Callers, Write(c) PROVE TypeOK'
  BY <1>4 DEF Write
<1>5. ASSUME NEW c \in Callers, AskForNotification(c) PROVE TypeOK'
  BY <1>5 DEF AskForNotification
<1>6. ASSUME NEW c \in Callers, IsRXDataAvailable(c) \/ GetNextRXData(c) PROVE TypeOK'
  BY <1>6 DEF IsRXDataAvailable, GetNextRXData
<1>7. CASE Drain \/ TransmissionComplete
  BY <1>7 DEF Drain, TransmissionComplete
<1>8. ASSUME NEW p \in Pollers, Poll(p) PROVE TypeOK'
  BY <1>8 DEF Poll, EventsToPoll
<1>9. ASSUME NEW p \in Pollers, PollReturns(p) PROVE TypeOK'
  BY <1>9 DEF PollReturns
<1>10. ASSUME NEW p \in Pollers, StrayPollReturns(p) PROVE TypeOK'
  BY <1>10 DEF StrayPollReturns
<1>11. ASSUME NEW p \in Pollers, Dispatch(p) PROVE TypeOK'
  <2>1. (shouldPollout /\ ~Notifies(p)) \in BOOLEAN
    OBVIOUS
  <2> QED
    BY <1>11, <2>1 DEF Dispatch
<1>12. ASSUME NEW p \in Pollers, TransmitBufferReady(p) \/ CallbackReturns(p)
       PROVE  TypeOK'
  BY <1>12 DEF TransmitBufferReady, CallbackReturns
<1>13. CASE ByteReceived \/ ByteTransmitted
  BY <1>13 DEF ByteReceived, ByteTransmitted
<1>14. CASE UNCHANGED vars
  BY <1>14 DEF vars
<1> QED
  BY <1>1, <1>2, <1>3, <1>4, <1>5, <1>6, <1>7, <1>8, <1>9, <1>10, <1>11, <1>12,
     <1>13, <1>14 DEF Next, PollerStep

(* The flag is cleared only by the task that calls transmitBufferReady      *)
(* next, and that call answers what was sent before it.                     *)
LEMMA StepOwed == IInv /\ [Next]_vars => NotificationOwed'
<1> SUFFICES ASSUME IInv, [Next]_vars PROVE NotificationOwed'
  OBVIOUS
<1>i. NotificationOwed /\ at \in [Pollers -> Places]
  BY DEF IInv, TypeOK
<1> USE DEF NotificationOwed
<1>1. CASE /\ UNCHANGED <<shouldPollout, unanswered>>
           /\ \A p \in Pollers : at[p] = "ready" => at'[p] = "ready"
  BY <1>1, <1>i
<1>2. CASE \E c \in Callers : AskForNotification(c)
  BY <1>2 DEF AskForNotification
<1>3. ASSUME NEW p \in Pollers, Dispatch(p) PROVE NotificationOwed'
  <2>1. CASE Notifies(p)
    <3>1. at'[p] = "ready"
      BY <1>3, <1>i, <2>1 DEF Dispatch, Notifies
    <3> QED
      BY <3>1
  <2>2. CASE ~Notifies(p)
    <3>1. UNCHANGED unanswered /\ shouldPollout' = shouldPollout
      BY <1>3, <2>2 DEF Dispatch, IInv, TypeOK
    <3>2. \A q \in Pollers : at[q] = "ready" => at'[q] = "ready"
      BY <1>3, <1>i DEF Dispatch
    <3> QED
      BY <3>1, <3>2, <1>i
  <2> QED
    BY <2>1, <2>2
<1>4. CASE \E p \in Pollers : TransmitBufferReady(p)
  BY <1>4 DEF TransmitBufferReady
<1>5. CASE Initialize \/ Released
  <2>1. UNCHANGED <<shouldPollout, unanswered>>
    BY <1>5 DEF Initialize, Released
  <2>2. \A p \in Pollers : at[p] = "ready" => at'[p] = "ready"
    BY <1>5, <1>i DEF Initialize, Released
  <2> QED
    BY <1>1, <2>1, <2>2
<1>6. ASSUME NEW p \in Pollers,
             \/ Poll(p) \/ PollReturns(p) \/ StrayPollReturns(p) \/ CallbackReturns(p)
      PROVE  NotificationOwed'
  <2>1. UNCHANGED <<shouldPollout, unanswered>>
    BY <1>6 DEF Poll, PollReturns, StrayPollReturns, CallbackReturns
  <2>2. \A q \in Pollers : at[q] = "ready" => at'[q] = "ready"
    BY <1>6, <1>i DEF Poll, PollReturns, StrayPollReturns, CallbackReturns
  <2> QED
    BY <1>1, <2>1, <2>2
<1>7. CASE \/ \E c \in Callers, s \in Switches : Enable(c, s) \/ Disable(c, s)
           \/ \E c \in Callers : Write(c) \/ IsRXDataAvailable(c) \/ GetNextRXData(c)
           \/ Drain \/ TransmissionComplete \/ ByteReceived \/ ByteTransmitted
           \/ UNCHANGED vars
  <2>1. UNCHANGED <<shouldPollout, unanswered, at>>
    BY <1>7 DEF Enable, Disable, Write, IsRXDataAvailable, GetNextRXData, Drain,
                TransmissionComplete, ByteReceived, ByteTransmitted, polling_vars, vars
  <2> QED
    BY <1>1, <2>1
<1> QED
  BY <1>2, <1>3, <1>4, <1>5, <1>6, <1>7 DEF Next, PollerStep

LEMMA Invariance == Spec => []IInv
<1>1. IInv /\ [Next]_vars => IInv'
  BY StepType, StepOwed DEF IInv
<1> QED
  BY InitInv, <1>1, PTL DEF Spec

(* Type correctness: the driver's buffers stay within their sizes, and a    *)
(* polling task in a place of its function.                                 *)
THEOREM TypeCorrect == Spec => []TypeOK
<1>1. IInv => TypeOK
  BY DEF IInv
<1> QED
  BY <1>1, Invariance, PTL

(* No request for a transmit-ready notification is lost to the race of      *)
(* sendData and of the polling tasks for shouldPollout.                     *)
THEOREM NotificationsOwed == Spec => []NotificationOwed
<1>1. IInv => NotificationOwed
  BY DEF IInv
<1> QED
  BY <1>1, Invariance, PTL
=============================================================================
