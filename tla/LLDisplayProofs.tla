--------------------------- MODULE LLDisplayProofs ---------------------------
(***************************************************************************)
(* Proofs about LLDisplay for every height.  The two semaphores and the    *)
(* two program counters are one token that goes round: the inductive       *)
(* invariant says where it is and which rows have been copied.             *)
(***************************************************************************)
EXTENDS LLDisplay, TLAPS

Drawing == {"synced", "draw", "y_max", "look", "post"}

(* Where the token is: with the caller, in flush_sem, with the task, or in  *)
(* sync_sem.                                                                *)
Token ==
    \/ vm \in Drawing /\ flush_sem = 0 /\ lcd = "wait" /\ sync_sem = 0
    \/ /\ vm \in {"flushed", "sync"}
       /\ \/ flush_sem = 1 /\ lcd = "wait" /\ sync_sem = 0
          \/ flush_sem = 0 /\ lcd \in {"copy", "look", "post"} /\ sync_sem = 0
          \/ flush_sem = 0 /\ lcd = "wait" /\ sync_sem = 1

Shown(first, last) == \A r \in first .. last : screen[r] = buffer[r]

Copied ==
    /\ vm # "y_max" => y_min <= y_max
    /\ lcd = "copy" => i \in y_min .. y_max + 1 /\ Shown(y_min, i - 1)
    /\ lcd \in {"look", "post"} \/ sync_sem = 1 \/ vm = "synced" => Shown(y_min, y_max)

IInv == TypeOK /\ Token /\ Copied

-----------------------------------------------------------------------------
(* Every step keeps the types: the loop of lcd_flush stops at y_max, so its *)
(* variable is at most one past the last row, and no semaphore is posted    *)
(* while the token is elsewhere.                                            *)
LEMMA StepType == TypeOK /\ Token /\ [Next]_vars => TypeOK'
<1> SUFFICES ASSUME TypeOK, Token, [Next]_vars PROVE TypeOK'
  OBVIOUS
<1> USE LLDisplayAssumption DEF TypeOK, Rows, Drawings, VmStates, LcdStates,
                               vm_vars, lcd_vars
<1>1. ASSUME NEW r \in Rows, Draw(r) PROVE TypeOK'
  <2>1. 1 - buffer[r] \in Drawings
    OBVIOUS
  <2> QED BY <1>1, <2>1 DEF Draw
<1>2. ASSUME NEW r \in Rows, FlushMin(r) PROVE TypeOK'
  BY <1>2 DEF FlushMin
<1>3. ASSUME NEW r \in Rows, FlushMax(r) PROVE TypeOK'
  BY <1>3 DEF FlushMax
<1>4. CASE FlushLook
  BY <1>4 DEF FlushLook
<1>5. CASE FlushPost
  BY <1>5 DEF FlushPost, Token, Drawing
<1>6. CASE SynchronizeBegin
  BY <1>6 DEF SynchronizeBegin
<1>7. CASE Synchronize
  BY <1>7 DEF Synchronize
<1>8. CASE LcdWait
  BY <1>8 DEF LcdWait
<1>9. CASE LcdCopy
  BY <1>9 DEF LcdCopy
<1>10. CASE LcdLook
  BY <1>10 DEF LcdLook
<1>11. CASE LcdPost
  BY <1>11 DEF LcdPost, Token
<1>12. CASE UNCHANGED vars
  BY <1>12 DEF vars
<1> QED
  BY <1>1, <1>2, <1>3, <1>4, <1>5, <1>6, <1>7, <1>8, <1>9, <1>10, <1>11, <1>12
  DEF Next, Flush, LcdStep

(* The token is passed on, never doubled or dropped: a task that finds a    *)
(* semaphore at 0 is the only one that may post it.                         *)
LEMMA StepToken == TypeOK /\ Token /\ [Next]_vars => Token'
<1> SUFFICES ASSUME TypeOK, Token, [Next]_vars PROVE Token'
  OBVIOUS
<1> USE DEF Token, Drawing, vm_vars, lcd_vars
<1>1. ASSUME NEW r \in Rows, Draw(r) PROVE Token'
  BY <1>1 DEF Draw
<1>2. ASSUME NEW r \in Rows, FlushMin(r) PROVE Token'
  BY <1>2 DEF FlushMin
<1>3. ASSUME NEW r \in Rows, FlushMax(r) PROVE Token'
  BY <1>3 DEF FlushMax
<1>4. CASE FlushLook
  BY <1>4 DEF FlushLook
<1>5. CASE FlushPost
  BY <1>5 DEF FlushPost
<1>6. CASE SynchronizeBegin
  BY <1>6 DEF SynchronizeBegin
<1>7. CASE Synchronize
  BY <1>7 DEF Synchronize
<1>8. CASE LcdWait
  BY <1>8 DEF LcdWait
<1>9. CASE LcdCopy
  BY <1>9 DEF LcdCopy
<1>10. CASE LcdLook
  BY <1>10 DEF LcdLook
<1>11. CASE LcdPost
  BY <1>11 DEF LcdPost
<1>12. CASE UNCHANGED vars
  BY <1>12 DEF vars
<1> QED
  BY <1>1, <1>2, <1>3, <1>4, <1>5, <1>6, <1>7, <1>8, <1>9, <1>10, <1>11, <1>12
  DEF Next, Flush, LcdStep

(* Rows once copied stay as the buffer has them until the caller draws.     *)
LEMMA StepCopied == IInv /\ [Next]_vars => Copied'
<1> SUFFICES ASSUME IInv, [Next]_vars PROVE Copied'
  OBVIOUS
<1> USE DEF IInv, TypeOK, Token, Drawing, Copied, Shown, Rows, vm_vars, lcd_vars
<1>1. ASSUME NEW r \in Rows, Draw(r) PROVE Copied'
  BY <1>1 DEF Draw
<1>2. ASSUME NEW r \in Rows, FlushMin(r) PROVE Copied'
  BY <1>2 DEF FlushMin
<1>3. ASSUME NEW r \in Rows, FlushMax(r) PROVE Copied'
  BY <1>3 DEF FlushMax
<1>4. CASE FlushLook
  BY <1>4 DEF FlushLook
<1>5. CASE FlushPost
  BY <1>5 DEF FlushPost
<1>6. CASE SynchronizeBegin
  BY <1>6 DEF SynchronizeBegin
<1>7. CASE Synchronize
  BY <1>7 DEF Synchronize
<1>8. CASE LcdWait
  BY <1>8 DEF LcdWait
<1>9. CASE LcdCopy
  BY <1>9, LLDisplayAssumption DEF LcdCopy
<1>10. CASE LcdLook
  BY <1>10 DEF LcdLook
<1>11. CASE LcdPost
  BY <1>11 DEF LcdPost
<1>12. CASE UNCHANGED vars
  BY <1>12 DEF vars
<1> QED
  BY <1>1, <1>2, <1>3, <1>4, <1>5, <1>6, <1>7, <1>8, <1>9, <1>10, <1>11, <1>12
  DEF Next, Flush, LcdStep

(* The invariant holds initially, with the token at the caller, and every   *)
(* step keeps it.                                                           *)
LEMMA Inductive == Spec => []IInv
<1>1. Init => IInv
  BY LLDisplayAssumption
  DEF Init, IInv, TypeOK, Token, Drawing, Copied, Shown, Rows, Drawings, VmStates, LcdStates
<1>2. IInv /\ [Next]_vars => IInv'
  BY StepType, StepToken, StepCopied DEF IInv
<1> QED BY <1>1, <1>2, PTL DEF Spec

-----------------------------------------------------------------------------
(* The types of LLDisplay: no row outside the LCD is copied and neither     *)
(* semaphore exceeds 1, for every height.                                   *)
THEOREM DisplayTypeCorrect == Spec => []TypeOK
<1>1. IInv => TypeOK
  BY DEF IInv
<1> QED BY <1>1, Inductive, PTL

(* The virtual machine task never draws while the flush_display task        *)
(* copies: only the holder of the token touches the buffer.                 *)
THEOREM NeverTears == Spec => []NoTearing
<1>1. IInv => NoTearing
  BY DEF IInv, Token, Drawing, NoTearing
<1> QED BY <1>1, Inductive, PTL

(* When LLDISPLAY_IMPL_synchronize returns, all flushed rows are on the     *)
(* LCD, for every height and every region.                                  *)
THEOREM FlushedIsShown == Spec => []ShownWhenSynchronized
<1>1. IInv => ShownWhenSynchronized
  BY DEF IInv, Copied, Shown, ShownWhenSynchronized
<1> QED BY <1>1, Inductive, PTL
=============================================================================
