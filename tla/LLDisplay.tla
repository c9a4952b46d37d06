------------------------------ MODULE LLDisplay ------------------------------
(***************************************************************************)
(* The display (ui/src/LLDISPLAY.c): the virtual machine task draws in     *)
(* DISPLAY_BUFFER, asks for a flush of some rows and goes on with Java     *)
(* code; the flush_display task copies the rows to the LCD (about 40 ms)   *)
(* and releases LLDISPLAY_IMPL_synchronize.                                *)
(*                                                                         *)
(* The caller is the graphics engine (external): after a flush it          *)
(* synchronizes before it draws again.  A semaphore is posted in two       *)
(* steps, sem_getvalue and then sem_post: the other task may run in        *)
(* between.  A sem_wait that a signal interrupts is called again (EINTR)   *)
(* and changes nothing.  lcd_finalize is called from nowhere ("There is no *)
(* place to call finalize currently"), so microui_is_running stays 1.      *)
(***************************************************************************)
EXTENDS Integers

CONSTANT Height     \* LCD_HEIGHT

ASSUME LLDisplayAssumption == Height \in Nat \ {0}

Rows == 0 .. Height - 1

VARIABLES
    buffer,         \* DISPLAY_BUFFER: what each row holds
    screen,         \* what each row of the LCD shows
    y_min, y_max,   \* the rows to flush
    flush_sem,
    sync_sem,
    vm,             \* where the virtual machine task is
    lcd,            \* where the flush_display task is
    i               \* its loop variable in lcd_flush

vm_vars == <<buffer, y_min, y_max, vm>>
lcd_vars == <<screen, lcd, i>>
vars == <<vm_vars, lcd_vars, flush_sem, sync_sem>>

Drawings == {0, 1}      \* two contents tell a row from its previous state

\* "synced"  back from LLDISPLAY_IMPL_synchronize, "draw" draws since then;
\* "y_max", "look" and "post" are the steps of LLDISPLAY_IMPL_flush left to do;
\* "flushed" runs Java code after it; "sync" is in LLDISPLAY_IMPL_synchronize.
VmStates == {"synced", "draw", "y_max", "look", "post", "flushed", "sync"}

\* "wait" in sem_wait(&flush_sem); "copy" in the loop of lcd_flush; "look" and
\* "post" at the release of sync_sem.
LcdStates == {"wait", "copy", "look", "post"}

TypeOK ==
    /\ buffer \in [Rows -> Drawings]
    /\ screen \in [Rows -> Drawings]
    /\ y_min \in Rows /\ y_max \in Rows
    /\ flush_sem \in {0, 1} /\ sync_sem \in {0, 1}
    /\ vm \in VmStates
    /\ lcd \in LcdStates
    /\ i \in 0 .. Height

(* LLDISPLAY_IMPL_initialize: both semaphores are 0, the task is created. *)
Init ==
    /\ buffer = [r \in Rows |-> 0]
    /\ screen = [r \in Rows |-> 0]
    /\ y_min = 0 /\ y_max = 0
    /\ flush_sem = 0 /\ sync_sem = 0
    /\ vm = "draw"
    /\ lcd = "wait"
    /\ i = 0

-----------------------------------------------------------------------------
(* The virtual machine task.                                                *)

Draw(r) ==
    /\ vm \in {"synced", "draw"}
    /\ buffer' = [buffer EXCEPT ![r] = 1 - @]
    /\ vm' = "draw"
    /\ UNCHANGED <<y_min, y_max, lcd_vars, flush_sem, sync_sem>>

(* LLDISPLAY_IMPL_flush, `y_min = ymin`. *)
FlushMin(ymin) ==
    /\ vm \in {"synced", "draw"}
    /\ y_min' = ymin
    /\ vm' = "y_max"
    /\ UNCHANGED <<buffer, y_max, lcd_vars, flush_sem, sync_sem>>

(* `y_max = ymax`; the engine never asks for an empty region. *)
FlushMax(ymax) ==
    /\ vm = "y_max"
    /\ y_min <= ymax
    /\ y_max' = ymax
    /\ vm' = "look"
    /\ UNCHANGED <<buffer, y_min, lcd_vars, flush_sem, sync_sem>>

\* Mutant: the condition of the post is inverted.
FlushLookInverted ==
    /\ vm = "look"
    /\ vm' = IF flush_sem = 0 THEN "flushed" ELSE "post"
    /\ UNCHANGED <<buffer, y_min, y_max, lcd_vars, flush_sem, sync_sem>>

(* sem_getvalue(&flush_sem): posted only when no flush is pending. *)
FlushLook ==
    /\ vm = "look"
    /\ vm' = IF flush_sem = 0 THEN "post" ELSE "flushed"
    /\ UNCHANGED <<buffer, y_min, y_max, lcd_vars, flush_sem, sync_sem>>

FlushPost ==
    /\ vm = "post"
    /\ flush_sem' = flush_sem + 1
    /\ vm' = "flushed"
    /\ UNCHANGED <<buffer, y_min, y_max, lcd_vars, sync_sem>>

(* The engine wants to draw again. *)
SynchronizeBegin ==
    /\ vm = "flushed"
    /\ vm' = "sync"
    /\ UNCHANGED <<buffer, y_min, y_max, lcd_vars, flush_sem, sync_sem>>

(* LLDISPLAY_IMPL_synchronize: sem_wait(&sync_sem). *)
Synchronize ==
    /\ vm = "sync"
    /\ sync_sem > 0
    /\ sync_sem' = sync_sem - 1
    /\ vm' = "synced"
    /\ UNCHANGED <<buffer, y_min, y_max, lcd_vars, flush_sem>>

-----------------------------------------------------------------------------
(* The flush_display task, lcd_memcpy_func.                                 *)

\* Mutant: the caller is released before the rows are copied.
LcdWaitSyncFirst ==
    /\ lcd = "wait"
    /\ flush_sem > 0
    /\ flush_sem' = flush_sem - 1
    /\ sync_sem' = 1
    /\ i' = y_min
    /\ lcd' = "copy"
    /\ UNCHANGED <<screen, vm_vars>>

(* sem_wait(&flush_sem), then the start of lcd_flush. *)
LcdWait ==
    /\ lcd = "wait"
    /\ flush_sem > 0
    /\ flush_sem' = flush_sem - 1
    /\ i' = y_min
    /\ lcd' = "copy"
    /\ UNCHANGED <<screen, vm_vars, sync_sem>>

\* Mutant: the loop stops before y_max.
LcdCopyShort ==
    /\ lcd = "copy"
    /\ \/ /\ i < y_max
          /\ screen' = [screen EXCEPT ![i] = buffer[i]]
          /\ i' = i + 1
          /\ UNCHANGED lcd
       \/ /\ i >= y_max
          /\ lcd' = "look"
          /\ UNCHANGED <<screen, i>>
    /\ UNCHANGED <<vm_vars, flush_sem, sync_sem>>

\* Mutant: the loop goes one row past y_max.
LcdCopyLong ==
    /\ lcd = "copy"
    /\ \/ /\ i <= y_max + 1
          /\ i' = i + 1
          /\ UNCHANGED <<screen, lcd>>
       \/ /\ i > y_max + 1
          /\ lcd' = "look"
          /\ UNCHANGED <<screen, i>>
    /\ UNCHANGED <<vm_vars, flush_sem, sync_sem>>

(* One turn of the loop, which reads the volatile y_max each time. *)
LcdCopy ==
    /\ lcd = "copy"
    /\ \/ /\ i <= y_max
          /\ screen' = [screen EXCEPT ![i] = buffer[i]]
          /\ i' = i + 1
          /\ UNCHANGED lcd
       \/ /\ i > y_max
          /\ lcd' = "look"
          /\ UNCHANGED <<screen, i>>
    /\ UNCHANGED <<vm_vars, flush_sem, sync_sem>>

(* sem_getvalue(&sync_sem). *)
LcdLook ==
    /\ lcd = "look"
    /\ lcd' = IF sync_sem = 0 THEN "post" ELSE "wait"
    /\ UNCHANGED <<screen, i, vm_vars, flush_sem, sync_sem>>

LcdPost ==
    /\ lcd = "post"
    /\ sync_sem' = sync_sem + 1
    /\ lcd' = "wait"
    /\ UNCHANGED <<screen, i, vm_vars, flush_sem>>

-----------------------------------------------------------------------------
Flush == (\E ymax \in Rows : FlushMax(ymax)) \/ FlushLook \/ FlushPost

LcdStep == LcdWait \/ LcdCopy \/ LcdLook \/ LcdPost

Next ==
    \/ \E r \in Rows : Draw(r) \/ FlushMin(r)
    \/ Flush
    \/ SynchronizeBegin
    \/ Synchronize
    \/ LcdStep

Spec == Init /\ [][Next]_vars

(* Both tasks are scheduled.  The engine need not flush or synchronize. *)
Fairness == WF_vars(Flush) /\ WF_vars(Synchronize) /\ WF_vars(LcdStep)

FairSpec == Spec /\ Fairness

-----------------------------------------------------------------------------
(* What the flush_display task reads does not move under it: while it       *)
(* copies, the virtual machine task neither draws nor changes the region,   *)
(* although it runs Java code meanwhile and both test a semaphore before    *)
(* they post it.                                                            *)
NoTearing == lcd = "copy" => vm \in {"flushed", "sync"}

(* When LLDISPLAY_IMPL_synchronize returns, the LCD shows what the buffer   *)
(* holds in every row of the region that was flushed.                       *)
ShownWhenSynchronized ==
    vm = "synced" => \A r \in y_min .. y_max : screen[r] = buffer[r]

(* LLDISPLAY_IMPL_synchronize returns: no flush and no release is lost      *)
(* between sem_getvalue and sem_post.                                       *)
SynchronizeReturns == vm = "sync" ~> vm = "synced"
=============================================================================
