----------------------------- MODULE MCCorePort -----------------------------
(***************************************************************************)
(* CorePort for TLC.                                                       *)
(***************************************************************************)
EXTENDS CorePort

\* No other variable depends on system_time_offset, and no property names it:
\* two states that differ in it alone have the same futures.
View == <<clock, vm_is_running, wake_vars, vm, java_vars, plug_vars>>
=============================================================================
