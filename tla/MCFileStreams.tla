--------------------------- MODULE MCFileStreams ---------------------------
(***************************************************************************)
(* FileStreams for TLC: the threads are interchangeable.                   *)
(***************************************************************************)
EXTENDS FileStreams, TLC

ThreadSymmetry == Permutations(Threads)
=============================================================================
