---------------------------- MODULE MCAsyncWorker ----------------------------
(* AsyncWorker for TLC.                                                     *)
EXTENDS AsyncWorker, TLC

(* No thread is told apart from another: states that differ in the names of *)
(* threads only are the same.                                               *)
ThreadSymmetry == Permutations(Threads)

(* What is checked of AsyncWorker holds until the worker executes a job     *)
(* nobody posted: the states that follow one are not explored.  Those in    *)
(* which the worker has not had any job yet are, up to its crash.           *)
BeforeStaleJob == Intact \/ msg[Worker] = NoJob
=============================================================================
