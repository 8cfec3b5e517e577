---------------------------- MODULE MCWorkerPool ----------------------------
(***************************************************************************)
(* The instances of WorkerPool that TLC checks.                            *)
(***************************************************************************)
EXTENDS WorkerPool, TLC

\* Tasks are interchangeable: no action or safety property names one.
TaskSymmetry == Permutations(Tasks)
=============================================================================
