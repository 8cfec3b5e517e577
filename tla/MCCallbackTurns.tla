-------------------------- MODULE MCCallbackTurns --------------------------
(***************************************************************************)
(* The instances of CallbackTurns that TLC checks.                         *)
(***************************************************************************)
EXTENDS CallbackTurns, TLC

\* Completions, and user turns, are interchangeable where no event is AtCap.
TurnSymmetry == Permutations(Events) \cup Permutations(Users)
=============================================================================
