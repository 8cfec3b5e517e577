--------------------------- MODULE MCPoolLifecycle ---------------------------
EXTENDS PoolLifecycle, TLC

CONSTANTS i1, i2, i3, c1, j1, w1, w2

(* Two intents of a chat, one of a job. *)
MCOf == i1 :> c1 @@ i2 :> c1 @@ i3 :> j1
LifecycleSymmetry == Permutations({w1, w2}) \cup Permutations({i1, i2})
=============================================================================
