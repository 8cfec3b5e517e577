------------------------------ MODULE RateGate ------------------------------
(***************************************************************************)
(* CliRateGate: two independent pools of slots for CLI calls, one for chat *)
(* sessions and one for workers, and a cooldown both share.                *)
(*                                                                         *)
(* The gate is shared by every backend call; the modules that extend this  *)
(* one say who holds its slots.  Clocks are left out: a cooldown is over   *)
(* at some time after it was set.                                          *)
(***************************************************************************)
EXTENDS Naturals

CONSTANTS SessionCap, WorkerCap     \* CLI_SESSION_CONCURRENT, CLI_WORKER_CONCURRENT

ASSUME GateAssumption == SessionCap \in Nat \ {0} /\ WorkerCap \in Nat \ {0}

Classes == {"session", "worker"}
Cap(k) == IF k = "worker" THEN WorkerCap ELSE SessionCap

VARIABLES
    free,       \* the slots of _session_sem and _worker_sem nobody has taken
    cooling     \* _cooldown_until lies in the future

gateVars == <<free, cooling>>

GateTypeOK == free \in [Classes -> Nat] /\ cooling \in BOOLEAN
GateInit == free = [k \in Classes |-> Cap(k)] /\ cooling = FALSE

(* Mutant of TakeSlot: the semaphore is not waited for.                    *)
TakeAlways(k) ==
    /\ free' = [free EXCEPT ![k] = @ - 1]
    /\ UNCHANGED cooling

(* acquire after its cooldown wait: take a slot or wait for one.  The      *)
(* cooldown is not looked at again.                                        *)
TakeSlot(k) ==
    /\ free[k] > 0
    /\ free' = [free EXCEPT ![k] = @ - 1]
    /\ UNCHANGED cooling

GiveSlot(k) ==
    /\ free' = [free EXCEPT ![k] = @ + 1]
    /\ UNCHANGED cooling

(* note_rate_limit extends the cooldown, never shortens it.                *)
NoteRateLimit == cooling' = TRUE /\ UNCHANGED free

CooldownOver ==
    /\ cooling
    /\ cooling' = FALSE
    /\ UNCHANGED free
=============================================================================
