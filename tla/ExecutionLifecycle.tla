-------------------------- MODULE ExecutionLifecycle --------------------------
(***************************************************************************)
(* What the execution promises its callers: phases only move on, each move *)
(* under a higher number, a terminal phase is final, and a command id is   *)
(* decided once.                                                           *)
(***************************************************************************)
EXTENDS ExecutionContract

CONSTANTS Commands

VARIABLES phase, number, outcome

Init == phase = "preparing" /\ number = 0 /\ outcome = [c \in Commands |-> "none"]

\* A start is first accepted, then applied; every other outcome is final.
Decided(from, to) == from = "none" \/ from = to \/ (from = "accepted" /\ to = "applied")

Step ==
  /\ phase' = phase \/ (phase' \in NextPhases[phase] /\ number' > number)
  /\ number' \in Nat /\ number' >= number
  /\ outcome' \in [Commands -> {"none", "accepted", "applied", "rejected"}]
  /\ \A c \in Commands : Decided(outcome[c], outcome'[c])

Spec == Init /\ [][Step]_<<phase, number, outcome>>
=============================================================================
