--------------------------- MODULE MCUsageEvidence ---------------------------
(* Small instances of UsageEvidence for TLC. *)
EXTENDS UsageEvidence

CONSTANTS r1, s1, s2

\* A command that yields two facts (hold_ended and phase:closing), and Emergency End.
MixedRequests == {[safety |-> FALSE, facts |-> <<2, 1>>], [safety |-> TRUE, facts |-> <<3>>]}
=============================================================================
