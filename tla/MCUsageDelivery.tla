--------------------------- MODULE MCUsageDelivery ---------------------------
(* Small instances of UsageDelivery for TLC. *)
EXTENDS UsageDelivery, TLC

CONSTANTS a1, a2

\* The second fact is refused for its bytes.
ThreeVerdicts == 1 :> "accepted" @@ 2 :> "conflict" @@ 3 :> "accepted"
=============================================================================
