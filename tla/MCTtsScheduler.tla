---------------------------- MODULE MCTtsScheduler ----------------------------
(* Small instances of TtsScheduler for TLC. *)
EXTENDS TtsScheduler, TLC

\* Callers 1 to 3 speak for one session, caller 4 for another.
OneAndThree == 1 :> 1 @@ 2 :> 1 @@ 3 :> 1 @@ 4 :> 2

\* Four sessions of one caller each.
OneEach == 1 :> 1 @@ 2 :> 2 @@ 3 :> 3 @@ 4 :> 4

\* The second request cannot share a batch with the others.
TwoKeys == 1 :> "k" @@ 2 :> "l" @@ 3 :> "k" @@ 4 :> "k"
===============================================================================
