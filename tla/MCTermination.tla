---------------------------- MODULE MCTermination ----------------------------
(* Small instances of Termination for TLC. *)
EXTENDS Termination
=============================================================================
