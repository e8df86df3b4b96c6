------------------------------- MODULE MCSpeech -------------------------------
(* Small instances of Speech for TLC. *)
EXTENDS Speech
=============================================================================
