---------------------------- MODULE MCEventQueue ----------------------------
(* Model-checking instance of EventQueue. *)
EXTENDS EventQueue
=============================================================================
