------------------------------ MODULE MCClient ------------------------------
(* One plugin with one event task, which may connect twice. *)
EXTENDS Client

CONSTANTS main, e1, none
OneEventTask == {e1}
=============================================================================
