---------------------------- MODULE MCSpaceSync -----------------------------
(* Model-checking instance of SpaceSync: displays d1, d2 with two and one     *)
(* spaces and a fourth that may be created on either: strips of at most two   *)
(* have room for it on d2 and not on d1.                                      *)
EXTENDS SpaceSync, TLC

CONSTANTS d1, d2, s1, s2, s3, s4, own1, own2

TwoAndOne == (d1 :> <<s1, s2>>) @@ (d2 :> <<s3>>)
Owned == (own1 :> {1}) @@ (own2 :> {2})
=============================================================================
