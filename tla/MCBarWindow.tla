---------------------------- MODULE MCBarWindow ----------------------------
(* A clock that ticks, a text that changes on events, two menu hosts. *)
EXTENDS BarWindow

CONSTANTS logo, text, menus, clock, none
TheOrder == <<logo, text, menus, clock>>
TheHosts == {logo, menus}
Every(n) == [i \in Items |-> IF i = clock THEN n ELSE 0]
EveryOther == Every(2)
TheLengths == [i \in Items |-> IF i \in {text, clock} THEN {1, 2} ELSE {2}]
\* As in the default theme, an item with a larger left padding than the next.
ThePadding == [i \in Items |-> CASE i = logo -> 2 [] i = text -> 0 [] OTHER -> 1]
NoPadding == [i \in Items |-> 0]
ThePlacements ==
  {[i \in Items |-> p] : p \in {"center_left", "center_right"}} \cup
  {[i \in Items |-> IF i = clock THEN "right" ELSE "left"],
   [i \in Items |-> IF i \in {logo, text} THEN "center" ELSE "right"]}
=============================================================================
