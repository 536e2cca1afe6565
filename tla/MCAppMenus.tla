----------------------------- MODULE MCAppMenus -----------------------------
(* Model-checking instances of AppMenus: the logo opens menu 0, the row 2 and 3. *)
EXTENDS AppMenus

LogoAndRow == [h \in {"logo", "row"} |-> IF h = "logo" THEN {0} ELSE {2, 3}]
RowAbsent == {<<CHOOSE a \in Apps : TRUE, 3>>}
RowOnly == [h \in {"row"} |-> {2, 3}]
=============================================================================
