------------------------------ MODULE AppMenus -------------------------------
(***************************************************************************)
(* The re-hosted menus of the front app: app_menus.m caches the front      *)
(* app's top-level menus and the leaves of one menu; bar_item.c opens a    *)
(* popup on a menu (one for the Apple logo item, one for the menu row),    *)
(* draws its leaves and performs the one that is clicked.  A popup keeps   *)
(* the titles it was built with; its leaves reach the app through slots of *)
(* the one shared leaf cache.  Everything runs on the main thread; the     *)
(* apps change between its steps.                                          *)
(***************************************************************************)
EXTENDS Integers, Sequences, SequencesExt

CONSTANTS
  Apps,
  Hosts,         \* the items with a popup: the logo, the menu row
  MenusOf,       \* host -> the menu indices it opens
  Absent,        \* the <<app, menu>> pairs with no AXMenu behind the title
  Size,          \* leaves in each menu at startup
  Changes,       \* what the apps and the user may do: "front", "gone", "grey"
  MaxChanges,    \* bound: how often they do it
  NoApp, NoMenu

Menus == UNION {MenusOf[h] : h \in Hosts}
Commands == Apps \X Menus \X (1 .. Size)     \* what pressing a leaf makes its app do

ASSUME ConstantsAssumption ==
  /\ NoApp \notin Apps /\ NoMenu \notin Menus
  /\ Changes \subseteq {"front", "gone", "grey"}
  /\ Absent \subseteq Apps \X Menus
  /\ Size \in Nat /\ MaxChanges \in Nat

VARIABLES
  front,         \* the frontmost app
  content,       \* app -> menu -> the commands of its leaves, in order
  greyed,        \* commands that are disabled
  changes,
  menusOf,       \* g_pid: the app whose top-level menus are cached
  leaves,        \* the leaf cache: menu, app, elements, their enabled flags
  popup,         \* per host: open, menu (app_menu_menu), built and clickable
  pressed        \* history: the last AXPress, what the leaf showed, what it
                 \* reached, whether the popup was still up to date

apps == <<front, content, greyed, changes>>
vars == <<apps, menusOf, leaves, popup, pressed>>

NoLeaves == [menu |-> NoMenu, app |-> NoApp, elements |-> <<>>, enabled |-> {}]
NoPopup == [open |-> FALSE, menu |-> NoMenu, app |-> NoApp, shown |-> <<>>, clickable |-> {}]
Nothing == [shown |-> <<>>, reached |-> <<>>, settled |-> TRUE]

Init ==
  /\ front \in Apps
  /\ content = [a \in Apps |-> [m \in Menus |-> [k \in 1 .. Size |-> <<a, m, k>>]]]
  /\ greyed = {}
  /\ changes = 0
  /\ menusOf = NoApp
  /\ leaves = NoLeaves
  /\ popup = [h \in Hosts |-> NoPopup]
  /\ pressed = Nothing

-----------------------------------------------------------------------------
(* The user and the apps *)

Happens(kind) ==
  /\ kind \in Changes
  /\ changes < MaxChanges /\ changes' = changes + 1
  /\ UNCHANGED <<menusOf, leaves, popup, pressed>>

SwitchApp ==
  /\ Happens("front")
  /\ front' \in Apps \ {front}
  /\ UNCHANGED <<content, greyed>>

\* "leaves come and go as the app's state changes"
LeafGoes ==
  /\ Happens("gone")
  /\ \E a \in Apps, m \in Menus :
       /\ content[a][m] # <<>>
       /\ \E k \in DOMAIN content[a][m] :
            content' = [content EXCEPT ![a][m] = RemoveAt(@, k)]
  /\ UNCHANGED <<front, greyed>>

LeafGreys ==
  /\ Happens("grey")
  /\ \E c \in Commands \ greyed : greyed' = greyed \cup {c}
  /\ UNCHANGED <<front, content>>

-----------------------------------------------------------------------------
(* app_menus.m: the caches after a call *)

\* An accessibility call (ax_copy_bool, ax_children and their like) gives the
\* attribute, or what stands for a failure.
Copied(value, failed) == {value, failed}

None == <<NoApp, NoLeaves>>

\* Mutant: only the top-level menus are cleared.
RefreshedTopOnly == {None, <<front, leaves>>}

\* Mutant: the failure code ends up in g_pid.
RefreshedFailed ==
  IF menusOf = front THEN {<<front, leaves>>}
  ELSE {<<app, NoLeaves>> : app \in Copied(front, NoMenu)}

\* app_menus_refresh: the caches stand while the front app is the same (a
\* re-read is never forced: app_menus_invalidate waits for an info that every
\* caller of bar_item_update leaves out); another app's menus are read.  With
\* no front app, or when the call fails, nothing is cached.
Refreshed ==
  IF menusOf = front THEN {None, <<front, leaves>>}
  ELSE {<<app, NoLeaves>> : app \in Copied(front, NoApp)}

\* The leaves read as enabled: a flag that cannot be read counts as set.
Enabled(elements) ==
  {e \in SUBSET Range(elements) :
     \A c \in Range(elements) : (c \in e) \in Copied(c \notin greyed, TRUE)}

\* app_menus_load_items for the menus of app: cleared first, then read.
Loaded(app, m) ==
  {NoLeaves} \cup
  {[menu |-> m, app |-> app, elements |-> content[app][m], enabled |-> e] :
     e \in Enabled(content[app][m])}

Load(app, cache, m) ==
  IF app = NoApp \/ <<app, m>> \in Absent THEN {cache} ELSE Loaded(app, m)

\* Mutant: any leaves that are cached will do.
EnsuredAny(app, cache, m) == IF cache.elements # <<>> THEN {cache} ELSE Load(app, cache, m)

\* bar_item_app_menu_ensure_items
Ensured(app, cache, m) ==
  IF cache.menu = m /\ cache.elements # <<>> THEN {cache} ELSE Load(app, cache, m)

\* app_menus_item_enabled of slot k
Live(cache, k) == k \in DOMAIN cache.elements /\ cache.elements[k] \in cache.enabled

-----------------------------------------------------------------------------
(* bar_item.c *)

\* bar_item_app_menu_item_draw: every leaf of the open popups that is drawn
\* loads what it needs, on demand.
LeavesDrawn(app, cache) ==
  LET open == {h \in Hosts : popup[h].open}
  IN  IF open = {} THEN {cache}
      ELSE UNION {Ensured(app, cache, popup[h].menu) : h \in open}

\* A repaint: drawing the menu row refreshes the menus, then the leaves of each
\* open popup are drawn.
Paint ==
  /\ \E got \in Refreshed :
       menusOf' = got[1] /\ leaves' \in LeavesDrawn(got[1], got[2])
  /\ UNCHANGED <<apps, popup, pressed>>

\* bar_item_update of the menu row measures it, which refreshes the menus.
Update ==
  /\ \E got \in Refreshed :
       menusOf' = got[1] /\ leaves' = got[2]
  /\ UNCHANGED <<apps, popup, pressed>>

\* The menus a row has slots for: those from app_menu_first on.
Slots(h, app) == IF app = NoApp THEN {} ELSE MenusOf[h]

\* bar_item_app_menu_open with the leaves just loaded: the popup is rebuilt, or
\* left as it is when there are none.
Open(h, m) ==
  /\ popup' = IF leaves'.elements = <<>> \/ leaves'.menu # m THEN popup
              ELSE [popup EXCEPT ![h] =
                      [open |-> TRUE, menu |-> m, app |-> leaves'.app,
                       shown |-> leaves'.elements, clickable |-> leaves'.enabled]]
  /\ UNCHANGED <<apps, pressed>>

\* A click on the menu row: the hit test refreshes the menus, then looks for
\* the slot.
ClickRow(h, m) ==
  /\ h # "logo"
  /\ \E got \in Refreshed :
       /\ m \in Slots(h, got[1])
       /\ menusOf' = got[1] /\ leaves' \in Load(got[1], got[2], m)
  /\ Open(h, m)

\* A click on the Apple logo opens menu 0 of the menus that are cached.
ClickLogo(h, m) ==
  /\ h = "logo" /\ m \in MenusOf[h]
  /\ menusOf # NoApp
  /\ leaves' \in Load(menusOf, leaves, m)
  /\ UNCHANGED menusOf
  /\ Open(h, m)

\* AXPress works on an element that still exists.
Exists(c) == Contains(content[c[1]][c[2]], c)

\* The popup of h still shows what its menu holds in the app whose menus are cached.
Settled(h) ==
  popup[h].app = menusOf /\ content[menusOf][popup[h].menu] = popup[h].shown

\* A click on leaf k of an open popup: app_menu_slot k of the leaf cache, once
\* ensured, is pressed when it is enabled; then the popup closes.
ClickLeaf(h, k) ==
  /\ popup[h].open /\ k \in DOMAIN popup[h].shown
  /\ leaves' \in Ensured(menusOf, leaves, popup[h].menu)
  /\ LET shown == popup[h].shown[k]
         goes == shown \in popup[h].clickable /\ Live(leaves', k) /\ leaves'.app = menusOf
     IN  IF goes /\ Exists(leaves'.elements[k])
           THEN /\ pressed' = [shown |-> shown, reached |-> leaves'.elements[k],
                               settled |-> Settled(h)]
                /\ popup' = [popup EXCEPT ![h].open = FALSE]
           ELSE UNCHANGED <<pressed, popup>>
  /\ UNCHANGED <<apps, menusOf>>

\* A click outside any item closes the open popups.
ClickOutside ==
  /\ popup' = [h \in Hosts |-> [popup[h] EXCEPT !.open = FALSE]]
  /\ UNCHANGED <<apps, menusOf, leaves, pressed>>

-----------------------------------------------------------------------------
Next ==
  \/ SwitchApp \/ LeafGoes \/ LeafGreys
  \/ Paint \/ Update \/ ClickOutside
  \/ \E h \in Hosts, m \in Menus : ClickRow(h, m) \/ ClickLogo(h, m)
  \/ \E h \in Hosts, k \in 1 .. Size : ClickLeaf(h, k)

Spec == Init /\ [][Next]_vars

-----------------------------------------------------------------------------
(* Properties *)

Leaf == Commands \cup {<<>>}

TypeOK ==
  /\ front \in Apps
  /\ content \in [Apps -> [Menus -> Seq(Commands)]]
  /\ greyed \in SUBSET Commands
  /\ changes \in 0 .. MaxChanges
  /\ menusOf \in Apps \cup {NoApp}
  /\ leaves \in [menu : Menus \cup {NoMenu}, app : Apps \cup {NoApp},
                 elements : Seq(Commands), enabled : SUBSET Commands]
  /\ popup \in [Hosts -> [open : BOOLEAN, menu : Menus \cup {NoMenu},
                          app : Apps \cup {NoApp}, shown : Seq(Commands),
                          clickable : SUBSET Commands]]
  /\ pressed \in [shown : Leaf, reached : Leaf, settled : BOOLEAN]

\* The two caches go together: the cached leaves are those of the app whose menus
\* are cached, so the test for "the app moved on" in app_menus_press (app_menus.m)
\* never fires.
OneAppCached == leaves.app \in {NoApp, menusOf}

\* "the leaves inside a popup perform their command" (bar_item.c:981-982): the
\* command a click performs is the one the leaf shows.
PerformsShown == pressed.reached = pressed.shown

\* It is, whichever popups are open on the one leaf cache, as long as the app the
\* popup was opened on is the one cached and its menu is as it was.
PerformsShownSettled == pressed.settled => PerformsShown
=============================================================================
