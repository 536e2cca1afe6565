--------------------------- MODULE AppMenusProofs ---------------------------
(***************************************************************************)
(* The menu caches for any apps, hosts and menus, also menus that several  *)
(* hosts open.  What a menu holds only shrinks, so of two readings of one  *)
(* menu the later is the shorter, and they are the same if they have the   *)
(* same length.  The popups were read no later than the leaves that are    *)
(* cached for them, and those no later than now: a popup that shows what   *)
(* its menu holds now is matched, leaf for leaf, by the cache.             *)
(***************************************************************************)
EXTENDS AppMenus, TLAPS

\* t is s, or became shorter since.
Older(s, t) == Len(t) <= Len(s) /\ (Len(t) = Len(s) => t = s)

Holds(a, m, s) ==
  /\ a \in Apps /\ m \in Menus /\ <<a, m>> \notin Absent
  /\ Older(s, content[a][m])

CacheInv ==
  leaves.elements # <<>> => Holds(leaves.app, leaves.menu, leaves.elements)

Cached(h) ==
  /\ leaves.elements # <<>>
  /\ leaves.app = popup[h].app /\ leaves.menu = popup[h].menu

PopupOK(h) ==
  /\ Holds(popup[h].app, popup[h].menu, popup[h].shown)
  /\ Cached(h) => Older(popup[h].shown, leaves.elements)

PopupInv == \A h \in Hosts : popup[h].open => PopupOK(h)

\* RemoveAt drops one element (LeafGoes: an app takes a leaf away).
LEMMA RemoveAtShrinks ==
  ASSUME NEW S, NEW s \in Seq(S), NEW k \in DOMAIN s
  PROVE  RemoveAt(s, k) \in Seq(S) /\ Len(RemoveAt(s, k)) = Len(s) - 1
<1> DEFINE before == SubSeq(s, 1, k - 1)
           after == SubSeq(s, k + 1, Len(s))
<1>1. k \in 1 .. Len(s) /\ Len(s) \in Nat
  OBVIOUS
<1>2. /\ before \in Seq(S) /\ Len(before) = k - 1
      /\ after \in Seq(S) /\ Len(after) = Len(s) - k
  BY <1>1
<1>3. RemoveAt(s, k) = before \o after
  BY DEF RemoveAt
<1> HIDE DEF before, after
<1>a. ASSUME NEW a \in Seq(S), NEW b \in Seq(S)
      PROVE  a \o b \in Seq(S) /\ Len(a \o b) = Len(a) + Len(b)
  OBVIOUS
<1>4. before \o after \in Seq(S) /\ Len(before \o after) = Len(before) + Len(after)
  BY <1>2, <1>a, Zenon
<1>5. Len(before) + Len(after) = Len(s) - 1
  BY <1>1, <1>2
<1>6. QED
  BY <1>3, <1>4, <1>5, Zenon

\* What the cache and a popup may be.
Cache == [menu : Menus \cup {NoMenu}, app : Apps \cup {NoApp},
          elements : Seq(Commands), enabled : SUBSET Commands]

Popup == [open : BOOLEAN, menu : Menus \cup {NoMenu}, app : Apps \cup {NoApp},
          shown : Seq(Commands), clickable : SUBSET Commands]

LEMMA LoadType ==
  ASSUME TypeOK, NEW app \in Apps \cup {NoApp}, NEW cache \in Cache,
         NEW m \in Menus, NEW new \in Load(app, cache, m)
  PROVE  new \in Cache
<1>1. NoLeaves \in Cache
  BY DEF NoLeaves, Cache
<1>2. CASE app \in Apps
  <2>1. content[app][m] \in Seq(Commands)
    BY <1>2 DEF TypeOK
  <2>2. ASSUME NEW e \in Enabled(content[app][m])
        PROVE  [menu |-> m, app |-> app, elements |-> content[app][m], enabled |-> e] \in Cache
    <3>1. e \subseteq Range(content[app][m]) /\ Range(content[app][m]) \subseteq Commands
      BY <2>1 DEF Enabled, Range
    <3>2. QED
      BY <1>2, <2>1, <3>1 DEF Cache
  <2>3. QED
    BY <1>1, <2>2 DEF Load, Loaded
<1>3. CASE app = NoApp
  BY <1>3 DEF Load
<1>4. QED
  BY <1>2, <1>3

LEMMA EnsuredType ==
  ASSUME TypeOK, NEW app \in Apps \cup {NoApp}, NEW cache \in Cache,
         NEW m \in Menus, NEW new \in Ensured(app, cache, m)
  PROVE  new \in Cache
BY LoadType DEF Ensured

\* What a refresh leaves cached: nothing, or the front app's menus; the leaf
\* cache as it was, or nothing.
LEMMA RefreshedCaches ==
  ASSUME TypeOK, OneAppCached, NEW got \in Refreshed
  PROVE  /\ got[1] \in Apps \cup {NoApp} /\ got[2] \in Cache
         /\ got[2] \in {leaves, NoLeaves} /\ got[2].app \in {NoApp, got[1]}
<1>1. got = None \/ (menusOf = front /\ got = <<front, leaves>>) \/ got = <<front, NoLeaves>>
  BY DEF Refreshed, Copied, None
<1>2. leaves \in Cache /\ NoLeaves \in Cache /\ NoLeaves.app = NoApp /\ front \in Apps
  BY DEF TypeOK, NoLeaves, Cache
<1>3. QED
  BY <1>1, <1>2 DEF OneAppCached, None

\* A menu a host opens is a menu.
LEMMA HostMenus == \A h \in Hosts : MenusOf[h] \subseteq Menus
BY DEF Menus

-----------------------------------------------------------------------------
(* Types *)

Inv == TypeOK /\ OneAppCached /\ CacheInv /\ PopupInv

LEMMA TypeStep == Inv /\ [Next]_vars => TypeOK'
<1> SUFFICES ASSUME Inv, [Next]_vars
             PROVE  TypeOK'
  OBVIOUS
<1>0. TypeOK
  BY DEF Inv
<1>1. CASE UNCHANGED vars
  BY <1>0, <1>1 DEF TypeOK, vars, apps
<1>2. CASE SwitchApp
  BY <1>0, <1>2, ConstantsAssumption DEF SwitchApp, Happens, TypeOK
<1>3. CASE LeafGoes
  <2>0. PICK a \in Apps, m \in Menus : \E k \in DOMAIN content[a][m] :
          content' = [content EXCEPT ![a][m] = RemoveAt(@, k)]
    BY <1>3 DEF LeafGoes
  <2>1. PICK k \in DOMAIN content[a][m] :
          content' = [content EXCEPT ![a][m] = RemoveAt(@, k)]
    BY <2>0
  <2>2. content[a][m] \in Seq(Commands)
    BY <1>0 DEF TypeOK
  <2>3. RemoveAt(content[a][m], k) \in Seq(Commands)
    BY <2>2, RemoveAtShrinks
  <2>4. content' \in [Apps -> [Menus -> Seq(Commands)]]
    BY <1>0, <2>1, <2>3 DEF TypeOK
  <2>5. Happens("gone") /\ UNCHANGED <<front, greyed>>
    BY <1>3 DEF LeafGoes
  <2>6. changes' \in 0 .. MaxChanges
    BY <1>0, <2>5, ConstantsAssumption DEF Happens, TypeOK
  <2>7. QED
    BY <1>0, <2>4, <2>5, <2>6, Zenon DEF Happens, TypeOK
<1>4. CASE LeafGreys
  BY <1>0, <1>4, ConstantsAssumption DEF LeafGreys, Happens, TypeOK
<1>5. OneAppCached
  BY DEF Inv
<1>7. CASE Paint
  <2>1. PICK got \in Refreshed :
          menusOf' = got[1] /\ leaves' \in LeavesDrawn(got[1], got[2])
    BY <1>7 DEF Paint
  <2>2. got[1] \in Apps \cup {NoApp} /\ got[2] \in Cache
    BY <1>0, <1>5, RefreshedCaches
  <2>3. ASSUME NEW h \in Hosts, popup[h].open,
               leaves' \in Ensured(got[1], got[2], popup[h].menu)
        PROVE  leaves' \in Cache
    <3>1. popup[h].menu \in Menus
      BY <2>3 DEF Inv, PopupInv, PopupOK, Holds
    <3>2. QED
      BY <1>0, <2>2, <2>3, <3>1, EnsuredType
  <2>4. leaves' \in Cache
    BY <2>1, <2>2, <2>3 DEF LeavesDrawn
  <2>5. QED
    BY <1>0, <1>7, <2>1, <2>2, <2>4 DEF Paint, TypeOK, apps, Cache
<1>8. CASE Update
  <2>1. PICK got \in Refreshed :
          menusOf' = got[1] /\ leaves' = got[2]
    BY <1>8 DEF Update
  <2>2. got[1] \in Apps \cup {NoApp} /\ got[2] \in Cache
    BY <1>0, <1>5, RefreshedCaches
  <2>3. QED
    BY <1>0, <1>8, <2>1, <2>2 DEF Update, TypeOK, apps, Cache
<1>9. CASE ClickOutside
  BY <1>0, <1>9 DEF ClickOutside, TypeOK, apps
<1>10. ASSUME NEW h \in Hosts, NEW m \in Menus, leaves' \in Cache, Open(h, m),
              menusOf' \in Apps \cup {NoApp}
       PROVE  TypeOK'
  <2>1. [open |-> TRUE, menu |-> m, app |-> leaves'.app, shown |-> leaves'.elements,
         clickable |-> leaves'.enabled]
          \in [open : BOOLEAN, menu : Menus \cup {NoMenu}, app : Apps \cup {NoApp},
              shown : Seq(Commands), clickable : SUBSET Commands]
    BY <1>10 DEF Cache
  <2>2. popup' \in [Hosts -> [open : BOOLEAN, menu : Menus \cup {NoMenu},
                             app : Apps \cup {NoApp}, shown : Seq(Commands),
                             clickable : SUBSET Commands]]
    BY <1>0, <1>10, <2>1 DEF Open, TypeOK
  <2>3. QED
    BY <1>0, <1>10, <2>2 DEF Open, TypeOK, apps, Cache
<1>11. ASSUME NEW h \in Hosts, NEW m \in Menus, ClickRow(h, m)
       PROVE  TypeOK'
  <2>1. PICK got \in Refreshed :
          menusOf' = got[1] /\ leaves' \in Load(got[1], got[2], m)
    BY <1>11 DEF ClickRow
  <2>2. got[1] \in Apps \cup {NoApp} /\ got[2] \in Cache
    BY <1>0, <1>5, RefreshedCaches
  <2>3. leaves' \in Cache
    BY <1>0, <2>1, <2>2, LoadType
  <2>4. QED
    BY <1>10, <1>11, <2>1, <2>2, <2>3 DEF ClickRow
<1>12. ASSUME NEW h \in Hosts, NEW m \in Menus, ClickLogo(h, m)
       PROVE  TypeOK'
  <2>1. menusOf' \in Apps \cup {NoApp} /\ menusOf \in Apps \cup {NoApp}
    BY <1>0, <1>12 DEF ClickLogo, TypeOK
  <2>2. leaves' \in Cache
    <3>1. leaves \in Cache
      BY <1>0 DEF TypeOK, Cache
    <3>2. QED
      BY <1>0, <1>12, <2>1, <3>1, LoadType DEF ClickLogo
  <2>3. QED
    BY <1>10, <1>12, <2>1, <2>2 DEF ClickLogo
<1>13. ASSUME NEW h \in Hosts, NEW k \in 1 .. Size, ClickLeaf(h, k)
       PROVE  TypeOK'
  <2>1. popup[h].menu \in Menus /\ menusOf \in Apps \cup {NoApp}
    BY <1>0, <1>13 DEF ClickLeaf, Inv, PopupInv, PopupOK, Holds, TypeOK
  <2>2. leaves' \in Cache
    <3>1. leaves \in Cache
      BY <1>0 DEF TypeOK, Cache
    <3>2. QED
      BY <1>0, <1>13, <2>1, <3>1, EnsuredType DEF ClickLeaf
  <2>3. popup[h].shown[k] \in Commands
    BY <1>0, <1>13 DEF ClickLeaf, TypeOK
  <2>4. k \in DOMAIN leaves'.elements => leaves'.elements[k] \in Commands
    BY <2>2 DEF Cache
  <2>5. Settled(h) \in BOOLEAN
    BY DEF Settled
  <2>6. pressed' \in [shown : Leaf, reached : Leaf, settled : BOOLEAN]
    BY <1>0, <1>13, <2>3, <2>4, <2>5 DEF ClickLeaf, Live, TypeOK, Leaf
  <2>7. popup' \in [Hosts -> [open : BOOLEAN, menu : Menus \cup {NoMenu},
                             app : Apps \cup {NoApp}, shown : Seq(Commands),
                             clickable : SUBSET Commands]]
    <3>1. popup' = popup \/ popup' = [popup EXCEPT ![h].open = FALSE]
      BY <1>13, Zenon DEF ClickLeaf
    <3>2. popup \in [Hosts -> Popup]
      BY <1>0 DEF TypeOK, Popup
    <3>3. [popup[h] EXCEPT !.open = FALSE] \in Popup
      BY <3>2 DEF Popup
    <3>4. popup' \in [Hosts -> Popup]
      BY <3>1, <3>2, <3>3
    <3>5. QED
      BY <3>4 DEF Popup
  <2>8. QED
    BY <1>0, <1>13, <2>2, <2>6, <2>7 DEF ClickLeaf, TypeOK, apps, Cache
<1>14. QED
  BY <1>1, <1>2, <1>3, <1>4, <1>7, <1>8, <1>9, <1>11, <1>12, <1>13 DEF Next

-----------------------------------------------------------------------------
(* Caches and popups *)

LEMMA OlderTransitive ==
  ASSUME NEW s \in Seq(Commands), NEW t \in Seq(Commands), NEW u \in Seq(Commands),
         Older(s, t), Older(t, u)
  PROVE  Older(s, u)
BY DEF Older

\* What a load leaves in the cache: what was there, nothing, or the menu as it
\* is now (app_menus_load_items).
LEMMA LoadFresh ==
  ASSUME TypeOK, NEW app \in Apps \cup {NoApp}, NEW cache, NEW m \in Menus,
         NEW new \in Load(app, cache, m), new # cache, new.elements # <<>>
  PROVE  /\ app \in Apps /\ <<app, m>> \notin Absent
         /\ new.app = app /\ new.menu = m
         /\ new.elements = content[app][m]
         /\ content[app][m] \in Seq(Commands)
<1>1. app # NoApp /\ <<app, m>> \notin Absent /\ new \in Loaded(app, m)
  BY Zenon DEF Load
<1>2. content[app][m] \in Seq(Commands)
  BY <1>1 DEF TypeOK
<1>3. QED
  BY <1>1, <1>2 DEF Loaded, NoLeaves

\* A step that loads, while the apps stay: the cache is as fresh as before,
\* and so is every popup that the step leaves alone.
Reloaded ==
  \/ leaves' = leaves \/ leaves'.elements = <<>>
  \/ /\ Holds(leaves'.app, leaves'.menu, leaves'.elements)
     /\ leaves'.elements = content[leaves'.app][leaves'.menu]

LEMMA LoadStep ==
  ASSUME TypeOK, CacheInv, PopupInv, UNCHANGED apps, Reloaded
  PROVE  /\ CacheInv'
         /\ \A h \in Hosts : popup[h].open /\ popup'[h] = popup[h] => PopupOK(h)'
<1>1. ASSUME NEW a, NEW m, NEW s
      PROVE  Holds(a, m, s) <=> Holds(a, m, s)'
  BY DEF Holds, apps
<1>2. CacheInv'
  BY DEF CacheInv, Holds, apps, Reloaded
<1>3. ASSUME NEW h \in Hosts, popup[h].open, popup'[h] = popup[h]
      PROVE  PopupOK(h)'
  BY <1>3 DEF PopupInv, PopupOK, Holds, Cached, apps, Reloaded
<1>4. QED
  BY <1>2, <1>3

LEMMA LoadReloads ==
  ASSUME TypeOK, NEW app \in Apps \cup {NoApp}, NEW m \in Menus,
         NEW cache, cache = leaves \/ cache = NoLeaves,
         leaves' \in Load(app, cache, m)
  PROVE  Reloaded
<1>1. CASE leaves' = cache
  BY <1>1 DEF Reloaded, NoLeaves
<1>2. CASE leaves'.elements = <<>>
  BY <1>2 DEF Reloaded
<1>3. CASE leaves' # cache /\ leaves'.elements # <<>>
  <2>1. /\ app \in Apps /\ <<app, m>> \notin Absent
        /\ leaves'.app = app /\ leaves'.menu = m
        /\ leaves'.elements = content[app][m]
        /\ content[app][m] \in Seq(Commands)
    BY <1>3, LoadFresh
  <2>2. Older(content[app][m], content[app][m])
    BY <2>1 DEF Older
  <2>3. QED
    BY <2>1, <2>2 DEF Reloaded, Holds
<1>4. QED
  BY <1>1, <1>2, <1>3

LEMMA EnsuredReloads ==
  ASSUME TypeOK, NEW app \in Apps \cup {NoApp}, NEW m \in Menus,
         NEW cache, cache = leaves \/ cache = NoLeaves,
         leaves' \in Ensured(app, cache, m)
  PROVE  Reloaded
BY LoadReloads DEF Ensured, Reloaded, NoLeaves

\* Loading for an app keeps the cache to that app.
LEMMA LoadOneApp ==
  ASSUME NEW app, NEW cache, cache.app \in {NoApp, app}, NEW m,
         NEW new \in Load(app, cache, m) \cup Ensured(app, cache, m)
  PROVE  new.app \in {NoApp, app}
BY DEF Ensured, Load, Loaded, NoLeaves

LEMMA OpenStep ==
  ASSUME TypeOK, CacheInv, PopupInv, Reloaded, leaves' \in Cache,
         NEW h \in Hosts, NEW m \in Menus, Open(h, m)
  PROVE  CacheInv' /\ PopupInv'
<1>1. UNCHANGED apps
  BY DEF Open
<1>2. CacheInv' /\ \A g \in Hosts : popup[g].open /\ popup'[g] = popup[g] => PopupOK(g)'
  BY <1>1, LoadStep
<1>3. CASE popup' = popup
  BY <1>2, <1>3 DEF PopupInv
<1>4. CASE popup' # popup
  <2>1. /\ leaves'.elements # <<>> /\ leaves'.menu = m
        /\ popup' = [popup EXCEPT ![h] =
                      [open |-> TRUE, menu |-> m, app |-> leaves'.app,
                       shown |-> leaves'.elements, clickable |-> leaves'.enabled]]
    BY <1>4, Zenon DEF Open
  <2>2. /\ popup'[h].app = leaves'.app /\ popup'[h].menu = leaves'.menu
        /\ popup'[h].shown = leaves'.elements
    BY <2>1 DEF TypeOK
  <2>3. Holds(leaves.app, leaves.menu, leaves.elements)'
    BY <1>2, <2>1 DEF CacheInv
  <2>4. Older(leaves'.elements, leaves'.elements)
    BY DEF Older, Cache
  <2>5. PopupOK(h)'
    BY <2>2, <2>3, <2>4 DEF PopupOK, Holds
  <2>6. ASSUME NEW g \in Hosts, g # h, popup'[g].open
        PROVE  PopupOK(g)'
    <3>1. popup'[g] = popup[g]
      BY <2>1, <2>6 DEF TypeOK
    <3>2. QED
      BY <1>2, <2>6, <3>1
  <2>7. QED
    BY <1>2, <2>5, <2>6 DEF PopupInv
<1>5. QED
  BY <1>3, <1>4

\* An app's menu loses a leaf (LeafGoes): everything read before is older.
LEMMA LeafGoesStep ==
  ASSUME TypeOK, CacheInv, PopupInv, LeafGoes
  PROVE  CacheInv' /\ PopupInv'
<1>1. PICK a \in Apps, m \in Menus : \E k \in DOMAIN content[a][m] :
        content' = [content EXCEPT ![a][m] = RemoveAt(@, k)]
  BY DEF LeafGoes
<1>2. PICK k \in DOMAIN content[a][m] :
        content' = [content EXCEPT ![a][m] = RemoveAt(@, k)]
  BY <1>1
<1>3. ASSUME NEW b \in Apps, NEW n \in Menus
      PROVE  /\ content[b][n] \in Seq(Commands) /\ content'[b][n] \in Seq(Commands)
             /\ Older(content[b][n], content'[b][n])
  <2>1. content[b][n] \in Seq(Commands) /\ content[a][m] \in Seq(Commands)
    BY DEF TypeOK
  <2>2. /\ RemoveAt(content[a][m], k) \in Seq(Commands)
        /\ Len(RemoveAt(content[a][m], k)) = Len(content[a][m]) - 1
    BY <2>1, RemoveAtShrinks
  <2>3. content'[b][n] = content[b][n]
          \/ (b = a /\ n = m /\ content'[b][n] = RemoveAt(content[a][m], k))
    BY <1>2 DEF TypeOK
  <2>4. QED
    BY <2>1, <2>2, <2>3 DEF Older
<1>4. UNCHANGED <<leaves, popup>>
  BY DEF LeafGoes, Happens
<1>5. ASSUME NEW b, NEW n, NEW s \in Seq(Commands), Holds(b, n, s)
      PROVE  Holds(b, n, s)'
  BY <1>3, <1>5, OlderTransitive DEF Holds
<1>6. CacheInv'
  BY <1>4, <1>5 DEF CacheInv, TypeOK, Holds
<1>7. PopupInv'
  BY <1>4, <1>5 DEF PopupInv, PopupOK, Cached, TypeOK, Holds
<1>8. QED
  BY <1>6, <1>7

LEMMA InvStep == Inv /\ [Next]_vars => Inv'
<1> SUFFICES ASSUME Inv, [Next]_vars
             PROVE  Inv'
  OBVIOUS
<1>0. TypeOK /\ OneAppCached /\ CacheInv /\ PopupInv /\ TypeOK'
  BY TypeStep DEF Inv
<1>t. /\ menusOf \in Apps \cup {NoApp} /\ menusOf' \in Apps \cup {NoApp}
      /\ leaves' \in Cache
  BY <1>0 DEF TypeOK, Cache
<1> SUFFICES OneAppCached' /\ CacheInv' /\ PopupInv'
  BY <1>0 DEF Inv
<1>1. CASE UNCHANGED vars \/ SwitchApp \/ LeafGreys
  <2>1. UNCHANGED <<content, menusOf, leaves, popup>>
    BY <1>1 DEF vars, apps, SwitchApp, LeafGreys, Happens
  <2>2. QED
    BY <1>0, <2>1 DEF OneAppCached, CacheInv, PopupInv, PopupOK, Cached, Holds
<1>2. CASE LeafGoes
  BY <1>0, <1>2, LeafGoesStep DEF LeafGoes, Happens, OneAppCached
<1>3. ASSUME UNCHANGED <<apps, popup>>, Reloaded
      PROVE  CacheInv' /\ PopupInv'
  BY <1>0, <1>3, LoadStep DEF PopupInv
<1>4. CASE Update
  <2>1. PICK got \in Refreshed :
          menusOf' = got[1] /\ leaves' = got[2]
    BY <1>4 DEF Update
  <2>2. leaves' \in {leaves, NoLeaves} /\ leaves'.app \in {NoApp, menusOf'}
    BY <1>0, <2>1, RefreshedCaches
  <2>3. Reloaded
    BY <2>2 DEF Reloaded, NoLeaves
  <2>4. QED
    BY <1>3, <1>4, <2>2, <2>3 DEF Update, OneAppCached
<1>5. CASE Paint
  <2>1. PICK got \in Refreshed :
          menusOf' = got[1] /\ leaves' \in LeavesDrawn(got[1], got[2])
    BY <1>5 DEF Paint
  <2>2. /\ got[1] \in Apps \cup {NoApp}
        /\ got[2] \in {leaves, NoLeaves} /\ got[2].app \in {NoApp, got[1]}
    BY <1>0, RefreshedCaches
  <2>3. ASSUME leaves' = got[2]
        PROVE  Reloaded /\ leaves'.app \in {NoApp, menusOf'}
    BY <2>1, <2>2, <2>3 DEF Reloaded, NoLeaves
  <2>4. ASSUME NEW h \in Hosts, popup[h].open,
               leaves' \in Ensured(got[1], got[2], popup[h].menu)
        PROVE  Reloaded /\ leaves'.app \in {NoApp, menusOf'}
    <3>1. popup[h].menu \in Menus
      BY <1>0, <2>4 DEF PopupInv, PopupOK, Holds
    <3>2. Reloaded
      BY <1>0, <2>2, <2>4, <3>1, EnsuredReloads
    <3>3. leaves'.app \in {NoApp, got[1]}
      BY <2>2, <2>4, LoadOneApp
    <3>4. QED
      BY <2>1, <3>2, <3>3
  <2>5. Reloaded /\ leaves'.app \in {NoApp, menusOf'}
    BY <2>1, <2>3, <2>4 DEF LeavesDrawn
  <2>6. QED
    BY <1>3, <1>5, <2>5 DEF Paint, OneAppCached
<1>6. CASE ClickOutside
  <2>1. UNCHANGED apps /\ Reloaded /\ UNCHANGED <<menusOf, leaves>>
    BY <1>6 DEF ClickOutside, Reloaded
  <2>2. \A h \in Hosts : ~popup'[h].open
    BY <1>0, <1>6 DEF ClickOutside, TypeOK
  <2>3. QED
    BY <1>0, <2>1, <2>2, LoadStep DEF PopupInv, OneAppCached
<1>7. ASSUME NEW h \in Hosts, NEW m \in Menus, ClickRow(h, m)
      PROVE  OneAppCached' /\ CacheInv' /\ PopupInv'
  <2>1. PICK got \in Refreshed :
          menusOf' = got[1] /\ leaves' \in Load(got[1], got[2], m)
    BY <1>7 DEF ClickRow
  <2>2. /\ got[1] \in Apps \cup {NoApp}
        /\ got[2] \in {leaves, NoLeaves} /\ got[2].app \in {NoApp, got[1]}
    BY <1>0, RefreshedCaches
  <2>3. Reloaded /\ leaves'.app \in {NoApp, menusOf'}
    BY <1>0, <2>1, <2>2, LoadReloads, LoadOneApp
  <2>4. Open(h, m)
    BY <1>7 DEF ClickRow
  <2>5. QED
    BY <1>0, <1>t, <2>3, <2>4, OpenStep DEF OneAppCached
<1>8. ASSUME NEW h \in Hosts, NEW m \in Menus, ClickLogo(h, m)
      PROVE  OneAppCached' /\ CacheInv' /\ PopupInv'
  <2>1. leaves' \in Load(menusOf, leaves, m) /\ menusOf' = menusOf /\ Open(h, m)
    BY <1>8 DEF ClickLogo
  <2>2. leaves.app \in {NoApp, menusOf}
    BY <1>0 DEF OneAppCached
  <2>3. Reloaded /\ leaves'.app \in {NoApp, menusOf'}
    BY <1>0, <1>t, <2>1, <2>2, LoadReloads, LoadOneApp
  <2>4. QED
    BY <1>0, <1>t, <2>1, <2>3, OpenStep DEF OneAppCached
<1>9. ASSUME NEW h \in Hosts, NEW k \in 1 .. Size, ClickLeaf(h, k)
      PROVE  OneAppCached' /\ CacheInv' /\ PopupInv'
  <2>1. /\ leaves' \in Ensured(menusOf, leaves, popup[h].menu)
        /\ popup[h].open /\ menusOf' = menusOf /\ UNCHANGED apps
    BY <1>9 DEF ClickLeaf
  <2>2. leaves.app \in {NoApp, menusOf} /\ popup[h].menu \in Menus
    BY <1>0, <2>1 DEF OneAppCached, PopupInv, PopupOK, Holds
  <2>3. Reloaded /\ leaves'.app \in {NoApp, menusOf'}
    BY <1>0, <1>t, <2>1, <2>2, EnsuredReloads, LoadOneApp
  <2>4. popup' = popup \/ popup' = [popup EXCEPT ![h].open = FALSE]
    BY <1>9, Zenon DEF ClickLeaf
  <2>5. \A g \in Hosts : popup'[g].open => popup'[g] = popup[g]
    BY <1>0, <2>4 DEF TypeOK
  <2>6. QED
    BY <1>0, <2>1, <2>3, <2>5, LoadStep DEF PopupInv, OneAppCached
<1>10. QED
  BY <1>1, <1>2, <1>4, <1>5, <1>6, <1>7, <1>8, <1>9 DEF Next

-----------------------------------------------------------------------------
(* The theorems *)

LEMMA Initially == Init => Inv /\ PerformsShownSettled
<1> SUFFICES ASSUME Init
             PROVE  Inv /\ PerformsShownSettled
  OBVIOUS
<1>1. ASSUME NEW a \in Apps, NEW m \in Menus
      PROVE  [k \in 1 .. Size |-> <<a, m, k>>] \in Seq(Commands)
  <2>1. \A k \in 1 .. Size : <<a, m, k>> \in Commands
    BY DEF Commands
  <2>2. QED
    BY <2>1, ConstantsAssumption
<1>2. content \in [Apps -> [Menus -> Seq(Commands)]]
  BY <1>1 DEF Init
<1>3. leaves \in Cache /\ popup \in [Hosts -> Popup]
  BY DEF Init, NoLeaves, NoPopup, Cache, Popup
<1>4. TypeOK
  BY <1>2, <1>3, ConstantsAssumption DEF Init, TypeOK, Cache, Popup, Nothing, Leaf
<1>5. QED
  BY <1>4 DEF Init, Inv, OneAppCached, CacheInv, PopupInv, NoLeaves, NoPopup, Nothing,
              PerformsShownSettled, PerformsShown

\* The leaf a click finds in the cache, when the popup is as its menu is now.
LEMMA SettledMatches ==
  ASSUME Inv, NEW h \in Hosts, popup[h].open, Settled(h),
         leaves' \in Ensured(menusOf, leaves, popup[h].menu),
         leaves'.app = menusOf, leaves'.elements # <<>>
  PROVE  leaves'.elements = popup[h].shown
<1> DEFINE a == popup[h].app
           m == popup[h].menu
<1>1. /\ a \in Apps /\ m \in Menus /\ <<a, m>> \notin Absent /\ a = menusOf
      /\ content[a][m] = popup[h].shown
      /\ content[a][m] \in Seq(Commands) /\ leaves.elements \in Seq(Commands)
  BY DEF Inv, PopupInv, PopupOK, Holds, Settled, TypeOK
<1>2. CASE leaves' = leaves /\ leaves.menu = m
  <2>1. Older(leaves.elements, content[a][m]) /\ Older(popup[h].shown, leaves.elements)
    BY <1>1, <1>2 DEF Inv, CacheInv, PopupInv, PopupOK, Cached, Holds
  <2>2. QED
    BY <1>1, <1>2, <2>1 DEF Older
<1>3. CASE leaves' \in Load(menusOf, leaves, m)
  <2>1. leaves' \in Loaded(a, m)
    BY <1>1, <1>3, ConstantsAssumption DEF Load
  <2>2. QED
    BY <1>1, <2>1 DEF Loaded, NoLeaves
<1>4. QED
  BY <1>2, <1>3 DEF Ensured

LEMMA PressStep == Inv /\ PerformsShownSettled /\ [Next]_vars => PerformsShownSettled'
<1> SUFFICES ASSUME Inv, PerformsShownSettled, [Next]_vars
             PROVE  PerformsShownSettled'
  OBVIOUS
<1>1. CASE UNCHANGED pressed
  BY <1>1 DEF PerformsShownSettled, PerformsShown
<1>2. ASSUME NEW h \in Hosts, NEW k \in 1 .. Size, ClickLeaf(h, k), pressed' # pressed
      PROVE  PerformsShownSettled'
  <2>1. /\ popup[h].open /\ leaves' \in Ensured(menusOf, leaves, popup[h].menu)
        /\ leaves'.app = menusOf /\ k \in DOMAIN leaves'.elements
        /\ pressed' = [shown |-> popup[h].shown[k], reached |-> leaves'.elements[k],
                       settled |-> Settled(h)]
    BY <1>2 DEF ClickLeaf, Live
  <2>2. leaves'.elements # <<>>
    BY <2>1
  <2>3. Settled(h) => leaves'.elements = popup[h].shown
    BY <2>1, <2>2, SettledMatches
  <2>4. QED
    BY <2>1, <2>3 DEF PerformsShownSettled, PerformsShown
<1>3. UNCHANGED pressed \/ \E h \in Hosts, k \in 1 .. Size : ClickLeaf(h, k)
  BY DEF Next, vars, SwitchApp, LeafGoes, LeafGreys, Happens, Paint, Update, ClickOutside,
         ClickRow, ClickLogo, Open
<1>4. QED
  BY <1>1, <1>2, <1>3

\* Type correctness of the caches and the popups (app_menus.m, bar_item.c).
THEOREM TypeCorrect == Spec => []TypeOK
<1>1. Inv => TypeOK
  BY DEF Inv
<1>2. QED
  BY Initially, InvStep, <1>1, PTL DEF Spec

\* The leaf cache belongs to the app whose menus are cached: app_menus_refresh
\* drops the one with the other (app_menus.m).
THEOREM OneAppTheorem == Spec => []OneAppCached
<1>1. Inv => OneAppCached
  BY DEF Inv
<1>2. QED
  BY Initially, InvStep, <1>1, PTL DEF Spec

\* A click performs what the leaf shows, as long as the popup is as its menu is
\* now: for any number of popups, also of one menu, on the one leaf cache
\* (bar_item_app_menu_ensure_items, bar_item.c).
THEOREM PerformsShownTheorem == Spec => []PerformsShownSettled
<1>1. QED
  BY Initially, InvStep, PressStep, PTL DEF Spec
=============================================================================
