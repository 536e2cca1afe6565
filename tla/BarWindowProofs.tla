-------------------------- MODULE BarWindowProofs ---------------------------
(***************************************************************************)
(* The window's frame follows the popups, and a press hits what is painted *)
(* under it, for any items, lengths, intervals, placements and menus: what *)
(* the sections' layout computes does not matter, only that the draw pass, *)
(* the items and the popups get the same.                                  *)
(***************************************************************************)
EXTENDS BarWindow, FiniteSetTheorems, TLAPS

-----------------------------------------------------------------------------
(* The invariant *)

\* With nothing left to repaint and no clearing block since the draw, the screen
\* shows the items where a press looks them up, and the open popups alone.
Painted ==
  ~dirty /\ ~screen.blank =>
    /\ screen.x = x /\ screen.len = len
    /\ \A h \in Hosts :
         /\ leaves[h] > 0 => /\ screen.bounds[h] = bounds[h]
                             /\ bounds[h].y = BaseH /\ bounds[h].rows = leaves[h]
         /\ ~ (leaves[h] > 0) => screen.bounds[h] = NoBounds

Inv ==
  /\ leaves \in [Hosts -> 0 .. MaxLeaves]
  /\ setup \in [resize : BOOLEAN, ordering : BOOLEAN]
  /\ "blank" \in DOMAIN screen
  /\ WindowOK
  /\ Painted

LEMMA Initially == Init => Inv
<1> SUFFICES ASSUME Init
             PROVE  Inv
  OBVIOUS
<1>1. leaves \in [Hosts -> 0 .. MaxLeaves]
  BY ConstantsAssumption DEF Init, Closed
<1>2. setup \in [resize : BOOLEAN, ordering : BOOLEAN]
  <2>1. PICK S : setup = Flagged(S)
    BY DEF Init
  <2>2. PICK r \in BOOLEAN, o \in BOOLEAN :
          r = (S \cap Geometry # {}) /\ o = (S \cap Level # {})
    OBVIOUS
  <2>3. setup = [resize |-> r, ordering |-> o]
    BY <2>1, <2>2 DEF Flagged
  <2>4. QED
    BY <2>3
<1>3. "blank" \in DOMAIN screen
  BY DEF Init, Blank
<1>4. WindowOK
  BY <1>1 DEF Init, WindowOK
<1>5. Painted
  BY DEF Init, Painted
<1>6. QED
  BY <1>1, <1>2, <1>3, <1>4, <1>5 DEF Inv

-----------------------------------------------------------------------------
(* The steps *)

\* A draw paints what the items and the popups are then.
LEMMA Drawn ==
  ASSUME Inv, NEW l, NEW h, NEW pending \in BOOLEAN, Draw(l, h, pending),
         x' = [i \in Items |-> Placed(l, i)], len' = l, leaves' = leaves,
         dirty' \in BOOLEAN, setup' \in [resize : BOOLEAN, ordering : BOOLEAN]
  PROVE  Inv'
<1>1. /\ shape' = h /\ clears' = (IF pending THEN clears + 1 ELSE clears)
      /\ bounds' = PopupBounds(l) /\ screen' = Picture(l)
      /\ height' = TargetHeight /\ resize' = (TargetHeight # h)
  BY DEF Draw, ApplyFrame, SetFrame
<1>2. clears' \in Nat
  BY <1>1 DEF Inv, WindowOK
<1>3. height' = BaseH + PopupHeight'
  BY <1>1 DEF TargetHeight, PopupHeight
<1>4. WindowOK'
  BY <1>1, <1>2, <1>3 DEF Inv, WindowOK
<1>5. "blank" \in DOMAIN screen'
  BY <1>1 DEF Picture, PopupPicture
<1>6. /\ screen'.x = [i \in Items |-> Placed(l, i)] /\ screen'.len = l
      /\ screen'.bounds = [g \in Hosts |-> IF leaves[g] > 0 THEN PopupBounds(l)[g]
                                           ELSE NoBounds]
  BY <1>1 DEF Picture, PopupPicture
<1>7. ASSUME NEW g \in Hosts, leaves[g] > 0
      PROVE  bounds'[g].y = BaseH /\ bounds'[g].rows = leaves[g]
  BY <1>1, <1>7 DEF PopupBounds, Anchor
<1>8. Painted'
  BY <1>1, <1>6, <1>7 DEF Painted
<1>9. QED
  BY <1>4, <1>5, <1>8 DEF Inv

LEMMA TickStep ==
  ASSUME Inv, Tick
  PROVE  Inv'
<1>1. PICK needed, l :
        /\ needed = (dirty \/ Due # {}) /\ l = len' /\ Refresh(l, needed)
        /\ Due = {} => len' = len
        /\ leaves' = leaves
  BY DEF Tick
<1>2. /\ setup.resize \in BOOLEAN /\ setup.ordering \in BOOLEAN /\ dirty \in BOOLEAN
      /\ resize \in BOOLEAN /\ BaseH \in Nat
  BY ConstantsAssumption DEF Inv, WindowOK
<1>3. dirty' = setup.ordering /\ setup' = [resize |-> FALSE, ordering |-> FALSE]
  BY <1>1 DEF Refresh
<1>4. dirty' \in BOOLEAN /\ setup' \in [resize : BOOLEAN, ordering : BOOLEAN]
  BY <1>2, <1>3
<1>5. CASE needed \/ setup.resize
  <2>1. PICK h : h = IF setup.resize THEN BaseH ELSE height
    OBVIOUS
  <2>2. PICK pending \in BOOLEAN : pending = (resize \/ h # height)
    BY <1>2
  <2>3. x' = [i \in Items |-> Placed(l, i)] /\ Draw(l, h, pending)
    BY <1>1, <1>5, <2>1, <2>2 DEF Refresh
  <2>4. QED
    BY <1>1, <1>4, <2>3, Drawn
<1>6. CASE ~ (needed \/ setup.resize)
  <2>1. UNCHANGED <<x, bounds, window>> /\ ~dirty /\ Due = {}
    BY <1>1, <1>6 DEF Refresh
  <2>2. WindowOK'
    BY <1>1, <1>2, <1>4, <2>1 DEF Inv, WindowOK, window, PopupHeight
  <2>3. Painted'
    BY <1>1, <1>2, <2>1 DEF Inv, Painted, window
  <2>4. QED
    BY <1>1, <1>4, <2>1, <2>2, <2>3 DEF Inv, window
<1>7. QED
  BY <1>5, <1>6

LEMMA ClearStep ==
  ASSUME Inv, DeferredClear
  PROVE  Inv'
<1>1. /\ clears > 0 /\ clears' = clears - 1 /\ screen' = [screen EXCEPT !.blank = TRUE]
      /\ UNCHANGED <<leaves, dirty, setup, height, resize, shape>>
  BY DEF DeferredClear
<1>2. screen'.blank /\ "blank" \in DOMAIN screen'
  BY <1>1 DEF Inv
<1>3. WindowOK'
  BY <1>1 DEF Inv, WindowOK, PopupHeight
<1>4. QED
  BY <1>1, <1>2, <1>3 DEF Inv, Painted

\* A step that flags the redraw may change anything else a redraw looks at.
LEMMA Flagging ==
  ASSUME Inv, dirty' = TRUE, leaves' \in [Hosts -> 0 .. MaxLeaves],
         resize' \in BOOLEAN, height' # shape' => resize',
         UNCHANGED <<setup, clears, screen>>
  PROVE  Inv'
BY DEF Inv, WindowOK, Painted

LEMMA ItemStep ==
  ASSUME Inv, NEW i \in Items, ItemChanged(i)
  PROVE  Inv'
BY Flagging DEF ItemChanged, window, Inv, WindowOK

LEMMA MovedStep ==
  ASSUME Inv, DisplayMoved
  PROVE  Inv'
<1>1. /\ height' = BaseH /\ resize' = (resize \/ BaseH # height)
      /\ dirty' = TRUE /\ UNCHANGED <<leaves, setup, shape, clears, screen>>
  BY DEF DisplayMoved, SetFrame
<1>2. resize' \in BOOLEAN /\ (height' # shape' => resize')
  BY <1>1 DEF Inv, WindowOK
<1>3. QED
  BY <1>1, <1>2, Flagging DEF Inv

LEMMA PressStep ==
  ASSUME Inv, Press
  PROVE  Inv'
<1>1. PICK p \in Points : \/ PressLeaf(p[1], p[2])
                          \/ PressItem(p[1], p[2])
                          \/ PressOutside(p[1], p[2])
  BY DEF Press
<1>2. 0 \in 0 .. MaxLeaves
  BY ConstantsAssumption
<1>3. leaves \in [Hosts -> 0 .. MaxLeaves]
  BY DEF Inv
<1>4. ASSUME NEW h, NEW n \in 0 .. MaxLeaves
      PROVE  [leaves EXCEPT ![h] = n] \in [Hosts -> 0 .. MaxLeaves]
  BY <1>3
<1>5. leaves' \in [Hosts -> 0 .. MaxLeaves]
  <2>1. CASE PressLeaf(p[1], p[2])
    <3>1. leaves' = leaves \/ leaves' = [leaves EXCEPT ![FirstOf(PopupsAt(p[1], p[2]))] = 0]
      BY <2>1 DEF PressLeaf
    <3>2. QED
      BY <1>2, <1>3, <1>4, <3>1
  <2>2. CASE PressItem(p[1], p[2])
    <3>1. UNCHANGED leaves \/ Open(FirstOf(ItemsAt(p[1], p[2])))
      BY <2>2 DEF PressItem
    <3>2. QED
      BY <1>3, <1>4, <3>1 DEF Open
  <2>3. CASE PressOutside(p[1], p[2])
    BY <1>2, <2>3 DEF PressOutside, Closed
  <2>4. QED
    BY <1>1, <2>1, <2>2, <2>3
<1>6. dirty' = TRUE /\ UNCHANGED <<setup, window>>
  BY DEF Press
<1>7. QED
  BY <1>5, <1>6, Flagging DEF window, Inv, WindowOK

LEMMA Step == Inv /\ [Next]_vars => Inv'
<1> SUFFICES ASSUME Inv, [Next]_vars
             PROVE  Inv'
  OBVIOUS
<1>1. CASE UNCHANGED vars
  BY <1>1 DEF vars, window, Inv, WindowOK, Painted, PopupHeight
<1>2. QED
  BY <1>1, TickStep, ClearStep, ItemStep, MovedStep, PressStep, Zenon DEF Next

LEMMA Always == Spec => []Inv
BY Initially, Step, PTL DEF Spec

\* bar.c:433-442, window.c:221-233: once the bar is painted its window covers the tallest open
\* popup and nothing more, and a frame the window server does not have yet is flagged,
\* for any items, menus and order of presses, updates and display moves.
THEOREM FrameFollows == Spec => []WindowOK
<1>1. Inv => WindowOK
  BY DEF Inv
<1>2. QED
  BY <1>1, Always, PTL

-----------------------------------------------------------------------------
(* Presses *)

LEMMA Least ==
  ASSUME NEW S, S \subseteq Nat, S # {}
  PROVE  \E k \in S : \A j \in S : k <= j
<1>1. PICK k \in S : \A j \in S : ~ (<<j, k>> \in OpToRel(<, Nat))
  BY NatLessThanWellFounded, WFMin, Zenon
<1>2. \A j \in S : ~ (j < k)
  BY <1>1 DEF OpToRel
<1>3. QED
  BY <1>2

\* The tallest popup is one of them.
LEMMA Tallest ==
  ASSUME Inv
  PROVE  PopupHeight \in Nat
<1> DEFINE S == {leaves[h] * CellH : h \in Hosts} \cup {0}
<1>1. CellH \in Nat /\ MaxLeaves \in Nat
  BY ConstantsAssumption
<1>2. \A h \in Hosts : leaves[h] \in 0 .. MaxLeaves
  BY DEF Inv
<1>3. \A h \in Hosts : leaves[h] * CellH \in Nat
  <2>1. ASSUME NEW n \in Nat
        PROVE  n * CellH \in Nat
    BY <1>1
  <2>2. QED
    BY <1>2, <2>1
<1>4. \E m \in S : \A y \in S : m >= y
  <2>1. CASE Hosts = {}
    <3>1. S = {0}
      BY <2>1
    <3>2. QED
      BY <3>1
  <2>2. CASE Hosts # {}
    <3> DEFINE R == {MaxLeaves - leaves[h] : h \in Hosts}
    <3>1. R \subseteq Nat /\ R # {}
      BY <1>1, <1>2, <2>2
    <3>2. PICK k \in R : \A j \in R : k <= j
      BY <3>1, Least
    <3>3. PICK g \in Hosts : k = MaxLeaves - leaves[g]
      BY <3>2
    <3>4. ASSUME NEW h \in Hosts
          PROVE  leaves[h] <= leaves[g]
      <4>1. MaxLeaves - leaves[g] <= MaxLeaves - leaves[h]
        BY <3>2, <3>3
      <4>2. QED
        BY <1>1, <1>2, <4>1
    <3>5. ASSUME NEW h \in Hosts
          PROVE  leaves[h] * CellH <= leaves[g] * CellH
      <4>1. PICK a \in Nat, b \in Nat : a = leaves[h] /\ b = leaves[g] /\ a <= b
        BY <1>2, <3>4
      <4>2. PICK d \in Nat : b = a + d
        <5>1. b - a \in Nat /\ b = a + (b - a)
          BY <4>1
        <5>2. QED
          BY <5>1
      <4>3. b * CellH = a * CellH + d * CellH /\ d * CellH \in Nat /\ a * CellH \in Nat
        BY <1>1, <4>2
      <4>4. QED
        BY <4>1, <4>3
    <3>6. leaves[g] * CellH >= 0 /\ leaves[g] * CellH \in S
      BY <1>3
    <3>7. \A y \in S : leaves[g] * CellH >= y
      BY <1>3, <3>5, <3>6
    <3>8. QED
      BY <3>6, <3>7
  <2>3. QED
    BY <2>1, <2>2
<1>5. S \subseteq Nat
  BY <1>3
<1>6. PopupHeight = Max(S)
  BY DEF PopupHeight
<1> HIDE DEF S
<1>7. QED
  BY <1>4, <1>5, <1>6 DEF Max

LEMMA NonePopped ==
  ASSUME leaves \in [Hosts -> 0 .. MaxLeaves], OpenHosts = {}
  PROVE  PopupHeight = 0
<1> DEFINE S == {leaves[h] * CellH : h \in Hosts} \cup {0}
<1>1. \A h \in Hosts : leaves[h] = 0
  BY ConstantsAssumption DEF OpenHosts
<1>2. \A h \in Hosts : leaves[h] * CellH = 0
  BY <1>1, ConstantsAssumption
<1>3. S = {0}
  BY <1>2
<1>4. PopupHeight = Max(S)
  BY DEF PopupHeight
<1> HIDE DEF S
<1>5. QED
  BY <1>3, <1>4 DEF Max

LEMMA ItemsFinite == IsFiniteSet(Items)
<1>1. Order \in Seq(Items) /\ Len(Order) \in Nat /\ DOMAIN Order = 1 .. Len(Order)
  BY ConstantsAssumption
<1>2. IsFiniteSet(1 .. Len(Order))
  BY <1>1, FS_Interval
<1>3. IsFiniteSet(DOMAIN Order)
  BY <1>1, <1>2
<1>4. Order \in Surjection(DOMAIN Order, Items)
  BY <1>1 DEF Surjection, Items, ToSet
<1>5. QED
  BY <1>3, <1>4, FS_Surjection

LEMMA PlaceNat == \A k \in Items : Place(k) \in Nat
BY ConstantsAssumption DEF Place, Items, ToSet

LEMMA OnlyOne ==
  ASSUME Cardinality(OpenHosts) <= 1, NEW g \in OpenHosts, NEW h \in OpenHosts
  PROVE  g = h
<1>1. IsFiniteSet(Items)
  BY ItemsFinite
<1>2. IsFiniteSet(OpenHosts)
  BY <1>1, FS_Subset, ConstantsAssumption DEF OpenHosts
<1>3. SUFFICES ASSUME g # h
               PROVE  FALSE
  OBVIOUS
<1>4. Cardinality({g, h}) <= Cardinality(OpenHosts) /\ Cardinality(OpenHosts) \in Nat
  <2>1. {g, h} \subseteq OpenHosts
    OBVIOUS
  <2>2. QED
    BY <1>2, <2>1, FS_Subset, FS_CardinalityType
<1>5. Cardinality({g, h}) = 2
  <2>1. IsFiniteSet({g}) /\ Cardinality({g}) = 1
    BY FS_Singleton
  <2>2. Cardinality({g} \cup {h}) = 2
    BY <1>3, <2>1, FS_AddElement
  <2>3. {g} \cup {h} = {g, h}
    OBVIOUS
  <2>4. QED
    BY <2>2, <2>3
<1>6. QED
  BY <1>4, <1>5

LEMMA TheOnlyOne ==
  ASSUME NEW h \in Hosts
  PROVE  FirstOf({h}) = h /\ LastOf({h}) = h
<1>1. Place(h) \in Nat
  <2>1. h \in Items
    BY ConstantsAssumption
  <2>2. QED
    BY <2>1, PlaceNat
<1>2. Place(h) <= Place(h)
  BY <1>1
<1>3. QED
  BY <1>2 DEF FirstOf, LastOf

\* popup_item_at returns the row that is painted at the point.
LEMMA RowPainted ==
  ASSUME NEW h, NEW py \in Int, NEW b, b = bounds[h], screen.bounds[h] = b,
         b.y \in Nat, b.rows \in Nat \ {0},
         py \in b.y .. b.y + b.rows * CellH - 1
  PROVE  RowShown(h, py)
<1> DEFINE S == {k \in 1 .. b.rows : py <= b.y + k * CellH}
           m == RowAt(h, py)
<1>1. CellH \in Nat \ {0}
  BY ConstantsAssumption
<1>2. b.rows \in S
  <2>1. b.rows * CellH \in Int
    BY <1>1
  <2>2. py <= b.y + b.rows * CellH
    BY <2>1
  <2>3. QED
    BY <2>2
<1>3. m = Min(S)
  BY DEF RowAt
<1>4. m \in S /\ \A k \in S : m <= k
  <2>1. S \subseteq Nat /\ S # {}
    BY <1>2
  <2> HIDE DEF S
  <2>2. PICK k \in S : \A j \in S : k <= j
    BY <2>1, Least
  <2>3. QED
    BY <1>3, <2>2 DEF Min
<1> HIDE DEF m
<1>5. m \in 1 .. b.rows /\ py <= b.y + m * CellH
  BY <1>4
<1>6. b.y + (m - 1) * CellH <= py
  <2>1. CASE m = 1
    <3>1. (m - 1) * CellH = 0
      BY <1>1, <2>1
    <3>2. QED
      BY <3>1
  <2>2. CASE m # 1
    <3>1. m - 1 \in 1 .. b.rows /\ ~ (m <= m - 1)
      BY <1>5, <2>2
    <3>2. ~ (py <= b.y + (m - 1) * CellH)
      BY <1>4, <3>1
    <3>3. (m - 1) * CellH \in Int
      BY <1>1, <3>1
    <3>4. QED
      BY <3>2, <3>3
  <2>3. QED
    BY <2>1, <2>2
<1>7. PICK u \in Int : u = (m - 1) * CellH
  BY <1>1, <1>5
<1>8. m * CellH = u + CellH
  BY <1>1, <1>5, <1>7
<1>9. py \in b.y + u .. (b.y + u) + CellH
  BY <1>1, <1>5, <1>6, <1>7, <1>8
<1>10. QED
  BY <1>7, <1>9 DEF RowShown, m

LEMMA PressesHit ==
  ASSUME Inv
  PROVE  HitsShown
<1> SUFFICES ASSUME Settled, Cardinality(OpenHosts) <= 1, NEW p \in Points
             PROVE  /\ PopupsAt(p[1], p[2]) # {} =>
                         LET h == FirstOf(PopupsAt(p[1], p[2])) IN
                         /\ PaintedAt(p[1], p[2]) # {} /\ h = LastOf(PaintedAt(p[1], p[2]))
                         /\ RowShown(h, p[2])
                    /\ \A i \in ItemsAt(p[1], p[2]) :
                         p[1] \in screen.x[i] .. screen.x[i] + screen.len[i]
                    /\ ItemsAt(p[1], p[2]) # {} /\ OpenHosts = {} => p[2] < BaseH
  BY DEF HitsShown
<1>1. PICK px, py : px = p[1] /\ py = p[2]
  OBVIOUS
<1>2. py \in Int
  BY <1>1, ConstantsAssumption DEF Points
<1>3. /\ screen.x = x /\ screen.len = len /\ shape = height
      /\ \A h \in Hosts :
           /\ leaves[h] > 0 => /\ screen.bounds[h] = bounds[h]
                               /\ bounds[h].y = BaseH /\ bounds[h].rows = leaves[h]
           /\ ~ (leaves[h] > 0) => screen.bounds[h] = NoBounds
  BY DEF Inv, WindowOK, Painted, Settled
<1>4. ASSUME NEW i \in ItemsAt(px, py)
      PROVE  px \in screen.x[i] .. screen.x[i] + screen.len[i]
  BY <1>3 DEF ItemsAt, UnderItem
<1>5. ASSUME NEW h \in PopupsAt(px, py)
      PROVE  /\ PaintedAt(px, py) = {h} /\ FirstOf(PopupsAt(px, py)) = h
             /\ LastOf(PaintedAt(px, py)) = h /\ RowShown(h, py)
  <2>1. /\ h \in Hosts /\ leaves[h] > 0 /\ bounds[h] # NoBounds
        /\ py \in 0 .. height - 1
        /\ px \in bounds[h].x .. bounds[h].x + PopupW - 1
        /\ py \in bounds[h].y .. bounds[h].y + bounds[h].rows * CellH - 1
    BY DEF PopupsAt, InPopup, OnBar
  <2>2. PopupsAt(px, py) \subseteq OpenHosts
    BY DEF PopupsAt, InPopup, OpenHosts
  <2>3. PopupsAt(px, py) = {h}
    BY <2>2, OnlyOne
  <2>4. h \in PaintedAt(px, py)
    <3>1. py < shape
      <4>1. height \in Int
        BY Tallest, ConstantsAssumption DEF Inv, WindowOK, Settled
      <4>2. QED
        BY <1>2, <1>3, <2>1, <4>1
    <3>2. QED
      BY <1>3, <2>1, <3>1, Zenon DEF PaintedAt
  <2>5. PaintedAt(px, py) \subseteq OpenHosts
    BY <1>3 DEF PaintedAt, OpenHosts
  <2>6. PaintedAt(px, py) = {h}
    BY <2>4, <2>5, OnlyOne
  <2>7. FirstOf({h}) = h /\ LastOf({h}) = h
    BY <2>1, TheOnlyOne
  <2>8. RowShown(h, py)
    <3>1. bounds[h].y \in Nat /\ bounds[h].rows \in Nat \ {0} /\ screen.bounds[h] = bounds[h]
      BY <1>3, <2>1, ConstantsAssumption DEF Inv
    <3>2. QED
      BY <1>2, <2>1, <3>1, RowPainted
  <2>9. QED
    BY <2>3, <2>6, <2>7, <2>8
<1>6. ASSUME ItemsAt(px, py) # {}, OpenHosts = {}
      PROVE  py < BaseH
  <2>1. py \in 0 .. height - 1
    BY <1>6 DEF ItemsAt, OnBar
  <2>2. height = BaseH
    <3>1. PopupHeight = 0
      BY <1>6, NonePopped DEF Inv
    <3>2. QED
      BY <3>1, ConstantsAssumption DEF Inv, WindowOK, Settled
  <2>3. QED
    BY <1>2, <2>1, <2>2, ConstantsAssumption
<1>7. QED
  BY <1>1, <1>4, <1>5, <1>6

\* bar_manager.c: a press is looked up in the items and the popups of now, not in what was
\* painted; with nothing left to repaint and one popup open at most a popup's row is hit
\* where it is painted, and an item in the column it is painted in: on the bar, if no
\* popup is open.
THEOREM PressesHitShown == Spec => []HitsShown
BY Always, PressesHit, PTL

-----------------------------------------------------------------------------
(* Sums over a finite set, by induction over its subsets *)

\* A non-empty set of finite subsets of D has a minimal one.
LEMMA Minimal ==
  ASSUME NEW D, IsFiniteSet(D), NEW F, F \subseteq SUBSET D, F # {}
  PROVE  \E T \in F : \A U \in F : U \subseteq T => U = T
<1>1. IsWellFoundedOn(StrictSubsetOrdering(D), SUBSET D)
  BY FS_StrictSubsetOrderingWellFounded, FS_FiniteSubsetsOfFinite
<1>2. PICK T \in F : \A U \in F : ~ (<<U, T>> \in StrictSubsetOrdering(D))
  BY <1>1, WFMin
<1>3. ASSUME NEW U \in F, U \subseteq T, U # T
      PROVE  FALSE
  <2>1. <<U, T>> \in StrictSubsetOrdering(D)
    BY <1>3 DEF StrictSubsetOrdering
  <2>2. QED
    BY <1>2, <2>1
<1>4. QED
  BY <1>3

\* Strong induction over the subsets of a finite set.
LEMMA AllSubsets ==
  ASSUME NEW D, IsFiniteSet(D), NEW F,
         \A T \in SUBSET D : (\A U \in SUBSET T : U # T => U \in F) => T \in F
  PROVE  SUBSET D \subseteq F
<1> DEFINE missing == (SUBSET D) \ F
<1>1. SUFFICES ASSUME missing # {}
               PROVE  FALSE
  OBVIOUS
<1>2. PICK T \in missing : \A U \in missing : U \subseteq T => U = T
  <2>1. missing \subseteq SUBSET D
    OBVIOUS
  <2> HIDE DEF missing
  <2>2. QED
    BY <1>1, <2>1, Minimal
<1>3. \A U \in SUBSET T : U # T => U \in F
  BY <1>2
<1>4. QED
  BY <1>2, <1>3

\* g sums w over the subsets of D, whichever element is taken first.
Sums(g, D, w) ==
  /\ g \in [SUBSET D -> Nat]
  /\ g[{}] = 0
  /\ \A s \in SUBSET D : \A y \in s : g[s] = w[y] + g[s \ {y}]

LEMMA SumExists ==
  ASSUME NEW D, IsFiniteSet(D), NEW w \in [D -> Nat]
  PROVE  \E g : Sums(g, D, w)
<1> DEFINE done == {T \in SUBSET D : \E g : Sums(g, T, w)}
<1>1. ASSUME NEW T \in SUBSET D, \A U \in SUBSET T : U # T => U \in done
      PROVE  T \in done
  <2>1. CASE T = {}
    <3> DEFINE h == [u \in SUBSET T |-> 0]
    <3>1. Sums(h, T, w)
      BY <2>1 DEF Sums
    <3>2. QED
      BY <3>1
  <2>2. CASE T # {}
    <3>1. PICK a \in T : TRUE
      BY <2>2
    <3>2. T \ {a} \in SUBSET T /\ T \ {a} # T
      BY <3>1
    <3>3. PICK g : Sums(g, T \ {a}, w)
      BY <1>1, <3>2
    <3> DEFINE h == [u \in SUBSET T |-> IF a \in u THEN w[a] + g[u \ {a}] ELSE g[u]]
    <3>4. w[a] \in Nat /\ \A u \in SUBSET (T \ {a}) : g[u] \in Nat
      BY <3>3 DEF Sums
    <3>5. \A u \in SUBSET T :
            IF a \in u THEN h[u] = w[a] + g[u \ {a}] /\ u \ {a} \in SUBSET (T \ {a})
                       ELSE h[u] = g[u] /\ u \in SUBSET (T \ {a})
      OBVIOUS
    <3>6. h \in [SUBSET T -> Nat] /\ h[{}] = 0
      <4>1. h[{}] = g[{}] /\ g[{}] = 0
        BY <3>3, <3>5 DEF Sums
      <4>2. \A u \in SUBSET T : h[u] \in Nat
        BY <3>4, <3>5
      <4>3. QED
        BY <4>1, <4>2
    <3> HIDE DEF h
    <3>7. ASSUME NEW u \in SUBSET T, NEW b \in u
          PROVE  h[u] = w[b] + h[u \ {b}]
      <4>1. w[b] \in Nat /\ u \ {b} \in SUBSET T
        OBVIOUS
      <4>2. CASE b = a
        BY <3>5, <4>1, <4>2
      <4>3. CASE b # a /\ a \notin u
        <5>1. g[u] = w[b] + g[u \ {b}]
          BY <3>3, <3>5, <4>3 DEF Sums
        <5>2. QED
          BY <3>5, <4>1, <4>3, <5>1
      <4>4. CASE b # a /\ a \in u
        <5> DEFINE r == (u \ {a}) \ {b}
        <5>1. r = (u \ {b}) \ {a} /\ r \in SUBSET (T \ {a})
          OBVIOUS
        <5>2. b \in u \ {a} /\ u \ {a} \in SUBSET (T \ {a})
          BY <4>4
        <5>3. g[u \ {a}] = w[b] + g[r]
          BY <3>3, <5>2 DEF Sums
        <5>4. h[u] = w[a] + g[u \ {a}] /\ h[u \ {b}] = w[a] + g[r]
          BY <3>5, <4>1, <4>4, <5>1
        <5> HIDE DEF r
        <5>5. g[r] \in Nat
          BY <3>4, <5>1
        <5>6. QED
          BY <3>4, <4>1, <5>3, <5>4, <5>5
      <4>5. QED
        BY <4>2, <4>3, <4>4
    <3>8. Sums(h, T, w)
      BY <3>6, <3>7 DEF Sums
    <3>9. QED
      BY <3>8
  <2>3. QED
    BY <2>1, <2>2
<1> HIDE DEF done
<1>2. SUBSET D \subseteq done
  BY <1>1, AllSubsets
<1>3. QED
  BY <1>2 DEF done

\* h adds up A, in an order of its own.
AddsUp(h, A, w) ==
  /\ h[{}] = 0
  /\ \A s \in SUBSET A : s # {} => \E y \in s : h[s] = w[y] + h[s \ {y}]

LEMMA SumUnique ==
  ASSUME NEW D, IsFiniteSet(D), NEW w \in [D -> Nat], NEW g, Sums(g, D, w),
         NEW A \in SUBSET D, NEW h, AddsUp(h, A, w)
  PROVE  h[A] = g[A]
<1> DEFINE same == {s \in SUBSET A : h[s] = g[s]}
<1>1. ASSUME NEW T \in SUBSET A, \A U \in SUBSET T : U # T => U \in same
      PROVE  T \in same
  <2>1. CASE T = {}
    BY <2>1 DEF Sums, AddsUp
  <2>2. CASE T # {}
    <3>1. PICK y \in T : h[T] = w[y] + h[T \ {y}]
      BY <2>2 DEF AddsUp
    <3>2. h[T \ {y}] = g[T \ {y}]
      BY <1>1, <3>1
    <3>3. g[T] = w[y] + g[T \ {y}]
      BY <3>1 DEF Sums
    <3>4. QED
      BY <3>1, <3>2, <3>3
  <2>3. QED
    BY <2>1, <2>2
<1>2. IsFiniteSet(A)
  BY FS_Subset
<1> HIDE DEF same
<1>3. SUBSET A \subseteq same
  BY <1>1, <1>2, AllSubsets
<1>4. QED
  BY <1>3 DEF same

\* A larger set has no smaller sum.
LEMMA SumMore ==
  ASSUME NEW D, IsFiniteSet(D), NEW w \in [D -> Nat], NEW g, Sums(g, D, w),
         NEW S \in SUBSET D
  PROVE  \A T \in SUBSET D : S \subseteq T => g[S] <= g[T]
<1> DEFINE more == {T \in SUBSET D : S \subseteq T => g[S] <= g[T]}
<1>1. ASSUME NEW T \in SUBSET D, \A U \in SUBSET T : U # T => U \in more
      PROVE  T \in more
  <2>1. CASE ~ (S \subseteq T)
    BY <2>1
  <2>2. CASE S = T
    <3>1. g[S] \in Nat
      BY DEF Sums
    <3>2. g[S] <= g[T]
      BY <2>2, <3>1
    <3>3. QED
      BY <3>2
  <2>3. CASE S \subseteq T /\ S # T
    <3>1. PICK a \in T : a \notin S
      BY <2>3
    <3>2. T \ {a} \in more /\ S \subseteq T \ {a}
      BY <1>1, <2>3, <3>1
    <3>3. g[S] <= g[T \ {a}] /\ g[T] = w[a] + g[T \ {a}]
      BY <3>1, <3>2 DEF Sums
    <3>4. g[S] \in Nat /\ g[T \ {a}] \in Nat /\ w[a] \in Nat
      BY DEF Sums
    <3>5. g[S] <= g[T]
      BY <3>3, <3>4
    <3>6. QED
      BY <3>5
  <2>4. QED
    BY <2>1, <2>2, <2>3
<1> HIDE DEF more
<1>2. SUBSET D \subseteq more
  BY <1>1, AllSubsets
<1>3. QED
  BY <1>2 DEF more

-----------------------------------------------------------------------------
(* The layout: every section in order *)

Weight(l) == [j \in Items |-> l[j] + BgRight[j]]

\* The advance of a set of items is the sum of their lengths and gaps.
LEMMA AdvanceIsSum ==
  ASSUME NEW l \in [Items -> Nat], NEW g, Sums(g, Items, Weight(l)),
         NEW S \in SUBSET Items
  PROVE  Advance(l, S) = g[S]
<1> DEFINE w == Weight(l)
           iter == CHOOSE h : h =
             [s \in SUBSET S |->
                IF s = {} THEN 0
                ELSE (l[CHOOSE x_1 \in s : TRUE] + BgRight[CHOOSE x_1 \in s : TRUE])
                     + h[s \ {CHOOSE x_1 \in s : TRUE}]]
<1>1. Advance(l, S) = iter[S]
  BY DEF Advance, MapThenSumSet, MapThenFoldSet
<1>2. w \in [Items -> Nat] /\ \A j \in Items : w[j] = l[j] + BgRight[j]
  BY ConstantsAssumption DEF Weight
<1>3. IsFiniteSet(S)
  BY ItemsFinite, FS_Subset
<1>4. \A s \in SUBSET S : s # {} =>
        LET y == CHOOSE x_1 \in s : TRUE IN y \in s /\ y \in Items /\ w[y] = l[y] + BgRight[y]
  BY <1>2
<1>5. \E h : h = [s \in SUBSET S |->
                  IF s = {} THEN 0
                  ELSE (l[CHOOSE x_1 \in s : TRUE] + BgRight[CHOOSE x_1 \in s : TRUE])
                       + h[s \ {CHOOSE x_1 \in s : TRUE}]]
  <2> DEFINE v == [j \in S |-> w[j]]
  <2>1. v \in [S -> Nat] /\ \A j \in S : v[j] = w[j]
    BY <1>2
  <2> HIDE DEF v, w
  <2>2. PICK h : Sums(h, S, v)
    BY <1>3, <2>1, SumExists
  <2>3. h = [s \in SUBSET S |-> h[s]]
    BY <2>2 DEF Sums
  <2>4. ASSUME NEW s \in SUBSET S
        PROVE  h[s] = IF s = {} THEN 0
                      ELSE (l[CHOOSE x_1 \in s : TRUE] + BgRight[CHOOSE x_1 \in s : TRUE])
                           + h[s \ {CHOOSE x_1 \in s : TRUE}]
    <3>1. CASE s = {}
      BY <2>2, <3>1 DEF Sums
    <3>2. CASE s # {}
      <4> DEFINE y == CHOOSE x_1 \in s : TRUE
      <4>1. y \in s /\ v[y] = l[y] + BgRight[y]
        BY <1>4, <2>1, <3>2
      <4>2. h[s] = v[y] + h[s \ {y}]
        BY <2>2, <4>1 DEF Sums
      <4>3. QED
        BY <3>2, <4>1, <4>2
    <3>3. QED
      BY <3>1, <3>2
  <2>5. h = [s \in SUBSET S |->
               IF s = {} THEN 0
               ELSE (l[CHOOSE x_1 \in s : TRUE] + BgRight[CHOOSE x_1 \in s : TRUE])
                    + h[s \ {CHOOSE x_1 \in s : TRUE}]]
    BY <2>3, <2>4, Zenon
  <2>6. QED
    BY <2>5
<1>6. iter = [s \in SUBSET S |->
                IF s = {} THEN 0
                ELSE (l[CHOOSE x_1 \in s : TRUE] + BgRight[CHOOSE x_1 \in s : TRUE])
                     + iter[s \ {CHOOSE x_1 \in s : TRUE}]]
  BY <1>5
<1> HIDE DEF iter, w
<1>7. AddsUp(iter, S, w)
  BY <1>4, <1>6 DEF AddsUp
<1>8. iter[S] = g[S]
  <2> DEFINE D == Items
  <2>1. IsFiniteSet(D) /\ w \in [D -> Nat] /\ Sums(g, D, w) /\ S \in SUBSET D
    BY <1>2, ItemsFinite DEF w
  <2> HIDE DEF D
  <2>2. QED
    BY <1>7, <2>1, SumUnique
<1>9. QED
  BY <1>1, <1>8

LEMMA AdvanceNat ==
  ASSUME NEW l \in [Items -> Nat], NEW S \in SUBSET Items
  PROVE  Advance(l, S) \in Nat
<1> DEFINE w == Weight(l)
<1>1. w \in [Items -> Nat]
  BY ConstantsAssumption DEF Weight
<1> HIDE DEF w
<1>2. PICK g : Sums(g, Items, w)
  BY <1>1, ItemsFinite, SumExists
<1>3. Advance(l, S) = g[S]
  BY <1>2, AdvanceIsSum DEF w
<1>4. QED
  BY <1>2, <1>3 DEF Sums

\* One item more is its length and the gap more.
LEMMA AdvanceMore ==
  ASSUME NEW l \in [Items -> Nat], NEW S \in SUBSET Items, NEW T \in SUBSET Items,
         NEW i \in Items, i \notin S, S \cup {i} \subseteq T
  PROVE  /\ Advance(l, S) \in Nat /\ Advance(l, T) \in Nat
         /\ Advance(l, S) + l[i] + BgRight[i] <= Advance(l, T)
<1> DEFINE w == Weight(l)
           U == S \cup {i}
<1>1. w \in [Items -> Nat] /\ w[i] = l[i] + BgRight[i] /\ l[i] \in Nat /\ BgRight[i] \in Nat
  BY ConstantsAssumption DEF Weight
<1>2. U \in SUBSET Items /\ i \in U /\ U \ {i} = S /\ U \subseteq T
  OBVIOUS
<1> HIDE DEF w, U
<1>3. PICK g : Sums(g, Items, w)
  BY <1>1, ItemsFinite, SumExists
<1>4. g[S] \in Nat /\ g[T] \in Nat /\ g[U] \in Nat
  BY <1>2, <1>3 DEF Sums
<1>5. g[U] = w[i] + g[S]
  BY <1>2, <1>3 DEF Sums
<1>6. g[U] <= g[T]
  BY <1>1, <1>2, <1>3, ItemsFinite, SumMore
<1>7. Advance(l, S) = g[S] /\ Advance(l, T) = g[T]
  BY <1>3, AdvanceIsSum DEF w
<1>8. QED
  BY <1>1, <1>4, <1>5, <1>6, <1>7

\* Lengths include the left padding.
Measures == {l \in [Items -> Nat] : \A i \in Items : PadLeft[i] <= l[i]}

\* bar_calculate_bounds: of two items of a section the first stands before the other and
\* reaches into it by no more than its left padding is the larger, if that counts at all.
LEMMA PlacedInOrder ==
  ASSUME pos \in [Items -> Positions], NEW l \in Measures,
         NEW i \in Items, NEW j \in Items, pos[i] = pos[j], Place(i) < Place(j)
  PROVE  /\ Placed(l, i) <= Placed(l, j)
         /\ Placed(l, i) + l[i] <= Placed(l, j) + Overlap(i, j)
<1> DEFINE f == First(l, pos[i])
           before(k) == {m \in Section(k) : Place(m) < Place(k)}
           after(k) == {m \in Section(k) : Place(m) >= Place(k)}
<1>0. l \in [Items -> Nat]
  BY DEF Measures
<1>1. f \in Int
  <2>1. Advance(l, Centered) \in Nat
    BY <1>0, AdvanceNat DEF Centered
  <2>2. (BarW - Advance(l, Centered)) \div 2 \in Int
    BY <2>1, ConstantsAssumption
  <2>3. BarW \in Int /\ (BarW + NotchW) \div 2 \in Int /\ (BarW - NotchW) \div 2 \in Int
    <3>1. BarW \in Nat /\ NotchW \in Nat
      BY ConstantsAssumption
    <3>2. QED
      BY <3>1
  <2>4. pos[i] \in Positions
    OBVIOUS
  <2>5. QED
    BY <2>2, <2>3, <2>4 DEF First, Positions
<1>2. Place(i) \in Nat /\ Place(j) \in Nat /\ \A k \in Items : Place(k) \in Nat
  BY PlaceNat
<1>3. Section(i) = Section(j) /\ i \in Section(i) /\ Section(i) \in SUBSET Items
  BY DEF Section
<1>4. /\ l[i] \in Nat /\ BgRight[i] \in Nat /\ PadLeft[i] \in Nat /\ PadLeft[j] \in Nat
      /\ PadLeft[i] <= l[i]
  BY ConstantsAssumption DEF Measures
<1>5. /\ before(i) \in SUBSET Items /\ before(j) \in SUBSET Items
      /\ i \notin before(i) /\ before(i) \cup {i} \subseteq before(j)
  BY <1>2, <1>3
<1>6. /\ after(i) \in SUBSET Items /\ after(j) \in SUBSET Items
      /\ i \notin after(j) /\ after(j) \cup {i} \subseteq after(i)
  BY <1>2, <1>3
<1>7. CASE RightAnchored(i)
  <2>1. /\ Placed(l, i) = f - Advance(l, after(i))
        /\ Placed(l, j) = f - Advance(l, after(j))
        /\ Overlap(i, j) = 0
    BY <1>7 DEF Placed, RightAnchored, Overlap
  <2> HIDE DEF f, after
  <2>2. /\ Advance(l, after(j)) \in Nat /\ Advance(l, after(i)) \in Nat
        /\ Advance(l, after(j)) + l[i] + BgRight[i] <= Advance(l, after(i))
    BY <1>0, <1>6, AdvanceMore
  <2>3. QED
    BY <1>1, <1>4, <2>1, <2>2
<1>8. CASE ~RightAnchored(i)
  <2>1. /\ Placed(l, i) = f + PadLeft[i] + Advance(l, before(i))
        /\ Placed(l, j) = f + PadLeft[j] + Advance(l, before(j))
        /\ Overlap(i, j) = PadLeft[i] - PadLeft[j]
    BY <1>8 DEF Placed, RightAnchored, Overlap
  <2> HIDE DEF f, before
  <2>2. /\ Advance(l, before(i)) \in Nat /\ Advance(l, before(j)) \in Nat
        /\ Advance(l, before(i)) + l[i] + BgRight[i] <= Advance(l, before(j))
    BY <1>0, <1>5, AdvanceMore
  <2>3. QED
    BY <1>1, <1>4, <2>1, <2>2
<1>9. QED
  BY <1>7, <1>8

-----------------------------------------------------------------------------
(* With nothing left to repaint the items stand where the layout puts them *)

Laid ==
  /\ pos \in [Items -> Positions]
  /\ \E l \in Measures :
       /\ len = l
       /\ ~dirty => \A i \in Items : x[i] = Placed(l, i)

LEMMA LaidInit == Init => Laid
<1> SUFFICES ASSUME Init
             PROVE  Laid
  OBVIOUS
<1>1. pos \in [Items -> Positions] /\ len \in Measures /\ dirty
  BY ConstantsAssumption DEF Init, Measures
<1>2. QED
  BY <1>1 DEF Laid

LEMMA LaidMeasured ==
  ASSUME Laid, NEW i \in Items, Measured(i)
  PROVE  len' \in Measures
<1>1. PICK n \in Lengths[i] : len' = [len EXCEPT ![i] = n]
  BY DEF Measured
<1>2. n \in Nat /\ PadLeft[i] <= n
  BY ConstantsAssumption
<1>3. len \in [Items -> Nat] /\ \A k \in Items : PadLeft[k] <= len[k]
  BY DEF Laid, Measures
<1>4. len' \in [Items -> Nat] /\ \A k \in Items : PadLeft[k] <= len'[k]
  BY <1>1, <1>2, <1>3
<1>5. QED
  BY <1>4 DEF Measures

\* The layout depends on the state through the items' positions alone.
LEMMA PlacedSame ==
  ASSUME pos' = pos, NEW CONSTANT l, NEW CONSTANT i
  PROVE  Placed(l, i)' = Placed(l, i)
BY DEF Placed, First, RightAnchored, Advance, Section, Centered, MapThenSumSet, MapThenFoldSet

\* A step that lays the items out anew, or leaves them where they are.
LEMMA LaidAnew ==
  ASSUME Laid, pos' = pos, len' \in Measures,
         \/ dirty' = TRUE
         \/ UNCHANGED <<len, x>> /\ (~dirty' => ~dirty)
         \/ x' = [i \in Items |-> Placed(len', i)]
  PROVE  Laid'
<1>1. PICK l \in Measures : l = len'
  OBVIOUS
<1>2. pos' \in [Items -> Positions]
  BY DEF Laid
<1>3. ASSUME ~dirty', NEW i \in Items
      PROVE  x'[i] = Placed(l, i)'
  <2>1. Placed(l, i)' = Placed(l, i)
    BY PlacedSame
  <2>2. x'[i] = Placed(l, i)
    <3>1. CASE UNCHANGED <<len, x>> /\ (~dirty' => ~dirty)
      BY <1>1, <1>3, <3>1 DEF Laid
    <3>2. CASE x' = [k \in Items |-> Placed(len', k)]
      BY <1>1, <3>2
    <3>3. QED
      BY <1>3, <3>1, <3>2
  <2>3. QED
    BY <2>1, <2>2
<1>4. QED
  BY <1>1, <1>2, <1>3 DEF Laid

LEMMA LaidStep == Laid /\ [Next]_vars => Laid'
<1> SUFFICES ASSUME Laid, [Next]_vars
             PROVE  Laid'
  OBVIOUS
<1>1. len \in Measures
  BY DEF Laid
<1>2. ASSUME NEW i \in Items, ItemChanged(i)
      PROVE  Laid'
  BY <1>2, LaidMeasured, LaidAnew DEF ItemChanged
<1>3. CASE DisplayMoved \/ Press
  BY <1>1, <1>3, LaidAnew DEF DisplayMoved, Press
<1>4. CASE DeferredClear \/ UNCHANGED vars
  BY <1>1, <1>4, LaidAnew DEF DeferredClear, vars
<1>5. CASE Tick
  <2>1. pos' = pos /\ Refresh(len', dirty \/ Due # {}) /\ (Due = {} => len' = len)
    BY <1>5 DEF Tick
  <2>2. len' \in Measures
    <3>1. len' = len \/ \E i \in Due : Measured(i)
      BY <1>5 DEF Tick
    <3>2. Due \subseteq Items
      BY DEF Due
    <3>3. QED
      BY <1>1, <3>1, <3>2, LaidMeasured
  <2>3. CASE dirty \/ Due # {} \/ setup.resize
    <3>1. x' = [i \in Items |-> Placed(len', i)]
      BY <2>1, <2>3 DEF Refresh
    <3>2. QED
      BY <2>1, <2>2, <3>1, LaidAnew
  <2>4. CASE ~ (dirty \/ Due # {} \/ setup.resize)
    <3>1. len' = len /\ x' = x /\ (~dirty' => ~dirty)
      BY <2>1, <2>4 DEF Refresh
    <3>2. QED
      BY <2>1, <2>2, <3>1, LaidAnew
  <2>5. QED
    BY <2>3, <2>4
<1>6. QED
  BY <1>2, <1>3, <1>4, <1>5 DEF Next

\* "Walking those slots backwards is what makes a right-hand group read in ascending
\* order" (bar.c:300): the items of a section stand in the order of the configuration,
\* right-anchored ones without overlap and the others with no more than the difference of
\* their left paddings, for any items, lengths, paddings and placements.
THEOREM SectionsInOrder == Spec => []InOrder
<1>1. Laid => InOrder
  BY PlacedInOrder, Zenon DEF Laid, InOrder
<1>2. QED
  BY LaidInit, LaidStep, <1>1, PTL DEF Spec
=============================================================================
