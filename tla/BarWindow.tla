------------------------------ MODULE BarWindow ------------------------------
(***************************************************************************)
(* One top bar and its window: items and popups change, flags record that, *)
(* every tick refreshes the bar if a flag is set (bar_manager.c), the      *)
(* layout places the items and the draw pass paints them (bar.c, popup.c), *)
(* and the window is resized to cover the open popups (window.c).  A       *)
(* resize is recorded by one draw, applied by the next, and queues a block *)
(* that clears the window after that draw.  A press is looked up in the    *)
(* same layout.  Everything runs on the main thread, one block at a time.  *)
(* Lengths and heights are in small units; every item is shown.            *)
(***************************************************************************)
EXTENDS Integers, Sequences, FiniteSets, SequencesExt, FiniteSetsExt

CONSTANTS
  Order,         \* bm->bar_items, in order
  Hosts,         \* those that open a menu when pressed
  Interval,      \* item -> update_interval, 0 for none
  Lengths,       \* item -> the lengths its text can have
  Placements,    \* the placements (item -> position) to start from
  PadLeft,       \* item -> padding_left
  BgRight,       \* item -> background.padding_right
  BarW, NotchW,
  BaseH, CellH,         \* heights: the bar, a menu row
  MaxLeaves, PopupW,
  NoBounds,
  MaxActs        \* bound: changes, presses and display moves

Items == ToSet(Order)
Place(i) == CHOOSE n \in DOMAIN Order : Order[n] = i
Positions == {"left", "center", "right", "center_left", "center_right"}

ASSUME ConstantsAssumption ==
  /\ Order \in Seq(Items) /\ Hosts \subseteq Items
  /\ \A m, n \in DOMAIN Order : Order[m] = Order[n] => m = n
  /\ Interval \in [Items -> Nat]
  /\ \A i \in Items : Lengths[i] \subseteq Nat /\ Lengths[i] # {}
  /\ Placements \subseteq [Items -> Positions]
  /\ PadLeft \in [Items -> Nat] /\ BgRight \in [Items -> Nat]
  /\ \A i \in Items : \A n \in Lengths[i] : n >= PadLeft[i]     \* it is part of the length
  /\ {BarW, NotchW, MaxActs} \subseteq Nat
  /\ {BaseH, CellH, MaxLeaves, PopupW} \subseteq Nat \ {0}

VARIABLES
  pos,           \* item->position
  len,           \* bar_item_get_length
  x,             \* item->x
  leaves,        \* per host: rows of its open popup, 0 if closed
  bounds,        \* per host: popup->bounds
  dirty,         \* bm->bar_needs_update
  setup,         \* bm->bar_needs_resize, needs_ordering: the configuration
                 \* set geometry, level or stickiness
  height,        \* window->frame.size.height
  resize,        \* window->needs_resize
  shape,         \* the height the window server has
  clears,        \* blocks queued by window_defer_update
  screen,        \* what the window shows
  count,         \* item->tick_counter
  acts

window == <<height, resize, shape, clears, screen>>
vars == <<pos, len, x, leaves, bounds, dirty, setup, window, count, acts>>

Blank == [blank |-> TRUE, x |-> x, len |-> len, bounds |-> bounds]
Closed == [h \in Hosts |-> 0]

\* What the setters of the bar's settings flag when the configuration
\* changes them; the others flag a redraw.
Geometry == {"position", "height", "width", "notch_width", "notch_offset",
             "notch_auto_offset"}
Level == {"topmost", "sticky"}
Flagged(changed) ==
  [resize |-> changed \cap Geometry # {}, ordering |-> changed \cap Level # {}]

\* The configuration is loaded; bar_manager_begin paints the first frame.
Init ==
  /\ pos \in Placements
  /\ len \in {l \in [Items -> UNION {Lengths[i] : i \in Items}] :
                \A i \in Items : l[i] \in Lengths[i]}
  /\ x = [i \in Items |-> 0]
  /\ leaves = Closed
  /\ bounds = [h \in Hosts |-> NoBounds]
  /\ dirty = TRUE /\ setup \in {Flagged(S) : S \in SUBSET (Geometry \cup Level)}
  /\ height = BaseH /\ shape = BaseH
  /\ resize = FALSE
  /\ clears = 0
  /\ screen = Blank
  /\ count = [i \in Items |-> 0]
  /\ acts = 0

-----------------------------------------------------------------------------
(* Layout: bar_calculate_bounds *)

Section(i) == {j \in Items : pos[j] = pos[i]}
Advance(l, S) == MapThenSumSet(LAMBDA j : l[j] + BgRight[j], S)
Centered == {i \in Items : pos[i] = "center"}
RightAnchored(i) == pos[i] \in {"right", "center_left"}

First(l, p) ==
  CASE p = "left" -> 0
    [] p = "right" -> BarW
    [] p = "center" -> (BarW - Advance(l, Centered)) \div 2
    [] p = "center_right" -> (BarW + NotchW) \div 2
    [] p = "center_left" -> (BarW - NotchW) \div 2

\* Mutant: the slots that shrink are walked forwards too.
PlacedForwards(l, i) ==
  IF RightAnchored(i)
  THEN First(l, pos[i])
       - Advance(l, {j \in Section(i) : Place(j) <= Place(i)})
  ELSE First(l, pos[i]) + PadLeft[i]
       + Advance(l, {j \in Section(i) : Place(j) < Place(i)})

\* Left and centre slots grow from the first item; right-anchored ones are
\* filled backwards and shrink.  The left padding moves the item and not the
\* cursor of its section.
Placed(l, i) ==
  IF RightAnchored(i)
  THEN First(l, pos[i])
       - Advance(l, {j \in Section(i) : Place(j) >= Place(i)})
  ELSE First(l, pos[i]) + PadLeft[i]
       + Advance(l, {j \in Section(i) : Place(j) < Place(i)})

-----------------------------------------------------------------------------
(* Refresh: bar_manager_refresh, bar_draw, window_apply_frame *)

PopupHeight == Max({leaves[h] * CellH : h \in Hosts} \cup {0})

\* Mutant: a popup hangs from the bottom of the window.
AnchorAtBottom == height

Anchor == BaseH

\* Mutant: the window never shrinks.
TargetHeightGrowing == Max({height, BaseH + PopupHeight})

TargetHeight == BaseH + PopupHeight

\* popup_calculate_bounds, for the open ones
PopupBounds(l) == [h \in Hosts |->
  IF leaves[h] > 0
  THEN [x |-> Placed(l, h), y |-> Anchor, rows |-> leaves[h]]
  ELSE bounds[h]]

\* popup_draw: an open popup is laid out and its rows are drawn.
PopupPicture(l) ==
  [h \in Hosts |-> IF leaves[h] > 0 THEN PopupBounds(l)[h] ELSE NoBounds]

Picture(l) ==
  [blank |-> FALSE, x |-> [i \in Items |-> Placed(l, i)], len |-> l,
   bounds |-> PopupPicture(l)]

\* The window server gets the frame; a resize clears the window later.
ApplyFrame(h, pending) ==
  /\ shape' = h
  /\ clears' = IF pending THEN clears + 1 ELSE clears

\* Only recorded: the next draw applies it.
SetFrame(h, from, pending) ==
  /\ height' = h
  /\ resize' = (pending \/ h # from)

\* Apply the frame that is recorded, paint, and record the frame that covers
\* the open popups.
Draw(l, h, pending) ==
  /\ ApplyFrame(h, pending)
  /\ bounds' = PopupBounds(l)
  /\ screen' = Picture(l)
  /\ SetFrame(TargetHeight, h, FALSE)

\* The resize pass puts the bar back to its base frame, the draw pass lays
\* out and paints, the ordering pass asks for one more draw.
Refresh(l, needed) ==
  LET h == IF setup.resize THEN BaseH ELSE height IN
  /\ IF needed \/ setup.resize
     THEN /\ x' = [i \in Items |-> Placed(l, i)]
          /\ Draw(l, h, resize \/ h # height)
     ELSE UNCHANGED <<x, bounds, window>>
  /\ dirty' = setup.ordering
  /\ setup' = [resize |-> FALSE, ordering |-> FALSE]

\* The item's parts are measured again.
Measured(i) == \E n \in Lengths[i] : len' = [len EXCEPT ![i] = n]

Due == {i \in Items : Interval[i] > 0 /\ count[i] + 1 >= Interval[i]}

\* animation_frame_callback, bar_manager_handle_scroll_tick: count, update
\* what is due (its text may have changed), repaint.
Tick ==
  /\ count' = [i \in Items |->
       IF i \in Due \/ Interval[i] = 0 THEN 0 ELSE count[i] + 1]
  /\ \/ UNCHANGED <<len, acts>>
     \/ /\ acts < MaxActs /\ acts' = acts + 1
        /\ \E i \in Due : Measured(i)
  /\ Refresh(len', dirty \/ Due # {})
  /\ UNCHANGED <<pos, leaves>>

\* window_defer_update's block
DeferredClear ==
  /\ clears > 0 /\ clears' = clears - 1
  /\ screen' = [screen EXCEPT !.blank = TRUE]
  /\ UNCHANGED <<pos, len, x, leaves, bounds, dirty, setup, height, resize,
                 shape, count, acts>>

-----------------------------------------------------------------------------
(* Events *)

Acts == acts < MaxActs /\ acts' = acts + 1

\* Mutant: the handler updates the items and does not flag the redraw.
ItemChangedQuietly(i) ==
  /\ Acts
  /\ Measured(i)
  /\ UNCHANGED <<pos, x, leaves, bounds, dirty, setup, window, count>>

\* bar_manager_update_items for an item whose mask the event is in.
ItemChanged(i) ==
  /\ Acts
  /\ Measured(i)
  /\ dirty' = TRUE
  /\ UNCHANGED <<pos, x, leaves, bounds, setup, window, count>>

\* bar_manager_handle_display: the bar goes back to its base frame.
DisplayMoved ==
  /\ Acts
  /\ SetFrame(BaseH, height, resize)
  /\ dirty' = TRUE
  /\ UNCHANGED <<pos, len, x, leaves, bounds, setup, shape, clears, screen, count>>

-----------------------------------------------------------------------------
(* Presses: mouse_tap_callback, bar_manager_handle_mouse_down *)

InPopup(h, px, py) ==
  /\ leaves[h] > 0 /\ bounds[h] # NoBounds
  /\ px \in bounds[h].x .. bounds[h].x + PopupW - 1
  /\ py \in bounds[h].y .. bounds[h].y + bounds[h].rows * CellH - 1

OnBar(px, py) == px \in 0 .. BarW - 1 /\ py \in 0 .. height - 1
UnderItem(i, px) == px \in x[i] .. x[i] + len[i]

PopupsAt(px, py) == {h \in Hosts : OnBar(px, py) /\ InPopup(h, px, py)}
ItemsAt(px, py) == {i \in Items : OnBar(px, py) /\ UnderItem(i, px)}
FirstOf(S) == CHOOSE i \in S : \A j \in S : Place(i) <= Place(j)

\* popup_item_at: the first row, top down, that reaches py
RowAt(h, py) == Min({k \in 1 .. bounds[h].rows :
                       py <= bounds[h].y + k * CellH})

\* A leaf performs its command and closes its popup, or does nothing.
PressLeaf(px, py) ==
  /\ PopupsAt(px, py) # {}
  /\ leaves' \in {leaves,
       [leaves EXCEPT ![FirstOf(PopupsAt(px, py))] = 0]}
  /\ UNCHANGED bounds

\* bar_item_app_menu_open: the popup is rebuilt, also when it is open.
Open(h) ==
  /\ \E n \in 1 .. MaxLeaves : leaves' = [leaves EXCEPT ![h] = n]
  /\ bounds' = [bounds EXCEPT ![h] = NoBounds]

\* Items are looked up by x alone.
PressItem(px, py) ==
  /\ PopupsAt(px, py) = {} /\ ItemsAt(px, py) # {}
  /\ LET i == FirstOf(ItemsAt(px, py)) IN
     IF i \in Hosts THEN Open(i) ELSE UNCHANGED <<leaves, bounds>>

PressOutside(px, py) ==
  /\ PopupsAt(px, py) = {} /\ ItemsAt(px, py) = {}
  /\ leaves' = Closed
  /\ UNCHANGED bounds

Points == (-1 .. BarW) \X (0 .. BaseH + MaxLeaves * CellH)

Press ==
  /\ Acts
  /\ \E p \in Points : \/ PressLeaf(p[1], p[2])
                       \/ PressItem(p[1], p[2])
                       \/ PressOutside(p[1], p[2])
  /\ dirty' = TRUE
  /\ UNCHANGED <<pos, len, x, setup, window, count>>

Next ==
  \/ Tick \/ DeferredClear \/ DisplayMoved \/ Press
  \/ \E i \in Items : ItemChanged(i)

\* The display link ticks and the main queue runs its blocks.
Spec == Init /\ [][Next]_vars /\ WF_vars(Tick) /\ WF_vars(DeferredClear)

-----------------------------------------------------------------------------
(* Properties *)

\* Types, and the window's frame follows the popups: once painted it covers
\* the tallest open one and nothing more, and a frame the window server does
\* not have yet is flagged.
WindowOK ==
  /\ \A h \in Hosts : leaves[h] \in 0 .. MaxLeaves
  /\ dirty \in BOOLEAN /\ resize \in BOOLEAN /\ clears \in Nat
  /\ height # shape => resize
  /\ ~dirty => height = BaseH + PopupHeight

\* "Walking those slots backwards is what makes a right-hand group read in
\* ascending order from left to right" (bar.c:300): in every section the
\* items stand in the order of the configuration.  Right-anchored ones do not
\* overlap; of the others the first reaches into the second by no more than
\* its left padding is the larger (bar.c:332 does not move the cursor by it).
Overlap(i, j) == IF RightAnchored(i) THEN 0 ELSE PadLeft[i] - PadLeft[j]

InOrder ==
  ~dirty => \A i, j \in Items :
    pos[i] = pos[j] /\ Place(i) < Place(j) =>
      x[i] <= x[j] /\ x[i] + len[i] <= x[j] + Overlap(i, j)

OpenHosts == {h \in Hosts : leaves[h] > 0}
Settled == ~dirty /\ ~resize /\ ~screen.blank

\* The popups painted over a point, and the one on top: painted last.
PaintedAt(px, py) == {h \in Hosts :
  /\ screen.bounds[h] # NoBounds /\ py < shape
  /\ px \in screen.bounds[h].x .. screen.bounds[h].x + PopupW - 1
  /\ py \in screen.bounds[h].y ..
             screen.bounds[h].y + screen.bounds[h].rows * CellH - 1}
LastOf(S) == CHOOSE i \in S : \A j \in S : Place(j) <= Place(i)

RowShown(h, py) ==
  LET top == screen.bounds[h].y + (RowAt(h, py) - 1) * CellH
  IN py \in top .. top + CellH

\* A press does what the screen shows, although it is looked up in the tables
\* of now and not in what was painted.  With nothing left to repaint and one
\* popup at most, the row it would perform is painted at the point, on top and
\* inside the window, and an item it would press is painted in the point's
\* column: on the bar, if no popup is open.  With one open the point can lie
\* beside it and below the bar, where nothing is painted and the item above
\* is pressed (bar_manager.c:276).
HitsShown ==
  Settled /\ Cardinality(OpenHosts) <= 1 =>
    \A p \in Points :
      /\ PopupsAt(p[1], p[2]) # {} =>
           LET h == FirstOf(PopupsAt(p[1], p[2])) IN
           /\ PaintedAt(p[1], p[2]) # {} /\ h = LastOf(PaintedAt(p[1], p[2]))
           /\ RowShown(h, p[2])
      /\ \A i \in ItemsAt(p[1], p[2]) :
           p[1] \in screen.x[i] .. screen.x[i] + screen.len[i]
      /\ ItemsAt(p[1], p[2]) # {} /\ OpenHosts = {} => p[2] < BaseH

\* The screen shows the items and the open popups as they are, whole.
Shown ==
  /\ ~screen.blank
  /\ screen.x = x /\ screen.len = len
  /\ \A h \in Hosts :
       IF leaves[h] = 0 THEN screen.bounds[h] = NoBounds
       ELSE /\ screen.bounds[h] # NoBounds
            /\ screen.bounds[h].rows = leaves[h]
            /\ screen.bounds[h].y + leaves[h] * CellH <= shape
  /\ shape = BaseH + PopupHeight

\* Every change is on the screen in the end and stays there, although each
\* resize takes two draws and wipes the second: as long as some item has an
\* update_interval.
EventuallyShown == <>[]Shown

=============================================================================
