------------------------------ MODULE SpaceSync ------------------------------
(***************************************************************************)
(* How the bars follow the spaces (virtual desktops) of their displays:    *)
(* workspace.m turns notifications of the window server into               *)
(* EVENT_SPACE_CHANGED, bar_manager.c applies it to the bars and re-reads  *)
(* the spaces once a second, bar.c keeps the chip list of each space item  *)
(* and paints it.  A space item is one object that every bar drawing it    *)
(* shares.  display.c answers where the displays and spaces are at the     *)
(* moment.  All of this runs on the main thread, one event at a time.      *)
(***************************************************************************)
EXTENDS Integers, Sequences, FiniteSets, SequencesExt

CONSTANTS
  Displays,
  Items,         \* the space items of the configuration
  DrawnOn,       \* item -> the bits of its associated_display mask (0: all of them)
  Spaces,        \* space ids
  InitSpaces,    \* the spaces of each display at startup, in order
  MaxSpaces,     \* OMABAR_MAX_SPACES
  MaxChanges,    \* bound: what the user and the window server do
  NoSpace        \* space id 0

ASSUME ConstantsAssumption ==
  /\ IsFiniteSet(Displays)
  /\ DrawnOn \in [Items -> SUBSET Nat]
  /\ InitSpaces \in [Displays -> Seq(Spaces)]
  /\ \A d \in Displays : IsInjective(InitSpaces[d])
  /\ MaxSpaces \in Nat \ {0} /\ MaxChanges \in Nat
  /\ NoSpace \notin Spaces

VARIABLES
  displays,      \* the connected displays, in the order of SLSCopyManagedDisplays
  spaces,        \* per display: its spaces, in order (SLSCopyManagedDisplaySpaces)
  current,       \* per display: the space it shows
  changes,       \* how much has happened in the world so far
  notes,         \* callbacks the window server has still to make, in order
  log,           \* g_space_log: last-known space per display, NoSpace if unseen
  bars,          \* bm->bars: display, arrangement id, believed space, spaces_synced
  chips,         \* per item: space_ids[0 .. space_count - 1]
  selected,      \* per item: item->selected
  dirty,         \* bm->bar_needs_update
  painted        \* per display: what its bar shows, as painted last

world == <<displays, spaces, current, changes>>
vars == <<world, notes, log, bars, chips, selected, dirty, painted>>

-----------------------------------------------------------------------------
(* What the window server answers (display.c) *)

active == Range(displays)

\* 0 for a display that is gone.
ArrangementId(d) ==
  IF d \in active THEN CHOOSE i \in DOMAIN displays : displays[i] = d ELSE 0

\* For a display that is gone it is the space of the one that has the focus.
SpaceId(d, focus) == IF d \in active THEN current[d] ELSE current[focus]

SpaceList(d) == IF d \in active THEN spaces[d] ELSE <<>>

\* The first display that shows the space or has it in its list.
Hosts(sid) == {d \in active : current[d] = sid \/ Contains(spaces[d], sid)}

IsHost(d, sid) ==
  d \in Hosts(sid) /\ \A e \in Hosts(sid) : ArrangementId(d) <= ArrangementId(e)

-----------------------------------------------------------------------------
Blank == [sid |-> NoSpace, chips |-> <<>>]

\* Mutant: spaces_synced is not initialised.
NewBarUnset(d) == [did |-> d, adid |-> ArrangementId(d), sid |-> NoSpace, synced |-> NoSpace]

\* The arrangement id is read once.
NewBar(d) == [did |-> d, adid |-> ArrangementId(d), sid |-> NoSpace, synced |-> FALSE]

\* The items a bar draws, and syncs.
Draws(bar, it) == bar.adid \in DrawnOn[it]

\* The first scan of the displays enters them all in the log.
Logged == [d \in Displays |-> IF d \in active THEN current[d] ELSE NoSpace]

Init ==
  /\ \E ds \in SUBSET Displays \ {{}} : displays \in SetToSeqs(ds)
  /\ spaces = InitSpaces
  /\ current \in [Displays -> Spaces]
  /\ \A d \in Displays : Contains(spaces[d], current[d])
  /\ changes = 0
  /\ notes = <<>>
  /\ log = Logged
  /\ \E order \in SetToSeqs(active) :
       bars = [i \in DOMAIN order |-> NewBar(order[i])]
  /\ chips = [it \in Items |-> <<>>]
  /\ selected = [it \in Items |-> FALSE]
  /\ dirty = TRUE
  /\ painted = [d \in Displays |-> Blank]

-----------------------------------------------------------------------------
(* The user and the window server *)

Happens == changes < MaxChanges /\ changes' = changes + 1

\* A space change raises a notification, or none: switching through
\* SLSManagedDisplaySetCurrentSpace and some keyboard shortcuts do not.
Notified(note) == notes' \in {notes, Append(notes, note)}

Show(d, s) ==
  /\ current' = [current EXCEPT ![d] = s]
  /\ Notified(<<"space", d>>)
  /\ UNCHANGED <<displays, spaces, log, bars, chips, selected, dirty, painted>>

Switch(d) ==
  /\ Happens
  /\ d \in active
  /\ \E s \in Range(spaces[d]) \ {current[d]} : Show(d, s)

CreateSpace(d) ==
  /\ Happens
  /\ d \in active
  /\ \E s \in Spaces :
       /\ \A e \in Displays : ~Contains(spaces[e], s)
       /\ spaces' = [spaces EXCEPT ![d] = Append(@, s)]
  /\ notes' = Append(notes, <<"space", d>>)
  /\ UNCHANGED <<displays, current, log, bars, chips, selected, dirty, painted>>

Plug(d) ==
  /\ Happens
  /\ d \notin active
  /\ \E i \in 1 .. Len(displays) + 1 : displays' = InsertAt(displays, i, d)
  /\ notes' = Append(notes, <<"added", d>>)
  /\ UNCHANGED <<spaces, current, log, bars, chips, selected, dirty, painted>>

Unplug(d) ==
  /\ Happens
  /\ d \in active /\ active # {d}
  /\ \E i \in DOMAIN displays : displays[i] = d /\ displays' = RemoveAt(displays, i)
  /\ notes' = Append(notes, <<"removed", d>>)
  /\ UNCHANGED <<spaces, current, log, bars, chips, selected, dirty, painted>>

Arrange(d) ==
  /\ Happens
  /\ d \in active
  /\ displays' \in SetToSeqs(active) \ {displays}
  /\ notes' = Append(notes, <<"moved", d>>)
  /\ UNCHANGED <<spaces, current, log, bars, chips, selected, dirty, painted>>

-----------------------------------------------------------------------------
(* bar_item_sync_spaces and bar_sync_space_items *)

\* Mutant: a space that is not in the list is left out.
ChipsForListed(d, sid) ==
  SubSeq(SpaceList(d), 1,
         IF Len(SpaceList(d)) < MaxSpaces THEN Len(SpaceList(d)) ELSE MaxSpaces)

\* The chip list re-read for a bar whose space is sid; a space that is not in
\* it replaces the first chip.
ChipsFor(d, sid) ==
  LET list == SpaceList(d)
      ids == IF list = <<>> THEN <<sid>>
             ELSE SubSeq(list, 1, IF Len(list) < MaxSpaces THEN Len(list) ELSE MaxSpaces)
  IN  IF Contains(ids, sid) THEN ids ELSE [ids EXCEPT ![1] = sid]

Synced(ch, bar) ==
  [it \in Items |-> IF Draws(bar, it) THEN ChipsFor(bar.did, bar.sid) ELSE ch[it]]

\* The chip lists after as many bars, in order: those in need are synced.
SyncAll(ch, bs, need) ==
  LET after[i \in 0 .. Len(bs)] ==
        IF i = 0 THEN ch
        ELSE IF need[i] THEN Synced(after[i - 1], bs[i]) ELSE after[i - 1]
  IN  after

Select(bs, need) ==
  [it \in Items |->
     selected[it] \/ \E i \in DOMAIN bs : need[i] /\ Draws(bs[i], it)]

-----------------------------------------------------------------------------
(* The next callback is of this kind: it posts its event, which is handled. *)

Called(kind) == notes # <<>> /\ Head(notes)[1] = kind /\ notes' = Tail(notes)

-----------------------------------------------------------------------------
(* bar_manager_handle_space_changed: the event's space goes to every bar *)

SpaceChanged(s) ==
  LET bs == [i \in DOMAIN bars |-> [bars[i] EXCEPT !.sid = s]]
      all == [i \in DOMAIN bars |-> TRUE]
  IN  /\ bars' = bs
      /\ chips' = SyncAll(chips, bs, all)[Len(bs)]
      /\ selected' = Select(bs, all)
      /\ dirty' = TRUE

\* workspace.m: the callbacks scan the active displays and post the event for
\* the first one, in the order of the scan, whose space differs from the log.
\* Displays scanned for the first time are only entered in the log.
Moved(d) == d \in active /\ log[d] \notin {NoSpace, current[d]}

Seeded(unscanned) ==
  [d \in Displays |-> IF d \in active \ unscanned /\ log[d] = NoSpace
                        THEN current[d] ELSE log[d]]

SpaceNote ==
  /\ Called("space")
  /\ \/ /\ \A d \in Displays : ~Moved(d)
        /\ log' = Seeded({})
        /\ UNCHANGED <<bars, chips, selected, dirty>>
     \/ \E d \in Displays, unscanned \in SUBSET active :
        /\ Moved(d)
        /\ log' = [Seeded(unscanned) EXCEPT ![d] = current[d]]
        /\ SpaceChanged(current[d])
  /\ UNCHANGED <<world, painted>>

-----------------------------------------------------------------------------
(* bar_manager_handle_display *)

HasBar(d) == \E i \in DOMAIN bars : bars[i].did = d

DisplayAdded ==
  /\ Called("added")
  /\ LET d == Head(notes)[2]
     IN  IF HasBar(d) THEN UNCHANGED <<bars, dirty>>
         ELSE bars' = Append(bars, NewBar(d)) /\ dirty' = TRUE
  /\ UNCHANGED <<world, log, chips, selected, painted>>

\* Mutant: the last bar is copied into the hole and not removed.
DisplayRemovedCopied ==
  /\ Called("removed")
  /\ LET d == Head(notes)[2]
         n == Len(bars)
     IN  /\ bars' = [i \in 1 .. n |-> IF bars[i].did = d THEN bars[n] ELSE bars[i]]
         /\ painted' = [painted EXCEPT ![d] = Blank]
  /\ dirty' = TRUE
  /\ UNCHANGED <<world, log, chips, selected>>

\* bar_destroy_for_display; buf_del moves the last bar into the hole.
DisplayRemoved ==
  /\ Called("removed")
  /\ LET d == Head(notes)[2]
         n == Len(bars)
     IN  /\ bars' = IF \E i \in 1 .. n : bars[i].did = d
                      THEN LET i == CHOOSE j \in 1 .. n : bars[j].did = d
                           IN  SubSeq([bars EXCEPT ![i] = bars[n]], 1, n - 1)
                      ELSE bars
         /\ painted' = [painted EXCEPT ![d] = Blank]
  /\ dirty' = TRUE
  /\ UNCHANGED <<world, log, chips, selected>>

-----------------------------------------------------------------------------
(* A display has moved: its bar's frame is set again (BarWindow), and the
   arrangement id stays. *)

DisplayMoved ==
  /\ Called("moved")
  /\ dirty' = TRUE
  /\ UNCHANGED <<world, log, bars, chips, selected, painted>>

-----------------------------------------------------------------------------
(* bar_manager_refresh: bar_calculate_bounds and bar_draw, bar after bar *)

Paints(bar, d) == bar.did = d /\ bar.adid >= 1

Picture(bar, ch) ==
  [sid |-> bar.sid, chips |-> [it \in {it \in Items : Draws(bar, it)} |-> ch[it]]]

\* A bar not synced yet reads its space and syncs before it is drawn; the bars
\* drawn before it have the item's chips as they were.  A bar without an
\* arrangement id is passed over.
Refresh(bs, ch, sel, focus) ==
  \E fresh \in {[i \in DOMAIN bs |-> bs[i].adid >= 1 /\ ~bs[i].synced]} :
    /\ bars' = [i \in DOMAIN bs |->
                  IF fresh[i]
                    THEN [bs[i] EXCEPT !.sid = SpaceId(bs[i].did, focus), !.synced = TRUE]
                    ELSE bs[i]]
    /\ selected' = [it \in Items |->
                      sel[it] \/ \E i \in DOMAIN bs : fresh[i] /\ Draws(bs[i], it)]
    /\ \E at \in {SyncAll(ch, bars', fresh)} :
         /\ chips' = at[Len(bs)]
         /\ painted' =
              [d \in Displays |->
                 IF \E i \in DOMAIN bs : Paints(bs[i], d)
                   THEN LET i == CHOOSE j \in DOMAIN bs : Paints(bs[j], d)
                        IN  Picture(bars'[i], at[i])
                   ELSE painted[d]]

Tick ==
  /\ dirty /\ dirty' = FALSE
  /\ UNCHANGED <<world, notes, log>>
  /\ \E focus \in active : Refresh(bars, chips, selected, focus)

Stale(bar, focus) == bar.adid >= 1 /\ bar.sid # SpaceId(bar.did, focus)

Reread(focus) ==
  [i \in DOMAIN bars |-> IF Stale(bars[i], focus)
                           THEN [bars[i] EXCEPT !.sid = SpaceId(bars[i].did, focus)]
                           ELSE bars[i]]

\* Mutants of the next action: the spaces are not re-read; they are, but the
\* chip lists are left alone.
SecondTickBlind == Tick

SecondTickUnsynced ==
  /\ dirty' = FALSE
  /\ UNCHANGED <<world, notes, log>>
  /\ \E focus \in active :
       /\ dirty \/ Reread(focus) # bars
       /\ Refresh(Reread(focus), chips, selected, focus)

\* Every sixtieth tick: the bars whose display shows another space are
\* re-synced, then the refresh.
SecondTick ==
  /\ dirty' = FALSE
  /\ UNCHANGED <<world, notes, log>>
  /\ \E focus \in active :
     \E stale \in {[i \in DOMAIN bars |-> Stale(bars[i], focus)]}, bs \in {Reread(focus)} :
       /\ dirty \/ \E i \in DOMAIN bars : stale[i]
       /\ \E ch \in {SyncAll(chips, bs, stale)[Len(bs)]} :
            Refresh(bs, ch, Select(bs, stale), focus)

-----------------------------------------------------------------------------
(* bar_item_space_clicked on a chip of item it in a bar that draws it *)

Click(bar, it) ==
  /\ Happens
  /\ Draws(bar, it)
  /\ \E k \in DOMAIN chips[it], host \in active :
       /\ IsHost(host, chips[it][k]) /\ current[host] # chips[it][k]
       /\ Show(host, chips[it][k])

-----------------------------------------------------------------------------
Callback == SpaceNote \/ DisplayAdded \/ DisplayRemoved \/ DisplayMoved

Next ==
  \/ \E d \in Displays : Switch(d) \/ CreateSpace(d) \/ Plug(d) \/ Unplug(d) \/ Arrange(d)
  \/ \E i \in DOMAIN bars, it \in Items : Click(bars[i], it)
  \/ Callback
  \/ Tick \/ SecondTick

Spec == Init /\ [][Next]_vars

\* The main thread makes the callbacks and the display link keeps ticking.
Fairness == WF_vars(Callback) /\ WF_vars(SecondTick)

FairSpec == Spec /\ Fairness

-----------------------------------------------------------------------------
(* Properties *)

TypeOK ==
  /\ displays \in Seq(Displays) /\ IsInjective(displays)
  /\ spaces \in [Displays -> Seq(Spaces)]
  /\ current \in [Displays -> Spaces]
  /\ changes \in 0 .. MaxChanges
  /\ notes \in Seq({"space", "added", "removed", "moved"} \X Displays)
  /\ log \in [Displays -> Spaces \cup {NoSpace}]
  /\ bars \in Seq([did : Displays, adid : Nat,
                   sid : Spaces \cup {NoSpace}, synced : BOOLEAN])
  /\ chips \in [Items -> Seq(Spaces \cup {NoSpace})]
  /\ \A it \in Items : Len(chips[it]) <= MaxSpaces
  /\ selected \in [Items -> BOOLEAN]
  /\ dirty \in BOOLEAN
  /\ DOMAIN painted = Displays
  /\ \A d \in Displays :
       /\ DOMAIN painted[d] = {"sid", "chips"}
       /\ painted[d].sid \in Spaces \cup {NoSpace}
       /\ DOMAIN painted[d].chips \subseteq Items
       /\ \A it \in DOMAIN painted[d].chips :
            painted[d].chips[it] \in Seq(Spaces \cup {NoSpace})

\* One bar per display that has one, whatever order displays come and go in.
BarsDistinct == \A i, j \in DOMAIN bars : bars[i].did = bars[j].did => i = j

\* Two bars draw an item: its mask names both, or their arrangement ids, each
\* read when its bar was made, have become the same.
Shared ==
  \E i, j \in DOMAIN bars, it \in Items : i # j /\ Draws(bars[i], it) /\ Draws(bars[j], it)

Highlighted(d, it) ==
  {k \in DOMAIN painted[d].chips[it] : painted[d].chips[it][k] = painted[d].sid}

\* "exactly one chip is selected and the rest are not" (bar.c:211-212) and "Never
\* present a strip with nothing highlighted" (bar.c:229): what every bar paints, as
\* long as no item is drawn by two bars.
OneHighlighted ==
  []~Shared =>
    [](\A d \in Displays : \A it \in DOMAIN painted[d].chips :
         Cardinality(Highlighted(d, it)) = 1)

\* The bars follow the displays: when the displays stop changing, one bar is left
\* per connected display and it shows that display's space, notified or not
\* (bar_manager.c:197-202).
Follows ==
  <>[](/\ {bars[i].did : i \in DOMAIN bars} = active
       /\ \A d \in active : painted[d].sid = current[d])

\* "Space changes keep the cache current through bar_sync_space_items()"
\* (bar.c:246-247): the chips painted end up the spaces of the display, in
\* order, if the strip has room for them.  That holds of the spaces there were
\* at the start: one that is created is missing from the end of the strip until
\* the display's current space changes.
ChipsCurrent ==
  []~Shared =>
    <>[](\A d \in active : \A it \in DOMAIN painted[d].chips :
           Len(spaces[d]) <= MaxSpaces =>
             /\ IsPrefix(painted[d].chips[it], spaces[d])
             /\ IsPrefix(InitSpaces[d], painted[d].chips[it])
             /\ Contains(painted[d].chips[it], current[d]))
=============================================================================
