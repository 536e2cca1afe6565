--------------------------- MODULE SpaceSyncProofs --------------------------
(***************************************************************************)
(* The bars, for any displays, spaces, items and masks, whatever           *)
(* notifications arrive late or not at all and however displays are        *)
(* rearranged: there is never more than one bar for a display, no strip is *)
(* longer than it may be, and as long as no item is drawn by two bars      *)
(* every strip that is painted has one chip highlighted.                   *)
(***************************************************************************)
EXTENDS SpaceSync, FiniteSetTheorems, WellFoundedInduction, TLAPS

Bar == [did : Displays, adid : Nat, sid : Spaces \cup {NoSpace}, synced : BOOLEAN]
Kinds == {"space", "added", "removed", "moved"}
Note == Kinds \X Displays

\* The part of TypeOK that bars and notifications need.
WorldOK ==
  /\ displays \in Seq(Displays) /\ IsInjective(displays)
  /\ spaces \in [Displays -> Seq(Spaces)]
  /\ current \in [Displays -> Spaces]
  /\ notes \in Seq(Note)
  /\ bars \in Seq(Bar)

Inv == WorldOK /\ BarsDistinct

-----------------------------------------------------------------------------
(* What the window server answers *)

\* An order of a set names each of its members once.
LEMMA Ordered ==
  ASSUME NEW S \in SUBSET Displays, NEW order \in SetToSeqs(S)
  PROVE  order \in Seq(Displays) /\ IsInjective(order) /\ \A i \in DOMAIN order : order[i] \in S
<1>1. Cardinality(S) \in Nat
  BY ConstantsAssumption, FS_Subset, FS_CardinalityType
<1>2. /\ order \in [1 .. Cardinality(S) -> S]
      /\ \A i, j \in 1 .. Cardinality(S) : i # j => order[i] # order[j]
  BY Zenon DEF SetToSeqs
<1>3. QED
  BY <1>1, <1>2 DEF IsInjective

LEMMA Active ==
  ASSUME displays \in Seq(Displays)
  PROVE  active \in SUBSET Displays /\ \A d : ArrangementId(d) \in Nat
<1>1. active \in SUBSET Displays
  BY DEF active, Range
<1>2. ASSUME NEW d, d \in active
      PROVE  ArrangementId(d) \in Nat
  <2>1. \E i \in DOMAIN displays : displays[i] = d
    BY <1>2 DEF active, Range
  <2>2. ArrangementId(d) \in DOMAIN displays
    BY <1>2, <2>1 DEF ArrangementId
  <2>3. QED
    BY <2>2
<1>3. QED
  BY <1>1, <1>2 DEF ArrangementId

LEMMA Answers ==
  ASSUME WorldOK, NEW d \in Displays
  PROVE  /\ \A focus \in active : SpaceId(d, focus) \in Spaces
         /\ SpaceList(d) \in Seq(Spaces)
         /\ SpaceList(d) = spaces[d] \/ SpaceList(d) = <<>>
         /\ NewBar(d) \in Bar /\ NewBar(d).did = d
<1>1. active \in SUBSET Displays /\ ArrangementId(d) \in Nat
  BY Active DEF WorldOK
<1>2. \A e \in Displays : current[e] \in Spaces /\ spaces[e] \in Seq(Spaces)
  BY DEF WorldOK
<1>3. QED
  BY <1>1, <1>2 DEF SpaceId, SpaceList, NewBar, Bar

LEMMA Initially == Init => Inv
<1> SUFFICES ASSUME Init
             PROVE  Inv
  OBVIOUS
<1>1. PICK ds \in SUBSET Displays : displays \in SetToSeqs(ds)
  BY DEF Init
<1>2. displays \in Seq(Displays) /\ IsInjective(displays)
  BY <1>1, Ordered
<1>3. active \in SUBSET Displays
  BY <1>2, Active
<1>4. PICK order \in SetToSeqs(active) : bars = [i \in DOMAIN order |-> NewBar(order[i])]
  BY DEF Init
<1>5. order \in Seq(Displays) /\ IsInjective(order)
  BY <1>3, Ordered
<1>6. \A i \in DOMAIN order : NewBar(order[i]) \in Bar /\ NewBar(order[i]).did = order[i]
  BY <1>2, <1>5, Active DEF NewBar, Bar
<1>7. DOMAIN order = 1 .. Len(order) /\ Len(order) \in Nat
  BY <1>5
<1>8. bars \in [1 .. Len(order) -> Bar]
  BY <1>4, <1>6, <1>7
<1>9. bars \in Seq(Bar)
  BY <1>7, <1>8
<1>10. BarsDistinct
  BY <1>4, <1>5, <1>6 DEF BarsDistinct, IsInjective
<1>11. QED
  BY <1>2, <1>9, <1>10, ConstantsAssumption DEF Init, Inv, WorldOK

\* bars are changed in place: their displays and arrangement ids stay.
SameBars(bs) ==
  /\ bs \in Seq(Bar) /\ DOMAIN bs = DOMAIN bars
  /\ \A i \in DOMAIN bars : bs[i].did = bars[i].did /\ bs[i].adid = bars[i].adid

LEMMA SameDistinct ==
  ASSUME BarsDistinct, SameBars(bars')
  PROVE  BarsDistinct'
BY DEF BarsDistinct, SameBars

LEMMA Rebuilt ==
  ASSUME WorldOK, NEW new, DOMAIN new = DOMAIN bars, new = [i \in DOMAIN bars |-> new[i]],
         \A i \in DOMAIN bars :
           new[i] \in Bar /\ new[i].did = bars[i].did /\ new[i].adid = bars[i].adid
  PROVE  SameBars(new)
<1>1. DOMAIN bars = 1 .. Len(bars) /\ Len(bars) \in Nat
  BY DEF WorldOK
<1>2. new \in [1 .. Len(bars) -> Bar]
  BY <1>1
<1>3. new \in Seq(Bar)
  BY <1>1, <1>2
<1>4. QED
  BY <1>3 DEF SameBars

\* The bars of a re-read (SecondTick), of a space change and of a refresh.
Told(s) == [i \in DOMAIN bars |-> [bars[i] EXCEPT !.sid = s]]
All == [i \in DOMAIN bars |-> TRUE]
StaleBars(focus) == [i \in DOMAIN bars |-> Stale(bars[i], focus)]
Fresh(bs) == [i \in DOMAIN bs |-> bs[i].adid >= 1 /\ ~bs[i].synced]
Drawn(bs, focus) ==
  [i \in DOMAIN bs |->
     IF Fresh(bs)[i] THEN [bs[i] EXCEPT !.sid = SpaceId(bs[i].did, focus), !.synced = TRUE]
     ELSE bs[i]]

LEMMA ToldBars ==
  ASSUME WorldOK, NEW s \in Spaces
  PROVE  SameBars(Told(s))
<1> DEFINE new == Told(s)
<1>1. \A i \in DOMAIN bars : bars[i] \in Bar
  BY DEF WorldOK
<1>2. /\ new = [i \in DOMAIN bars |-> new[i]] /\ DOMAIN new = DOMAIN bars
      /\ \A i \in DOMAIN bars :
           new[i] \in Bar /\ new[i].did = bars[i].did /\ new[i].adid = bars[i].adid
  BY <1>1 DEF Bar, Told
<1> HIDE DEF new
<1>3. SameBars(new)
  BY <1>2, Rebuilt
<1>4. QED
  BY <1>3 DEF new

LEMMA RereadBars ==
  ASSUME WorldOK, NEW focus \in active
  PROVE  /\ SameBars(Reread(focus))
         /\ \A i \in DOMAIN bars :
              /\ Reread(focus)[i].synced = bars[i].synced
              /\ ~StaleBars(focus)[i] => Reread(focus)[i].sid = bars[i].sid
<1> DEFINE new == Reread(focus)
<1>1. ASSUME NEW i \in DOMAIN bars
      PROVE  bars[i] \in Bar /\ SpaceId(bars[i].did, focus) \in Spaces
  <2>1. bars[i] \in Bar
    BY DEF WorldOK
  <2>2. bars[i].did \in Displays
    BY <2>1 DEF Bar
  <2>3. QED
    BY <2>1, <2>2, Answers
<1>2. /\ new = [i \in DOMAIN bars |-> new[i]] /\ DOMAIN new = DOMAIN bars
      /\ \A i \in DOMAIN bars :
           /\ new[i] \in Bar /\ new[i].did = bars[i].did /\ new[i].adid = bars[i].adid
           /\ new[i].synced = bars[i].synced
           /\ ~Stale(bars[i], focus) => new[i].sid = bars[i].sid
  BY <1>1 DEF Bar, Reread
<1> HIDE DEF new
<1>3. SameBars(new)
  BY <1>2, Rebuilt
<1>4. QED
  BY <1>2, <1>3 DEF new, StaleBars

LEMMA DrawnBars ==
  ASSUME WorldOK, NEW bs, SameBars(bs), NEW focus \in active
  PROVE  /\ SameBars(Drawn(bs, focus))
         /\ Drawn(bs, focus) \in Seq(Bar) /\ DOMAIN Drawn(bs, focus) = DOMAIN bs
         /\ Len(Drawn(bs, focus)) = Len(bs) /\ Len(bs) = Len(bars)
         /\ \A i \in DOMAIN bs :
              /\ Drawn(bs, focus)[i].did = bs[i].did
              /\ Drawn(bs, focus)[i].adid = bs[i].adid
              /\ bs[i].adid >= 1 => Drawn(bs, focus)[i].synced
              /\ ~Fresh(bs)[i] => Drawn(bs, focus)[i] = bs[i]
<1> DEFINE new == Drawn(bs, focus)
<1>1. bs \in Seq(Bar) /\ DOMAIN bs = DOMAIN bars /\ bars \in Seq(Bar)
  BY DEF SameBars, WorldOK
<1>2. ASSUME NEW i \in DOMAIN bs
      PROVE  bs[i] \in Bar /\ SpaceId(bs[i].did, focus) \in Spaces
  <2>1. bs[i] \in Bar
    BY <1>1
  <2>2. bs[i].did \in Displays
    BY <2>1 DEF Bar
  <2>3. QED
    BY <2>1, <2>2, Answers
<1>3. /\ new = [i \in DOMAIN bs |-> new[i]] /\ DOMAIN new = DOMAIN bs
      /\ \A i \in DOMAIN bs :
           /\ new[i] \in Bar /\ new[i].did = bs[i].did /\ new[i].adid = bs[i].adid
           /\ bs[i].adid >= 1 => new[i].synced
           /\ ~Fresh(bs)[i] => new[i] = bs[i]
  BY <1>2 DEF Drawn, Fresh, Bar
<1> HIDE DEF new
<1>4. SameBars(new)
  BY <1>1, <1>3, Rebuilt DEF SameBars
<1>5. new \in Seq(Bar) /\ Len(new) = Len(bs) /\ Len(bs) = Len(bars)
  BY <1>1, <1>3, <1>4 DEF SameBars
<1>6. QED
  BY <1>3, <1>4, <1>5 DEF new

\* A space change, a tick and a second's tick, with the bars they leave.
LEMMA SpaceChangedIs ==
  ASSUME WorldOK, NEW d \in Displays, SpaceChanged(current[d])
  PROVE  /\ SameBars(Told(current[d])) /\ bars' = Told(current[d])
         /\ chips' = SyncAll(chips, Told(current[d]), All)[Len(Told(current[d]))]
         /\ selected' = Select(Told(current[d]), All) /\ dirty' = TRUE
<1>1. current[d] \in Spaces
  BY DEF WorldOK
<1>2. QED
  BY <1>1, ToldBars DEF SpaceChanged, Told, All

LEMMA RefreshBars ==
  ASSUME WorldOK, NEW bs, SameBars(bs), NEW focus \in active, NEW ch, NEW sel,
         Refresh(bs, ch, sel, focus)
  PROVE  bars' = Drawn(bs, focus) /\ SameBars(bars')
<1>1. bars' = Drawn(bs, focus)
  BY DEF Refresh, Drawn, Fresh
<1>2. QED
  BY <1>1, DrawnBars

LEMMA SecondTickIs ==
  ASSUME SecondTick
  PROVE  \E focus \in active :
           Refresh(Reread(focus),
                   SyncAll(chips, Reread(focus), StaleBars(focus))[Len(Reread(focus))],
                   Select(Reread(focus), StaleBars(focus)), focus)
BY DEF SecondTick, StaleBars

LEMMA SpaceNoteStep ==
  ASSUME WorldOK, SpaceNote
  PROVE  SameBars(bars')
<1>1. CASE UNCHANGED bars
  BY <1>1 DEF SameBars, WorldOK
<1>2. ASSUME NEW d \in Displays, SpaceChanged(current[d])
      PROVE  SameBars(bars')
  BY <1>2, SpaceChangedIs
<1>3. QED
  BY <1>1, <1>2 DEF SpaceNote, Called

LEMMA TickStep ==
  ASSUME WorldOK, Tick \/ SecondTick
  PROVE  SameBars(bars')
<1>1. SameBars(bars)
  BY DEF SameBars, WorldOK
<1>2. CASE Tick
  BY <1>1, <1>2, RefreshBars DEF Tick
<1>3. CASE SecondTick
  <2>1. PICK focus \in active : \E ch, sel : Refresh(Reread(focus), ch, sel, focus)
    BY <1>3, SecondTickIs
  <2>2. QED
    BY <2>1, RereadBars, RefreshBars
<1>4. QED
  BY <1>2, <1>3

\* A bar is appended only for a display that has none (bar_manager_refresh_display).
LEMMA AddedStep ==
  ASSUME WorldOK, BarsDistinct, DisplayAdded
  PROVE  bars' \in Seq(Bar) /\ BarsDistinct'
<1> DEFINE d == Head(notes)[2]
<1>1. d \in Displays
  BY DEF DisplayAdded, WorldOK, Note, Called
<1>2. NewBar(d) \in Bar /\ NewBar(d).did = d
  BY <1>1, Answers
<1>3. bars' = bars \/ (~HasBar(d) /\ bars' = Append(bars, NewBar(d)))
  BY DEF DisplayAdded, Called
<1> HIDE DEF d
<1>4. CASE bars' = bars
  BY <1>4 DEF WorldOK, BarsDistinct
<1>5. CASE ~HasBar(d) /\ bars' = Append(bars, NewBar(d))
  <2>1. bars \in Seq(Bar)
    BY DEF WorldOK
  <2>2. /\ bars' \in Seq(Bar) /\ Len(bars') = Len(bars) + 1
        /\ \A i \in 1 .. Len(bars) : bars'[i] = bars[i]
        /\ bars'[Len(bars) + 1] = NewBar(d)
    BY <1>2, <1>5, <2>1
  <2>3. \A i \in 1 .. Len(bars) : bars[i].did # d
    BY <1>5, <2>1 DEF HasBar
  <2>4. ASSUME NEW i \in DOMAIN bars', NEW j \in DOMAIN bars', bars'[i].did = bars'[j].did
        PROVE  i = j
    BY <1>2, <2>1, <2>2, <2>3, <2>4 DEF BarsDistinct
  <2>5. QED
    BY <2>2, <2>4 DEF BarsDistinct
<1>6. QED
  BY <1>3, <1>4, <1>5

\* buf_del: the last bar moves into the place of the one that goes.
LEMMA RemovedStep ==
  ASSUME WorldOK, BarsDistinct, DisplayRemoved
  PROVE  bars' \in Seq(Bar) /\ BarsDistinct'
<1> DEFINE n == Len(bars)
<1>1. bars \in Seq(Bar) /\ n \in Nat /\ DOMAIN bars = 1 .. n
  BY DEF WorldOK
<1>2. CASE bars' = bars
  BY <1>1, <1>2 DEF BarsDistinct
<1>3. ASSUME NEW i \in 1 .. n, bars' = SubSeq([bars EXCEPT ![i] = bars[n]], 1, n - 1)
      PROVE  bars' \in Seq(Bar) /\ BarsDistinct'
  <2> DEFINE moved == [bars EXCEPT ![i] = bars[n]]
  <2>1. moved \in Seq(Bar) /\ Len(moved) = n
    BY <1>1
  <2>2. /\ bars' \in Seq(Bar) /\ Len(bars') = n - 1
        /\ \A j \in 1 .. n - 1 : bars'[j] = moved[j]
    BY <1>1, <1>3, <2>1
  <2>3. \A j \in 1 .. n : moved[j] = IF j = i THEN bars[n] ELSE bars[j]
    BY <1>1
  <2> HIDE DEF moved
  <2>4. \A j \in 1 .. n - 1 : bars'[j] = IF j = i THEN bars[n] ELSE bars[j]
    BY <2>2, <2>3
  <2>5. \A j, k \in 1 .. n : bars[j].did = bars[k].did => j = k
    BY <1>1 DEF BarsDistinct
  <2>6. ASSUME NEW j \in 1 .. n - 1, NEW k \in 1 .. n - 1, bars'[j].did = bars'[k].did
        PROVE  j = k
    BY <1>1, <2>4, <2>5, <2>6
  <2>7. DOMAIN bars' = 1 .. n - 1
    BY <1>1, <2>2
  <2>8. QED
    BY <2>2, <2>6, <2>7 DEF BarsDistinct
<1>4. bars' = bars \/ \E i \in 1 .. n : bars' = SubSeq([bars EXCEPT ![i] = bars[n]], 1, n - 1)
  BY DEF DisplayRemoved, Called
<1>5. QED
  BY <1>2, <1>3, <1>4

LEMMA Noted ==
  ASSUME WorldOK, NEW kind \in Kinds, NEW d \in Displays,
         notes' = notes \/ notes' = Append(notes, <<kind, d>>)
  PROVE  notes' \in Seq(Note)
<1>1. <<kind, d>> \in Note
  BY DEF Note, Kinds
<1>2. notes \in Seq(Note)
  BY DEF WorldOK
<1> DEFINE note == <<kind, d>>
<1>3. notes' = notes \/ notes' = Append(notes, note)
  OBVIOUS
<1> HIDE DEF note
<1>4. note \in Note
  BY <1>1 DEF note
<1>5. QED
  BY <1>2, <1>3, <1>4

\* A display is put somewhere in the order, taken out of it, or all change places.
LEMMA Rearranged ==
  ASSUME WorldOK, NEW d \in Displays, Plug(d) \/ Unplug(d) \/ Arrange(d)
  PROVE  displays' \in Seq(Displays) /\ IsInjective(displays')
<1> DEFINE n == Len(displays)
<1>1. displays \in Seq(Displays) /\ n \in Nat /\ DOMAIN displays = 1 .. n
  BY DEF WorldOK
<1>2. \A i, j \in 1 .. n : displays[i] = displays[j] => i = j
  BY <1>1 DEF WorldOK, IsInjective
<1>3. CASE Plug(d)
  <2>1. PICK i \in 1 .. n + 1 : displays' = InsertAt(displays, i, d)
    BY <1>3 DEF Plug
  <2>2. \A j \in 1 .. n : displays[j] # d
    BY <1>1, <1>3 DEF Plug, active, Range
  <2> DEFINE before == SubSeq(displays, 1, i - 1)
             after == SubSeq(displays, i, n)
  <2>3. before \in Seq(Displays) /\ Len(before) = i - 1
        /\ \A j \in 1 .. i - 1 : before[j] = displays[j]
    BY <1>1
  <2>4. after \in Seq(Displays) /\ Len(after) = n + 1 - i
        /\ \A j \in 1 .. n + 1 - i : after[j] = displays[j + i - 1]
    BY <1>1
  <2>5. displays' = before \o <<d>> \o after
    BY <2>1 DEF InsertAt
  <2> HIDE DEF before, after
  <2> DEFINE front == before \o <<d>>
  <2>6. front \in Seq(Displays) /\ Len(front) = i /\ front[i] = d
        /\ \A j \in 1 .. i - 1 : front[j] = displays[j]
    BY <2>3
  <2> HIDE DEF front
  <2>7. displays' = front \o after
    BY <2>5 DEF front
  <2>8. /\ displays' \in Seq(Displays) /\ Len(displays') = n + 1
        /\ \A j \in 1 .. n + 1 :
             displays'[j] = IF j <= i THEN front[j] ELSE after[j - i]
    BY <1>1, <2>4, <2>6, <2>7
  <2>9. \A j \in 1 .. n + 1 :
          displays'[j] = IF j = i THEN d ELSE IF j < i THEN displays[j] ELSE displays[j - 1]
    <3>1. ASSUME NEW j \in 1 .. n + 1, j <= i
          PROVE  displays'[j] = IF j = i THEN d ELSE displays[j]
      BY <1>1, <2>6, <2>8, <3>1
    <3>2. ASSUME NEW j \in 1 .. n + 1, ~ (j <= i)
          PROVE  displays'[j] = displays[j - 1]
      <4>1. j - i \in 1 .. n + 1 - i /\ (j - i) + i - 1 = j - 1
        BY <1>1, <3>2
      <4>2. displays'[j] = after[j - i]
        BY <2>8, <3>2
      <4>3. after[j - i] = displays[(j - i) + i - 1]
        BY <2>4, <4>1
      <4>4. QED
        BY <4>1, <4>2, <4>3
    <3>3. QED
      BY <1>1, <3>1, <3>2
  <2>10. \A j, k \in 1 .. n + 1 : displays'[j] = displays'[k] => j = k
    BY <1>1, <1>2, <2>2, <2>9
  <2>11. QED
    BY <2>8, <2>10 DEF IsInjective
<1>4. CASE Unplug(d)
  <2>1. PICK i \in 1 .. n : displays' = RemoveAt(displays, i)
    BY <1>1, <1>4 DEF Unplug
  <2> DEFINE before == SubSeq(displays, 1, i - 1)
             after == SubSeq(displays, i + 1, n)
  <2>2. before \in Seq(Displays) /\ Len(before) = i - 1
        /\ \A j \in 1 .. i - 1 : before[j] = displays[j]
    BY <1>1
  <2>3. after \in Seq(Displays) /\ Len(after) = n - i
        /\ \A j \in 1 .. n - i : after[j] = displays[j + i]
    <3>1. i + 1 \in 1 .. n + 1 /\ n \in 0 .. n
      BY <1>1
    <3> DEFINE m == i + 1
    <3>2. m \in 1 .. n + 1 /\ after = SubSeq(displays, m, n)
      BY <3>1
    <3> HIDE DEF m, after
    <3>3. after \in Seq(Displays) /\ Len(after) = n + 1 - m
          /\ \A j \in 1 .. n + 1 - m : after[j] = displays[j + m - 1]
      BY <1>1, <3>2
    <3> n \in Nat /\ i \in 1 .. n
      BY <1>1
    <3> HIDE DEF n
    <3>4. n + 1 - m = n - i /\ \A j \in 1 .. n - i : j + m - 1 = j + i
      BY DEF m
    <3>5. QED
      BY <3>3, <3>4
  <2>4. displays' = before \o after
    BY <2>1 DEF RemoveAt
  <2> HIDE DEF before, after, n
  <2>5. /\ displays' \in Seq(Displays) /\ Len(displays') = n - 1
        /\ \A j \in 1 .. n - 1 :
             displays'[j] = IF j <= i - 1 THEN before[j] ELSE after[j - (i - 1)]
    BY <1>1, <2>2, <2>3, <2>4
  <2>6. \A j \in 1 .. n - 1 : displays'[j] = IF j < i THEN displays[j] ELSE displays[j + 1]
    BY <1>1, <2>2, <2>3, <2>5
  <2>7. \A j, k \in 1 .. n - 1 : displays'[j] = displays'[k] => j = k
    BY <1>1, <1>2, <2>6
  <2>8. QED
    BY <2>5, <2>7 DEF IsInjective
<1>5. CASE Arrange(d)
  BY <1>1, <1>5, Active, Ordered DEF Arrange
<1>6. QED
  BY <1>3, <1>4, <1>5

Outside ==
  \/ \E d \in Displays : Switch(d) \/ CreateSpace(d) \/ Plug(d) \/ Unplug(d) \/ Arrange(d)
  \/ \E i \in DOMAIN bars, it \in Items : Click(bars[i], it)

\* What the user and the window server do leaves the bars alone and keeps WorldOK.
LEMMA OutsideStep ==
  ASSUME WorldOK,
         Outside
  PROVE  WorldOK' /\ UNCHANGED bars
<1>1. ASSUME NEW d \in Displays, NEW s \in Spaces, Show(d, s)
      PROVE  WorldOK' /\ UNCHANGED bars
  <2>1. notes' = notes \/ notes' = Append(notes, <<"space", d>>)
    BY <1>1 DEF Show, Notified
  <2>2. notes' \in Seq(Note)
    BY <2>1, Noted DEF Kinds
  <2>3. QED
    BY <1>1, <2>2 DEF Show, WorldOK
<1>2. ASSUME NEW d \in Displays, NEW s, Contains(spaces[d], s), WorldOK
      PROVE  s \in Spaces
  BY <1>2 DEF Contains, WorldOK
<1>3. ASSUME NEW d \in Displays, Switch(d)
      PROVE  WorldOK' /\ UNCHANGED bars
  <2>1. PICK s \in Range(spaces[d]) \ {current[d]} : Show(d, s)
    BY <1>3, Zenon DEF Switch
  <2>2. s \in Spaces
    BY DEF Range, WorldOK
  <2>3. QED
    BY <1>1, <2>1, <2>2
<1>4. ASSUME NEW d \in Displays, CreateSpace(d)
      PROVE  WorldOK' /\ UNCHANGED bars
  <2>1. PICK s \in Spaces : spaces' = [spaces EXCEPT ![d] = Append(@, s)]
    BY <1>4 DEF CreateSpace
  <2>2. spaces[d] \in Seq(Spaces) /\ Append(spaces[d], s) \in Seq(Spaces)
    BY DEF WorldOK
  <2>3. spaces' \in [Displays -> Seq(Spaces)]
    BY <2>1, <2>2 DEF WorldOK
  <2>4. notes' \in Seq(Note)
    BY <1>4, Noted DEF CreateSpace, Kinds
  <2>5. QED
    BY <1>4, <2>3, <2>4 DEF CreateSpace, WorldOK
<1>5. ASSUME NEW d \in Displays, Plug(d) \/ Unplug(d) \/ Arrange(d)
      PROVE  WorldOK' /\ UNCHANGED bars
  <2>1. notes' \in Seq(Note)
    BY <1>5, Noted DEF Plug, Unplug, Arrange, Kinds
  <2>2. displays' \in Seq(Displays) /\ IsInjective(displays')
    BY <1>5, Rearranged
  <2>3. QED
    BY <1>5, <2>1, <2>2 DEF Plug, Unplug, Arrange, WorldOK
<1>6. ASSUME NEW bar, NEW it \in Items, Click(bar, it)
      PROVE  WorldOK' /\ UNCHANGED bars
  <2>1. PICK host \in active : \E s : IsHost(host, s) /\ Show(host, s)
    BY <1>6, Zenon DEF Click
  <2>2. PICK s : IsHost(host, s) /\ Show(host, s)
    BY <2>1
  <2>3. host \in Displays
    BY Active DEF WorldOK
  <2>4. current[host] = s \/ Contains(spaces[host], s)
    BY <2>2 DEF IsHost, Hosts
  <2>5. s \in Spaces
    BY <1>2, <2>3, <2>4 DEF WorldOK
  <2>6. QED
    BY <1>1, <2>2, <2>3, <2>5
<1>7. QED
  BY <1>3, <1>4, <1>5, <1>6 DEF Outside

LEMMA InvStep == Inv /\ [Next]_vars => Inv'
<1> SUFFICES ASSUME Inv, [Next]_vars
             PROVE  Inv'
  OBVIOUS
<1> USE DEF Inv
<1>1. CASE Outside
  BY <1>1, OutsideStep DEF BarsDistinct
<1>2. CASE Callback
  <2>1. UNCHANGED world /\ notes \in Seq(Note) /\ notes # <<>> /\ notes' = Tail(notes)
    BY <1>2 DEF Callback, SpaceNote, DisplayAdded, DisplayRemoved, DisplayMoved, WorldOK, Called
  <2>2. notes' \in Seq(Note)
    BY <2>1
  <2>3. bars' \in Seq(Bar) /\ BarsDistinct'
    <3>1. CASE DisplayMoved
      BY <3>1 DEF DisplayMoved, WorldOK, BarsDistinct, Called
    <3>2. QED
      BY <1>2, <3>1, SpaceNoteStep, SameDistinct, AddedStep, RemovedStep DEF Callback, SameBars
  <2>4. QED
    BY <2>1, <2>2, <2>3 DEF WorldOK, world
<1>3. CASE Tick \/ SecondTick
  <2>1. UNCHANGED <<world, notes>>
    BY <1>3, Zenon DEF Tick, SecondTick
  <2>2. bars' \in Seq(Bar) /\ BarsDistinct'
    BY <1>3, TickStep, SameDistinct DEF SameBars
  <2>3. QED
    BY <2>1, <2>2 DEF WorldOK, world
<1>4. CASE UNCHANGED vars
  BY <1>4 DEF vars, world, WorldOK, BarsDistinct
<1>5. QED
  BY <1>1, <1>2, <1>3, <1>4 DEF Next, Outside

\* One bar per display that has one (bar_manager.c: bar_manager_refresh_display,
\* bar_destroy_for_display).
THEOREM OneBarEach == Spec => []BarsDistinct
<1>1. Inv => BarsDistinct
  BY DEF Inv
<1>2. QED
  BY Initially, InvStep, <1>1, PTL DEF Spec

-----------------------------------------------------------------------------
(* Induction up to a number *)

\* A non-empty set of natural numbers has a least one.
LEMMA Smallest ==
  ASSUME NEW S \in SUBSET Nat, S # {}
  PROVE  \E n \in S : \A m \in S : n <= m
<1>1. PICK n \in S : \A m \in S : ~ (<<m, n>> \in OpToRel(<, Nat))
  BY NatLessThanWellFounded, WFMin
<1>2. \A m \in S : ~ (m < n)
  BY <1>1 DEF OpToRel
<1>3. QED
  BY <1>2

LEMMA UpTo ==
  ASSUME NEW n \in Nat, NEW S, 0 \in S,
         \A k \in 1 .. n : k - 1 \in S => k \in S
  PROVE  0 .. n \subseteq S
<1> DEFINE missing == (0 .. n) \ S
<1>1. SUFFICES ASSUME missing # {}
               PROVE  FALSE
  OBVIOUS
<1>2. missing \in SUBSET Nat
  OBVIOUS
<1>3. PICK k \in missing : \A m \in missing : k <= m
  BY <1>1, <1>2, Smallest
<1>4. k \in 1 .. n /\ k - 1 \notin missing
  BY <1>3
<1>5. QED
  BY <1>4

-----------------------------------------------------------------------------
(* bar_sync_space_items, bar after bar *)

\* The chip lists after the first k bars come from those after k - 1.
IsSync(after, ch, bs, need) ==
  /\ after[0] = ch
  /\ \A k \in 1 .. Len(bs) :
       after[k] = IF need[k] THEN Synced(after[k - 1], bs[k]) ELSE after[k - 1]

LEMMA SyncAllSteps ==
  ASSUME NEW ch, NEW bs, Len(bs) \in Nat, NEW need
  PROVE  IsSync(SyncAll(ch, bs, need), ch, bs, need)
<1> DEFINE n == Len(bs)
           Step(c, k) == IF need[k] THEN Synced(c, bs[k]) ELSE c
           Runs(g, m) == g = [i \in 0 .. m |-> IF i = 0 THEN ch ELSE Step(g[i - 1], i)]
           some == {m \in 0 .. n : \E g : Runs(g, m)}
           after == SyncAll(ch, bs, need)
<1> HIDE DEF Step
<1>1. 0 \in some
  <2>1. Runs([i \in 0 .. 0 |-> ch], 0) /\ 0 \in 0 .. n
    OBVIOUS
  <2> HIDE DEF Runs, n
  <2>2. QED
    BY <2>1
<1>2. ASSUME NEW m \in 1 .. n, m - 1 \in some
      PROVE  m \in some
  <2>1. PICK g : Runs(g, m - 1)
    BY <1>2
  <2> DEFINE h == [i \in 0 .. m |-> IF i = m THEN Step(g[m - 1], m) ELSE g[i]]
  <2>2. ASSUME NEW i \in 0 .. m
        PROVE  h[i] = IF i = 0 THEN ch ELSE Step(h[i - 1], i)
    <3>1. CASE i = m
      BY <3>1
    <3>2. CASE i # m
      <4>1. i \in 0 .. m - 1 /\ h[i] = g[i] /\ (i # 0 => h[i - 1] = g[i - 1])
        BY <3>2
      <4>2. g[i] = IF i = 0 THEN ch ELSE Step(g[i - 1], i)
        BY <2>1, <4>1
      <4> HIDE DEF h
      <4>3. QED
        BY <4>1, <4>2
    <3>3. QED
      BY <3>1, <3>2
  <2>3. h = [i \in 0 .. m |-> h[i]]
    OBVIOUS
  <2> HIDE DEF h
  <2>4. Runs(h, m)
    BY <2>2, <2>3, Zenon
  <2>5. m \in 0 .. n
    OBVIOUS
  <2> HIDE DEF Runs, n
  <2>6. QED
    BY <2>4, <2>5
<1>3. n \in some
  <2> HIDE DEF some, n
  <2>1. n \in Nat
    BY DEF n
  <2>2. QED
    BY <1>1, <1>2, <2>1, UpTo
<1>4. after = CHOOSE g : Runs(g, n)
  BY DEF SyncAll, Step
<1>5. Runs(after, n)
  <2> HIDE DEF Runs, after, n
  <2>1. QED
    BY <1>3, <1>4
<1>6. after[0] = ch /\ \A k \in 1 .. n : after[k] = Step(after[k - 1], k)
  <2> HIDE DEF after
  <2>1. QED
    BY <1>5
<1>7. QED
  <2> HIDE DEF after
  <2>1. IsSync(after, ch, bs, need)
    BY <1>6 DEF Step, IsSync
  <2>2. QED
    BY <2>1 DEF after

SpaceIds == Spaces \cup {NoSpace}
Strip == {c \in Seq(SpaceIds) : Len(c) <= MaxSpaces}

\* Exactly one place of c holds s.
Once(c, s) == \E k \in DOMAIN c : \A m \in DOMAIN c : c[m] = s <=> m = k

\* Whatever space the bar is on and whatever the list says: it is in the strip, and
\* once if the list has no space twice.
LEMMA ChipsForBar ==
  ASSUME WorldOK, NEW d \in Displays, NEW sid \in SpaceIds
  PROVE  /\ ChipsFor(d, sid) \in Strip
         /\ IsInjective(spaces[d]) => Once(ChipsFor(d, sid), sid)
<1> DEFINE t == SpaceList(d)
           ids == IF t = <<>> THEN <<sid>>
                  ELSE SubSeq(t, 1, IF Len(t) < MaxSpaces THEN Len(t) ELSE MaxSpaces)
<1>0. t \in Seq(Spaces) /\ (IsInjective(spaces[d]) => IsInjective(t))
  BY Answers DEF IsInjective
<1>3. ChipsFor(d, sid) = IF Contains(ids, sid) THEN ids ELSE [ids EXCEPT ![1] = sid]
  BY DEF ChipsFor
<1> HIDE DEF t
<1>1. t \in Seq(Spaces) /\ Len(t) \in Nat /\ MaxSpaces \in Nat \ {0}
  BY <1>0, ConstantsAssumption
<1>2. /\ ids \in Seq(SpaceIds) /\ Len(ids) \in 1 .. MaxSpaces
      /\ IsInjective(t) => IsInjective(ids)
  <2>1. CASE t = <<>>
    <3>1. ids = <<sid>>
      BY <2>1
    <3> HIDE DEF ids
    <3>2. ids \in Seq(SpaceIds) /\ Len(ids) = 1 /\ DOMAIN ids = {1}
      <4>1. <<sid>> \in Seq(SpaceIds) /\ Len(<<sid>>) = 1
        OBVIOUS
      <4>2. DOMAIN <<sid>> = 1 .. Len(<<sid>>)
        OBVIOUS
      <4>3. 1 .. 1 = {1}
        OBVIOUS
      <4>4. QED
        BY <3>1, <4>1, <4>2, <4>3
    <3>3. QED
      BY <1>1, <3>2 DEF IsInjective
  <2>2. CASE t # <<>>
    <3> DEFINE n == IF Len(t) < MaxSpaces THEN Len(t) ELSE MaxSpaces
    <3>1. n \in 1 .. Len(t) /\ n \in 1 .. MaxSpaces
      BY <1>1, <2>2
    <3>2. ids = SubSeq(t, 1, n)
      BY <2>2
    <3>3. t \in Seq(Spaces) /\ Len(t) \in Nat /\ DOMAIN t = 1 .. Len(t)
      BY <1>1
    <3> HIDE DEF ids, n
    <3>4. /\ Len(ids) = n /\ DOMAIN ids = 1 .. n /\ ids \in Seq(Spaces)
          /\ \A k \in 1 .. n : ids[k] = t[k]
      BY <3>1, <3>2, <3>3
    <3>5. ids \in Seq(SpaceIds)
      BY <3>4 DEF SpaceIds
    <3>6. IsInjective(t) => IsInjective(ids)
      BY <3>1, <3>3, <3>4 DEF IsInjective
    <3>7. QED
      BY <3>1, <3>4, <3>5, <3>6
  <2>3. QED
    BY <2>1, <2>2
<1> HIDE DEF ids
<1>4. DOMAIN ids = 1 .. Len(ids) /\ 1 \in DOMAIN ids
  BY <1>2
<1>5. CASE Contains(ids, sid)
  <2>1. PICK k \in DOMAIN ids : ids[k] = sid
    BY <1>4, <1>5 DEF Contains
  <2>2. QED
    BY <1>0, <1>1, <1>2, <1>3, <1>5, <2>1 DEF Strip, Once, IsInjective
<1>6. CASE ~Contains(ids, sid)
  <2> DEFINE c == [ids EXCEPT ![1] = sid]
  <2>1. c \in Seq(SpaceIds) /\ Len(c) = Len(ids) /\ DOMAIN c = DOMAIN ids
    BY <1>2, <1>4
  <2>2. \A m \in DOMAIN c : c[m] = sid <=> m = 1
    BY <1>4, <1>6 DEF Contains
  <2> HIDE DEF c
  <2>3. c \in Strip /\ Once(c, sid)
    BY <1>1, <1>2, <1>4, <2>1, <2>2 DEF Strip, Once
  <2>4. QED
    BY <1>3, <1>6, <2>3 DEF c
<1>7. QED
  BY <1>5, <1>6

LEMMA SyncAllTyped ==
  ASSUME WorldOK, NEW ch \in [Items -> Strip], NEW bs \in Seq(Bar), NEW need
  PROVE  \A k \in 0 .. Len(bs) : SyncAll(ch, bs, need)[k] \in [Items -> Strip]
<1> DEFINE n == Len(bs)
           after == SyncAll(ch, bs, need)
           typed == {k \in 0 .. n : after[k] \in [Items -> Strip]}
<1>1. n \in Nat /\ \A k \in 1 .. n : bs[k] \in Bar
  OBVIOUS
<1>0. IsSync(after, ch, bs, need)
  BY <1>1, SyncAllSteps
<1>2. /\ after[0] = ch
      /\ \A k \in 1 .. n :
           after[k] = IF need[k] THEN Synced(after[k - 1], bs[k]) ELSE after[k - 1]
  <2> HIDE DEF after
  <2>1. QED
    BY <1>0 DEF IsSync
<1> HIDE DEF after, n
<1>3. 0 \in typed
  BY <1>1, <1>2
<1>4. ASSUME NEW k \in 1 .. n, k - 1 \in typed
      PROVE  k \in typed
  <2>1. after[k - 1] \in [Items -> Strip]
    BY <1>4
  <2>2. bs[k].did \in Displays /\ bs[k].sid \in SpaceIds
    BY <1>1 DEF Bar, SpaceIds
  <2>3. ChipsFor(bs[k].did, bs[k].sid) \in Strip
    BY <2>2, ChipsForBar
  <2>4. Synced(after[k - 1], bs[k]) \in [Items -> Strip]
    BY <2>1, <2>3 DEF Synced
  <2>5. after[k] \in [Items -> Strip] /\ k \in 0 .. n
    BY <1>1, <1>2, <2>1, <2>4
  <2>6. QED
    BY <2>5
<1> HIDE DEF typed
<1>5. 0 .. n \subseteq typed
  BY <1>1, <1>3, <1>4, UpTo
<1>6. QED
  BY <1>5 DEF typed, n, after

\* An item that one bar draws is synced by that bar alone.
Unshared(bs) ==
  \A i, j \in DOMAIN bs, it \in Items : Draws(bs[i], it) /\ Draws(bs[j], it) => i = j

OwnStrip(after, ch, bs, need, i, it) ==
  \A k \in 0 .. Len(bs) :
    after[k][it] = IF i <= k /\ need[i] THEN ChipsFor(bs[i].did, bs[i].sid) ELSE ch[it]

LEMMA SyncAllOwn ==
  ASSUME NEW ch, NEW bs \in Seq(Bar), NEW need, Unshared(bs),
         NEW i \in 1 .. Len(bs), NEW it \in Items, Draws(bs[i], it)
  PROVE  OwnStrip(SyncAll(ch, bs, need), ch, bs, need, i, it)
<1> DEFINE n == Len(bs)
           after == SyncAll(ch, bs, need)
<1>1. Len(bs) \in Nat /\ i \in 1 .. n /\ DOMAIN bs = 1 .. n
  OBVIOUS
<1>0. IsSync(after, ch, bs, need)
  BY <1>1, SyncAllSteps
<1>2. /\ after[0] = ch
      /\ \A k \in 1 .. n :
           after[k] = IF need[k] THEN Synced(after[k - 1], bs[k]) ELSE after[k - 1]
  <2> HIDE DEF after
  <2>1. QED
    BY <1>0 DEF IsSync
<1>7. n \in Nat
  BY <1>1
<1> DEFINE own == ChipsFor(bs[i].did, bs[i].sid)
           done == {k \in 0 .. n :
                      after[k][it] = IF i <= k /\ need[i] THEN own ELSE ch[it]}
<1> HIDE DEF after, n
<1>3. 0 \in done
  BY <1>1, <1>2, <1>7
<1>4. ASSUME NEW k \in 1 .. n, k - 1 \in done
      PROVE  k \in done
  <2>1. /\ after[k - 1][it] = IF i <= k - 1 /\ need[i] THEN own ELSE ch[it]
        /\ k \in 0 .. n
    BY <1>4
  <2>2. CASE k = i
    <3>1. ~ (i <= k - 1) /\ i <= k
      BY <1>1, <1>7, <2>2
    <3>2. Synced(after[k - 1], bs[k])[it] = own
      BY <2>2 DEF Synced
    <3>3. QED
      BY <1>2, <2>1, <2>2, <3>1, <3>2
  <2>3. CASE k # i
    <3>1. ~Draws(bs[k], it)
      BY <1>1, <2>3 DEF Unshared
    <3>2. Synced(after[k - 1], bs[k])[it] = after[k - 1][it]
      BY <3>1 DEF Synced
    <3>3. i <= k <=> i <= k - 1
      BY <1>1, <1>7, <2>3
    <3>4. QED
      BY <1>2, <2>1, <3>2, <3>3
  <2>4. QED
    BY <2>2, <2>3
<1> HIDE DEF done
<1>5. 0 .. n \subseteq done
  BY <1>3, <1>4, <1>7, UpTo
<1>6. QED
  <2>1. \A k \in 0 .. n : after[k][it] = IF i <= k /\ need[i] THEN own ELSE ch[it]
    BY <1>5 DEF done
  <2>2. QED
    BY <2>1 DEF OwnStrip, own, n, after

\* Every list of spaces names a space once.
Distinct == \A d \in Displays : IsInjective(spaces[d])

\* The strip an item was last synced to has the bar's space once.
Marked(bs, ch) ==
  \A i \in DOMAIN bs : bs[i].synced =>
    \A it \in Items : Draws(bs[i], it) => Once(ch[it], bs[i].sid)

\* So has the strip of every bar that was synced or need not be, from its turn on.
LEMMA SyncAllMarks ==
  ASSUME WorldOK, Distinct, NEW ch, NEW bs \in Seq(Bar), NEW need, Unshared(bs),
         NEW i \in 1 .. Len(bs), NEW it \in Items, Draws(bs[i], it),
         need[i] \/ Once(ch[it], bs[i].sid)
  PROVE  /\ Once(SyncAll(ch, bs, need)[i][it], bs[i].sid)
         /\ Once(SyncAll(ch, bs, need)[Len(bs)][it], bs[i].sid)
<1> DEFINE n == Len(bs)
           after == SyncAll(ch, bs, need)
           own == ChipsFor(bs[i].did, bs[i].sid)
<1>1. n \in Nat /\ i \in 0 .. n /\ n \in 0 .. n /\ i <= n /\ i <= i
  OBVIOUS
<1>2. bs[i].did \in Displays /\ bs[i].sid \in SpaceIds
  <2>1. bs[i] \in Bar
    OBVIOUS
  <2>2. QED
    BY <2>1 DEF Bar, SpaceIds
<1>3. Once(own, bs[i].sid)
  BY <1>2, ChipsForBar DEF Distinct
<1>7. OwnStrip(after, ch, bs, need, i, it)
  BY SyncAllOwn
<1> HIDE DEF after
<1>4. \A k \in 0 .. n : after[k][it] = IF i <= k /\ need[i] THEN own ELSE ch[it]
  BY <1>7 DEF OwnStrip
<1> HIDE DEF n, own
<1>5. Once(after[i][it], bs[i].sid) /\ Once(after[n][it], bs[i].sid)
  BY <1>1, <1>3, <1>4
<1>6. QED
  BY <1>5 DEF n, after

-----------------------------------------------------------------------------
(* bar_manager_refresh: what is drawn and painted *)

\* What a refresh leaves.
LEMMA RefreshIs ==
  ASSUME WorldOK, NEW bs, SameBars(bs), NEW focus \in active, NEW ch, NEW sel,
         Refresh(bs, ch, sel, focus)
  PROVE  LET drawn == Drawn(bs, focus)
             at == SyncAll(ch, drawn, Fresh(bs))
         IN  /\ bars' = drawn /\ chips' = at[Len(bs)]
             /\ selected' = [it \in Items |->
                  sel[it] \/ \E i \in DOMAIN bs : Fresh(bs)[i] /\ Draws(bs[i], it)]
             /\ painted' \in [Displays -> Range(painted')]
             /\ \A d \in Displays :
                  \/ painted'[d] = painted[d]
                  \/ \E i \in DOMAIN bs :
                       Paints(bs[i], d) /\ painted'[d] = Picture(drawn[i], at[i])
<1> DEFINE drawn == Drawn(bs, focus)
           at == SyncAll(ch, drawn, Fresh(bs))
           shown(d) == CHOOSE j \in DOMAIN bs : Paints(bs[j], d)
<1>1. bars' = drawn
  BY DEF Refresh, Drawn, Fresh
<1>2. /\ chips' = SyncAll(ch, bars', Fresh(bs))[Len(bs)]
      /\ selected' = [it \in Items |->
           sel[it] \/ \E i \in DOMAIN bs : Fresh(bs)[i] /\ Draws(bs[i], it)]
      /\ painted' = [d \in Displays |->
           IF \E i \in DOMAIN bs : Paints(bs[i], d)
           THEN Picture(bars'[shown(d)], SyncAll(ch, bars', Fresh(bs))[shown(d)])
           ELSE painted[d]]
  BY DEF Refresh, Fresh
<1>3. /\ chips' = at[Len(bs)]
      /\ painted' = [d \in Displays |->
           IF \E i \in DOMAIN bs : Paints(bs[i], d)
           THEN Picture(drawn[shown(d)], at[shown(d)])
           ELSE painted[d]]
  BY <1>1, <1>2
<1> HIDE DEF at, drawn
<1>4. ASSUME NEW d \in Displays
      PROVE  \/ painted'[d] = painted[d]
             \/ \E i \in DOMAIN bs :
                  Paints(bs[i], d) /\ painted'[d] = Picture(drawn[i], at[i])
  <2>1. CASE \E i \in DOMAIN bs : Paints(bs[i], d)
    <3>1. shown(d) \in DOMAIN bs /\ Paints(bs[shown(d)], d)
      BY <2>1
    <3>2. painted'[d] = Picture(drawn[shown(d)], at[shown(d)])
      BY <1>3, <2>1
    <3> HIDE DEF shown
    <3>3. QED
      BY <3>1, <3>2
  <2>2. CASE ~ \E i \in DOMAIN bs : Paints(bs[i], d)
    BY <1>3, <2>2
  <2>3. QED
    BY <2>1, <2>2
<1>5. painted' \in [Displays -> Range(painted')]
  BY <1>3 DEF Range
<1>6. QED
  BY <1>1, <1>2, <1>3, <1>4, <1>5 DEF at, drawn

-----------------------------------------------------------------------------
(* Type correctness *)

\* What is painted of a bar: its space and the strips of the items it draws.
IsPaint(p) ==
  /\ p = [sid |-> p.sid, chips |-> p.chips]
  /\ p.sid \in SpaceIds
  /\ DOMAIN p.chips \subseteq Items
  /\ \A it \in DOMAIN p.chips : p.chips[it] \in Strip

RestOK ==
  /\ changes \in 0 .. MaxChanges
  /\ log \in [Displays -> SpaceIds]
  /\ chips \in [Items -> Strip]
  /\ selected \in [Items -> BOOLEAN]
  /\ dirty \in BOOLEAN
  /\ painted \in [Displays -> Range(painted)]
  /\ \A d \in Displays : IsPaint(painted[d])

LEMMA TypesOK ==
  ASSUME WorldOK, RestOK
  PROVE  TypeOK
<1>1. chips \in [Items -> Seq(SpaceIds)] /\ \A it \in Items : Len(chips[it]) <= MaxSpaces
  <2>1. \A it \in Items : chips[it] \in Seq(SpaceIds) /\ Len(chips[it]) <= MaxSpaces
    BY DEF RestOK, Strip
  <2>2. QED
    BY <2>1 DEF RestOK
<1>2. DOMAIN painted = Displays
  BY DEF RestOK
<1>3. ASSUME NEW d \in Displays
      PROVE  /\ DOMAIN painted[d] = {"sid", "chips"}
             /\ painted[d].sid \in SpaceIds
             /\ DOMAIN painted[d].chips \subseteq Items
             /\ \A it \in DOMAIN painted[d].chips : painted[d].chips[it] \in Seq(SpaceIds)
  <2> DEFINE p == painted[d]
  <2>1. IsPaint(p)
    BY DEF RestOK
  <2> HIDE DEF p
  <2>2. /\ DOMAIN p = {"sid", "chips"} /\ p.sid \in SpaceIds
        /\ DOMAIN p.chips \subseteq Items
        /\ \A it \in DOMAIN p.chips : p.chips[it] \in Seq(SpaceIds)
    BY <2>1 DEF IsPaint, Strip
  <2>3. QED
    BY <2>2 DEF p
<1>4. QED
  BY <1>1, <1>2, <1>3 DEF TypeOK, WorldOK, RestOK, SpaceIds, Bar, Note, Kinds

LEMMA BlankOK == IsPaint(Blank) /\ <<>> \in Strip
<1>1. <<>> \in Strip
  BY ConstantsAssumption DEF Strip
<1>2. Blank.sid \in SpaceIds /\ Blank.chips = <<>>
      /\ Blank = [sid |-> Blank.sid, chips |-> Blank.chips]
  BY DEF Blank, SpaceIds
<1>3. DOMAIN Blank.chips = {}
  BY <1>2
<1>4. QED
  BY <1>1, <1>2, <1>3 DEF IsPaint

\* The strips of a picture are those of the items.
LEMMA PictureOf ==
  ASSUME NEW bar, NEW ch
  PROVE  /\ Picture(bar, ch) = [sid |-> Picture(bar, ch).sid, chips |-> Picture(bar, ch).chips]
         /\ Picture(bar, ch).sid = bar.sid
         /\ DOMAIN Picture(bar, ch).chips = {it \in Items : Draws(bar, it)}
         /\ \A it \in Items : Draws(bar, it) => Picture(bar, ch).chips[it] = ch[it]
BY DEF Picture

LEMMA RestInit == Init => RestOK
<1> SUFFICES ASSUME Init
             PROVE  RestOK
  OBVIOUS
<1>1. /\ chips \in [Items -> Strip] /\ painted \in [Displays -> Range(painted)]
      /\ \A d \in Displays : IsPaint(painted[d])
  BY BlankOK DEF Init, Range
<1>2. log \in [Displays -> SpaceIds]
  BY DEF Init, SpaceIds, Logged
<1>3. changes = 0 /\ selected = [it \in Items |-> FALSE] /\ dirty = TRUE
  BY DEF Init, Logged
<1>4. QED
  BY <1>1, <1>2, <1>3, ConstantsAssumption DEF RestOK

LEMMA RefreshTyped ==
  ASSUME WorldOK, RestOK, NEW bs, SameBars(bs), NEW focus \in active,
         NEW ch \in [Items -> Strip], NEW sel \in [Items -> BOOLEAN],
         Refresh(bs, ch, sel, focus)
  PROVE  /\ chips' \in [Items -> Strip] /\ selected' \in [Items -> BOOLEAN]
         /\ painted' \in [Displays -> Range(painted')]
         /\ \A d \in Displays : IsPaint(painted'[d])
<1> DEFINE drawn == Drawn(bs, focus)
           at == SyncAll(ch, drawn, Fresh(bs))
<1>1. drawn \in Seq(Bar) /\ DOMAIN drawn = DOMAIN bs /\ Len(drawn) = Len(bs)
  BY DrawnBars
<1>2. \A k \in 0 .. Len(drawn) : at[k] \in [Items -> Strip]
  BY <1>1, SyncAllTyped
<1>3. /\ chips' = at[Len(bs)]
      /\ selected' = [it \in Items |->
           sel[it] \/ \E i \in DOMAIN bs : Fresh(bs)[i] /\ Draws(bs[i], it)]
      /\ painted' \in [Displays -> Range(painted')]
      /\ \A d \in Displays :
           \/ painted'[d] = painted[d]
           \/ \E i \in DOMAIN bs :
                Paints(bs[i], d) /\ painted'[d] = Picture(drawn[i], at[i])
  BY RefreshIs
<1>4. Len(bs) = Len(drawn) /\ Len(drawn) \in Nat /\ DOMAIN bs = 1 .. Len(drawn)
  BY <1>1
<1> HIDE DEF at, drawn
<1>5. chips' \in [Items -> Strip]
  BY <1>2, <1>3, <1>4
<1>6. selected' \in [Items -> BOOLEAN]
  BY <1>3
<1>7. ASSUME NEW d \in Displays
      PROVE  IsPaint(painted'[d])
  <2>1. CASE painted'[d] = painted[d]
    BY <2>1 DEF RestOK
  <2>2. ASSUME NEW i \in DOMAIN bs
        PROVE  IsPaint(Picture(drawn[i], at[i]))
    <3>1. drawn[i] \in Bar /\ at[i] \in [Items -> Strip]
      BY <1>1, <1>2, <1>4
    <3>2. drawn[i].sid \in SpaceIds
      BY <3>1 DEF Bar, SpaceIds
    <3> DEFINE p == Picture(drawn[i], at[i])
    <3>3. /\ p = [sid |-> p.sid, chips |-> p.chips] /\ p.sid = drawn[i].sid
          /\ DOMAIN p.chips = {it \in Items : Draws(drawn[i], it)}
          /\ \A it \in Items : Draws(drawn[i], it) => p.chips[it] = at[i][it]
      BY PictureOf
    <3> HIDE DEF p
    <3>4. IsPaint(p)
      BY <3>1, <3>2, <3>3 DEF IsPaint
    <3>5. QED
      BY <3>4 DEF p
  <2>3. QED
    BY <1>3, <2>1, <2>2
<1>8. QED
  BY <1>3, <1>5, <1>6, <1>7

\* A sync of all the bars in need leaves strips.
LEMMA SyncedTyped ==
  ASSUME WorldOK, RestOK, NEW bs, SameBars(bs), NEW need
  PROVE  SyncAll(chips, bs, need)[Len(bs)] \in [Items -> Strip]
<1>1. bs \in Seq(Bar) /\ chips \in [Items -> Strip] /\ Len(bs) \in 0 .. Len(bs)
  BY DEF SameBars, RestOK
<1>2. QED
  BY <1>1, SyncAllTyped

LEMMA SelectTyped ==
  ASSUME RestOK, NEW bs, NEW need
  PROVE  Select(bs, need) \in [Items -> BOOLEAN]
BY DEF RestOK, Select

LEMMA TickTyped ==
  ASSUME WorldOK, RestOK, Tick \/ SecondTick
  PROVE  RestOK'
<1>1. UNCHANGED <<world, log>> /\ dirty' = FALSE
  BY DEF Tick, SecondTick
<1>2. CASE Tick
  <2>1. SameBars(bars) /\ \E focus \in active : Refresh(bars, chips, selected, focus)
    BY <1>2 DEF SameBars, WorldOK, Tick
  <2>2. /\ chips' \in [Items -> Strip] /\ selected' \in [Items -> BOOLEAN]
        /\ painted' \in [Displays -> Range(painted')]
        /\ \A d \in Displays : IsPaint(painted'[d])
    BY <2>1, RefreshTyped DEF RestOK
  <2>3. QED
    BY <1>1, <2>2 DEF RestOK, world
<1>3. CASE SecondTick
  <2>1. PICK focus \in active :
          Refresh(Reread(focus),
                  SyncAll(chips, Reread(focus), StaleBars(focus))[Len(Reread(focus))],
                  Select(Reread(focus), StaleBars(focus)), focus)
    BY <1>3, SecondTickIs
  <2> DEFINE bs == Reread(focus)
             ch == SyncAll(chips, bs, StaleBars(focus))[Len(bs)]
             sel == Select(bs, StaleBars(focus))
  <2>2. SameBars(bs)
    BY RereadBars
  <2> HIDE DEF bs
  <2>3. ch \in [Items -> Strip] /\ sel \in [Items -> BOOLEAN]
    BY <2>2, SyncedTyped, SelectTyped
  <2>4. Refresh(bs, ch, sel, focus)
    BY <2>1 DEF bs
  <2> HIDE DEF ch, sel
  <2>5. /\ chips' \in [Items -> Strip] /\ selected' \in [Items -> BOOLEAN]
        /\ painted' \in [Displays -> Range(painted')]
        /\ \A d \in Displays : IsPaint(painted'[d])
    BY <2>2, <2>3, <2>4, RefreshTyped
  <2>6. QED
    BY <1>1, <2>5 DEF RestOK, world
<1>4. QED
  BY <1>2, <1>3

LEMMA SpaceNoteTyped ==
  ASSUME WorldOK, RestOK, SpaceNote
  PROVE  RestOK'
<1>1. \A S : Seeded(S) \in [Displays -> SpaceIds]
  BY DEF Seeded, RestOK, WorldOK, SpaceIds
<1>2. UNCHANGED <<world, painted>>
  BY DEF SpaceNote, Called
<1>3. CASE log' = Seeded({}) /\ UNCHANGED <<bars, chips, selected, dirty>>
  BY <1>1, <1>2, <1>3 DEF RestOK, world
<1>4. ASSUME NEW d \in Displays, NEW unscanned,
             log' = [Seeded(unscanned) EXCEPT ![d] = current[d]], SpaceChanged(current[d])
      PROVE  RestOK'
  <2>1. current[d] \in Spaces /\ current[d] \in SpaceIds
    BY DEF WorldOK, SpaceIds
  <2>2. log' \in [Displays -> SpaceIds]
    BY <1>1, <1>4, <2>1
  <2> DEFINE bs == Told(current[d])
  <2>3. SameBars(bs)
    BY <1>4, SpaceChangedIs
  <2>4. /\ chips' = SyncAll(chips, bs, All)[Len(bs)] /\ selected' = Select(bs, All)
        /\ dirty' = TRUE
    BY <1>4, SpaceChangedIs
  <2> HIDE DEF bs
  <2>5. chips' \in [Items -> Strip] /\ selected' \in [Items -> BOOLEAN]
    BY <2>3, <2>4, SyncedTyped, SelectTyped
  <2>6. QED
    BY <1>2, <2>2, <2>4, <2>5 DEF RestOK, world
<1>5. QED
  BY <1>3, <1>4 DEF SpaceNote, Called

LEMMA RestStep == WorldOK /\ RestOK /\ [Next]_vars => RestOK'
<1> SUFFICES ASSUME WorldOK, RestOK, [Next]_vars
             PROVE  RestOK'
  OBVIOUS
<1>1. CASE Outside
  <2>1. Happens /\ UNCHANGED <<log, chips, selected, dirty, painted>>
    BY <1>1, Zenon DEF Outside, Switch, CreateSpace, Plug, Unplug, Arrange, Click, Show
  <2>2. changes' \in 0 .. MaxChanges
    BY <2>1, ConstantsAssumption DEF Happens, RestOK
  <2>3. QED
    BY <2>1, <2>2 DEF RestOK
<1>2. CASE SpaceNote
  BY <1>2, SpaceNoteTyped
<1>3. CASE DisplayAdded
  BY <1>3 DEF DisplayAdded, RestOK, world, Called
<1>4. CASE DisplayRemoved \/ DisplayMoved
  <2>1. /\ painted' \in [Displays -> Range(painted')]
        /\ \A d \in Displays : IsPaint(painted'[d])
    BY <1>4, BlankOK DEF DisplayRemoved, DisplayMoved, RestOK, Range, Called
  <2>2. QED
    BY <1>4, <2>1 DEF DisplayRemoved, DisplayMoved, RestOK, world, Called
<1>5. CASE Tick \/ SecondTick
  BY <1>5, TickTyped
<1>6. CASE UNCHANGED vars
  BY <1>6 DEF vars, world, RestOK
<1>7. QED
  BY <1>1, <1>2, <1>3, <1>4, <1>5, <1>6 DEF Next, Outside, Callback

\* Type correctness, and no strip is ever longer than OMABAR_MAX_SPACES
\* (bar.c: bar_item_sync_spaces).
THEOREM TypeCorrect == Spec => []TypeOK
<1>1. Inv /\ RestOK => TypeOK
  BY TypesOK DEF Inv
<1>2. Inv /\ RestOK /\ [Next]_vars => (Inv /\ RestOK)'
  BY InvStep, RestStep DEF Inv
<1>3. QED
  BY Initially, RestInit, <1>1, <1>2, PTL DEF Spec

-----------------------------------------------------------------------------
(* One chip highlighted *)

Lit ==
  \A d \in Displays : \A it \in DOMAIN painted[d].chips :
    Once(painted[d].chips[it], painted[d].sid)

StripInv == Distinct /\ Marked(bars, chips) /\ Lit

LEMMA LitIsHighlighted ==
  ASSUME Lit
  PROVE  \A d \in Displays : \A it \in DOMAIN painted[d].chips :
           Cardinality(Highlighted(d, it)) = 1
<1> SUFFICES ASSUME NEW d \in Displays, NEW it \in DOMAIN painted[d].chips
             PROVE  Cardinality(Highlighted(d, it)) = 1
  OBVIOUS
<1> DEFINE c == painted[d].chips[it]
<1>1. PICK k \in DOMAIN c : \A m \in DOMAIN c : c[m] = painted[d].sid <=> m = k
  BY DEF Lit, Once
<1>2. Highlighted(d, it) = {k}
  BY <1>1 DEF Highlighted
<1>3. QED
  BY <1>2, FS_Singleton

LEMMA StripInit == Init => StripInv
<1> SUFFICES ASSUME Init
             PROVE  StripInv
  OBVIOUS
<1>1. Distinct
  BY ConstantsAssumption DEF Init, Distinct
<1>2. PICK order \in SetToSeqs(active) : bars = [i \in DOMAIN order |-> NewBar(order[i])]
  BY DEF Init
<1>3. Marked(bars, chips)
  BY <1>2 DEF Marked, NewBar
<1>4. \A d \in Displays : DOMAIN painted[d].chips = {}
  BY DEF Init, Blank
<1>5. QED
  BY <1>1, <1>3, <1>4 DEF StripInv, Lit

\* What bars draw does not change with the spaces they are given.
LEMMA SameUnshared ==
  ASSUME ~Shared, NEW bs, SameBars(bs)
  PROVE  Unshared(bs)
BY DEF Shared, Draws, SameBars, Unshared

LEMMA RefreshMarks ==
  ASSUME ~Shared, WorldOK, Distinct, Lit, NEW bs, SameBars(bs), NEW focus \in active,
         NEW ch, Marked(bs, ch), NEW sel, Refresh(bs, ch, sel, focus)
  PROVE  Marked(bars, chips)' /\ Lit'
<1> DEFINE drawn == Drawn(bs, focus)
           at == SyncAll(ch, drawn, Fresh(bs))
<1>1. /\ drawn \in Seq(Bar) /\ DOMAIN drawn = DOMAIN bs /\ Len(drawn) = Len(bs)
      /\ SameBars(drawn)
      /\ \A i \in DOMAIN bs :
           /\ drawn[i].did = bs[i].did /\ drawn[i].adid = bs[i].adid
           /\ bs[i].adid >= 1 => drawn[i].synced
           /\ ~Fresh(bs)[i] => drawn[i] = bs[i]
  BY DrawnBars
<1>2. Unshared(drawn)
  BY <1>1, SameUnshared
<1>3. /\ bars' = drawn /\ chips' = at[Len(bs)]
      /\ painted' \in [Displays -> Range(painted')]
      /\ \A d \in Displays :
           \/ painted'[d] = painted[d]
           \/ \E i \in DOMAIN bs :
                Paints(bs[i], d) /\ painted'[d] = Picture(drawn[i], at[i])
  BY RefreshIs
<1>4. DOMAIN drawn = 1 .. Len(drawn)
  BY <1>1
<1>5. ASSUME NEW i \in DOMAIN bs, NEW it \in Items, Draws(drawn[i], it), drawn[i].synced
      PROVE  Once(at[i][it], drawn[i].sid) /\ Once(at[Len(drawn)][it], drawn[i].sid)
  <2>1. Fresh(bs)[i] \/ Once(ch[it], drawn[i].sid)
    BY <1>1, <1>5 DEF Marked
  <2>2. i \in 1 .. Len(drawn)
    BY <1>1, <1>4
  <2> HIDE DEF drawn
  <2>3. /\ Once(SyncAll(ch, drawn, Fresh(bs))[i][it], drawn[i].sid)
        /\ Once(SyncAll(ch, drawn, Fresh(bs))[Len(drawn)][it], drawn[i].sid)
    BY <1>1, <1>2, <1>5, <2>1, <2>2, SyncAllMarks
  <2>4. QED
    BY <2>3 DEF drawn
<1> HIDE DEF at, drawn
<1>6. Marked(bars, chips)'
  <2>1. Marked(drawn, at[Len(drawn)])
    BY <1>1, <1>5 DEF Marked
  <2>2. Marked(bars', chips')
    BY <1>1, <1>3, <2>1
  <2>3. QED
    BY <2>2 DEF Marked
<1>7. Lit'
  <2>1. ASSUME NEW d \in Displays, NEW it \in DOMAIN painted'[d].chips
        PROVE  Once(painted'[d].chips[it], painted'[d].sid)
    <3>1. CASE painted'[d] = painted[d]
      BY <3>1 DEF Lit
    <3>2. ASSUME NEW i \in DOMAIN bs, Paints(bs[i], d),
                 painted'[d] = Picture(drawn[i], at[i])
          PROVE  Once(painted'[d].chips[it], painted'[d].sid)
      <4>1. /\ painted'[d].sid = drawn[i].sid
            /\ DOMAIN painted'[d].chips = {x \in Items : Draws(drawn[i], x)}
            /\ \A x \in Items : Draws(drawn[i], x) => painted'[d].chips[x] = at[i][x]
        BY <3>2, PictureOf
      <4>2. drawn[i].synced
        BY <1>1, <3>2 DEF Paints
      <4>3. it \in Items /\ Draws(drawn[i], it)
        BY <4>1
      <4>4. Once(at[i][it], drawn[i].sid)
        BY <1>5, <4>2, <4>3
      <4>5. QED
        BY <4>1, <4>3, <4>4
    <3>3. QED
      BY <1>3, <3>1, <3>2
  <2>2. QED
    BY <2>1 DEF Lit, Once
<1>8. QED
  BY <1>6, <1>7

\* After a sync of all the bars in need the strips of all are right, if those of the
\* others were.
LEMMA SyncMarks ==
  ASSUME ~Shared, WorldOK, Distinct, NEW bs, SameBars(bs), NEW need,
         \A i \in DOMAIN bs : bs[i].synced /\ ~need[i] =>
           bars[i].synced /\ bs[i].sid = bars[i].sid,
         Marked(bars, chips)
  PROVE  Marked(bs, SyncAll(chips, bs, need)[Len(bs)])
<1>1. bs \in Seq(Bar) /\ DOMAIN bs = 1 .. Len(bs) /\ Unshared(bs)
  BY SameUnshared DEF SameBars
<1>2. ASSUME NEW i \in DOMAIN bs, bs[i].synced, NEW it \in Items, Draws(bs[i], it)
      PROVE  Once(SyncAll(chips, bs, need)[Len(bs)][it], bs[i].sid)
  <2>1. need[i] \/ Once(chips[it], bs[i].sid)
    BY <1>2 DEF Marked, SameBars, Draws
  <2>2. i \in 1 .. Len(bs)
    BY <1>1
  <2>3. QED
    BY <1>1, <1>2, <2>1, <2>2, SyncAllMarks
<1>3. QED
  BY <1>2 DEF Marked

LEMMA TickMarks ==
  ASSUME ~Shared, Inv, StripInv, Tick \/ SecondTick
  PROVE  StripInv'
<1> USE DEF Inv, StripInv
<1>1. Distinct'
  BY DEF Tick, SecondTick, world, Distinct
<1>2. CASE Tick
  <2>1. SameBars(bars) /\ \E focus \in active : Refresh(bars, chips, selected, focus)
    BY <1>2 DEF SameBars, WorldOK, Tick
  <2>2. QED
    BY <1>1, <2>1, RefreshMarks
<1>3. CASE SecondTick
  <2>1. PICK focus \in active :
          Refresh(Reread(focus),
                  SyncAll(chips, Reread(focus), StaleBars(focus))[Len(Reread(focus))],
                  Select(Reread(focus), StaleBars(focus)), focus)
    BY <1>3, SecondTickIs
  <2> DEFINE bs == Reread(focus)
             stale == StaleBars(focus)
             ch == SyncAll(chips, bs, stale)[Len(bs)]
             sel == Select(bs, stale)
  <2>2. /\ SameBars(bs)
        /\ \A i \in DOMAIN bars :
             bs[i].synced = bars[i].synced /\ (~stale[i] => bs[i].sid = bars[i].sid)
    BY RereadBars
  <2>3. Refresh(bs, ch, sel, focus)
    BY <2>1
  <2> HIDE DEF bs, stale
  <2>4. \A i \in DOMAIN bs : bs[i].synced /\ ~stale[i] =>
          bars[i].synced /\ bs[i].sid = bars[i].sid
    BY <2>2 DEF SameBars
  <2>5. Marked(bs, ch)
    BY <2>2, <2>4, SyncMarks
  <2> HIDE DEF ch, sel
  <2>6. QED
    BY <1>1, <2>2, <2>3, <2>5, RefreshMarks
<1>4. QED
  BY <1>2, <1>3

LEMMA SpaceNoteMarks ==
  ASSUME ~Shared, Inv, StripInv, SpaceNote
  PROVE  StripInv'
<1> USE DEF Inv, StripInv
<1>1. UNCHANGED <<world, painted>>
  BY DEF SpaceNote, Called
<1>2. Distinct' /\ Lit'
  BY <1>1 DEF world, Distinct, Lit
<1>3. CASE UNCHANGED <<bars, chips>>
  BY <1>2, <1>3 DEF Marked
<1>4. ASSUME NEW d \in Displays, SpaceChanged(current[d])
      PROVE  Marked(bars, chips)'
  <2> DEFINE bs == Told(current[d])
  <2>1. SameBars(bs)
    BY <1>4, SpaceChangedIs
  <2>2. bars' = bs /\ chips' = SyncAll(chips, bs, All)[Len(bs)]
    BY <1>4, SpaceChangedIs
  <2>3. \A i \in DOMAIN bs : All[i]
    BY <2>1 DEF All, SameBars
  <2> HIDE DEF bs
  <2>4. Marked(bs, SyncAll(chips, bs, All)[Len(bs)])
    BY <2>1, <2>3, SyncMarks
  <2>5. Marked(bars', chips')
    BY <2>2, <2>4
  <2>6. QED
    BY <2>5 DEF Marked
<1>5. QED
  BY <1>2, <1>3, <1>4 DEF SpaceNote, Called

\* CreateSpace appends a space that no display has.
LEMMA OutsideMarks ==
  ASSUME Inv, StripInv,
         Outside
  PROVE  StripInv'
<1>1. UNCHANGED <<bars, chips, painted>>
  BY Zenon DEF Outside, Switch, CreateSpace, Plug, Unplug, Arrange, Click, Show
<1>2. Marked(bars, chips)' /\ Lit'
  BY <1>1 DEF StripInv, Marked, Lit
<1>3. CASE UNCHANGED spaces
  BY <1>2, <1>3 DEF StripInv, Distinct
<1>4. ASSUME NEW d \in Displays, CreateSpace(d)
      PROVE  Distinct'
  <2>1. PICK s \in Spaces : /\ \A e \in Displays : ~Contains(spaces[e], s)
                            /\ spaces' = [spaces EXCEPT ![d] = Append(@, s)]
    BY <1>4 DEF CreateSpace
  <2> DEFINE old == spaces[d]
             new == Append(old, s)
  <2>2. old \in Seq(Spaces) /\ IsInjective(old) /\ \A k \in 1 .. Len(old) : old[k] # s
    BY <2>1 DEF Inv, WorldOK, StripInv, Distinct, Contains
  <2>3. new \in Seq(Spaces) /\ DOMAIN new = 1 .. Len(old) + 1 /\ new[Len(old) + 1] = s
        /\ DOMAIN old = 1 .. Len(old) /\ \A k \in 1 .. Len(old) : new[k] = old[k]
    BY <2>2
  <2>4. \A e \in Displays : spaces'[e] = IF e = d THEN new ELSE spaces[e]
    BY <2>1 DEF Inv, WorldOK
  <2> HIDE DEF old, new
  <2>5. IsInjective(new)
    BY <2>2, <2>3 DEF IsInjective
  <2>6. QED
    BY <2>4, <2>5 DEF StripInv, Distinct
<1>5. QED
  BY <1>2, <1>3, <1>4 DEF StripInv, Outside, Switch, Plug, Unplug, Arrange, Click, Show

LEMMA AddedMarks ==
  ASSUME Inv, StripInv, DisplayAdded
  PROVE  StripInv'
<1>1. Distinct' /\ Lit' /\ chips' = chips
  BY DEF DisplayAdded, world, StripInv, Distinct, Lit, Called
<1>2. CASE bars' = bars
  BY <1>1, <1>2 DEF StripInv, Marked
<1>3. ASSUME NEW d, bars' = Append(bars, NewBar(d))
      PROVE  Marked(bars, chips)'
  <2>1. bars \in Seq(Bar)
    BY DEF Inv, WorldOK
  <2>2. NewBar(d).synced = FALSE
    BY DEF NewBar
  <2> DEFINE new == NewBar(d)
  <2> HIDE DEF new
  <2>3. /\ DOMAIN bars' = 1 .. Len(bars) + 1 /\ DOMAIN bars = 1 .. Len(bars)
        /\ Len(bars) \in Nat
        /\ bars'[Len(bars) + 1] = new /\ \A i \in 1 .. Len(bars) : bars'[i] = bars[i]
    BY <1>3, <2>1 DEF new
  <2>4. ASSUME NEW i \in DOMAIN bars', bars'[i].synced
        PROVE  i \in DOMAIN bars /\ bars'[i] = bars[i]
    BY <2>2, <2>3, <2>4 DEF new
  <2>5. QED
    BY <1>1, <2>4 DEF StripInv, Marked
<1>4. QED
  BY <1>1, <1>2, <1>3 DEF DisplayAdded, StripInv, Called

LEMMA RemovedMarks ==
  ASSUME Inv, StripInv, DisplayRemoved
  PROVE  StripInv'
<1> DEFINE n == Len(bars)
<1>1. Distinct' /\ chips' = chips
  BY DEF DisplayRemoved, world, StripInv, Distinct, Called
<1>2. Lit'
  BY DEF DisplayRemoved, StripInv, Lit, Blank, Called
<1>3. bars \in Seq(Bar) /\ n \in Nat /\ DOMAIN bars = 1 .. n
  BY DEF Inv, WorldOK
<1>4. CASE bars' = bars
  BY <1>1, <1>2, <1>4 DEF StripInv, Marked
<1>5. ASSUME NEW i \in 1 .. n, bars' = SubSeq([bars EXCEPT ![i] = bars[n]], 1, n - 1)
      PROVE  Marked(bars, chips)'
  <2> DEFINE moved == [bars EXCEPT ![i] = bars[n]]
  <2>1. moved \in Seq(Bar) /\ Len(moved) = n
    BY <1>3
  <2>2. DOMAIN bars' = 1 .. n - 1 /\ \A j \in 1 .. n - 1 : bars'[j] = moved[j]
    BY <1>3, <1>5, <2>1
  <2>3. \A j \in 1 .. n : moved[j] = IF j = i THEN bars[n] ELSE bars[j]
    BY <1>3
  <2> HIDE DEF moved
  <2>4. \A j \in DOMAIN bars' : \E k \in DOMAIN bars : bars'[j] = bars[k]
    BY <1>3, <2>2, <2>3
  <2>5. QED
    BY <1>1, <2>4 DEF StripInv, Marked
<1>6. bars' = bars \/ \E i \in 1 .. n : bars' = SubSeq([bars EXCEPT ![i] = bars[n]], 1, n - 1)
  BY DEF DisplayRemoved, Called
<1>7. QED
  BY <1>1, <1>2, <1>4, <1>5, <1>6 DEF StripInv

LEMMA MovedMarks ==
  ASSUME StripInv, DisplayMoved
  PROVE  StripInv'
BY DEF DisplayMoved, world, StripInv, Distinct, Marked, Lit, Called

LEMMA StripStep == ~Shared /\ Inv /\ StripInv /\ [Next]_vars => StripInv'
<1> SUFFICES ASSUME ~Shared, Inv, StripInv, [Next]_vars
             PROVE  StripInv'
  OBVIOUS
<1>1. CASE Outside
  BY <1>1, OutsideMarks
<1>2. CASE Callback
  BY <1>2, SpaceNoteMarks, AddedMarks, RemovedMarks, MovedMarks DEF Callback
<1>3. CASE Tick \/ SecondTick
  BY <1>3, TickMarks
<1>4. CASE UNCHANGED vars
  BY <1>4 DEF vars, world, StripInv, Distinct, Marked, Lit
<1>5. QED
  BY <1>1, <1>2, <1>3, <1>4 DEF Next, Outside

\* bar.c:211-212 "exactly one chip is selected and the rest are not", bar.c:229 "Never
\* present a strip with nothing highlighted": as long as no two bars draw the same item,
\* every bar paints one highlighted chip in every strip, whatever spaces come, go
\* unnoticed or exceed OMABAR_MAX_SPACES, and whichever bar an event reaches first.
THEOREM OneChip == Spec => OneHighlighted
<1>1. Init => Inv /\ StripInv
  BY Initially, StripInit
<1>2. ~Shared /\ Inv /\ StripInv /\ [Next]_vars => (Inv /\ StripInv)'
  BY InvStep, StripStep
<1>3. Inv /\ StripInv =>
        \A d \in Displays : \A it \in DOMAIN painted[d].chips :
          Cardinality(Highlighted(d, it)) = 1
  BY LitIsHighlighted DEF StripInv
<1>4. QED
  BY <1>1, <1>2, <1>3, PTL DEF Spec, OneHighlighted

=============================================================================
