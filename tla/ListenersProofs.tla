--------------------------- MODULE ListenersProofs ---------------------------
(***************************************************************************)
(* What the listeners promise, for any configurations, devices, volumes    *)
(* and threshold.  The audio thread listens to the device g_audio_id       *)
(* names, and when it has nothing left to deliver the volume it posted     *)
(* last is near that device's.  The items loaded are those the             *)
(* configuration says, and none of them is overdue.                        *)
(***************************************************************************)
EXTENDS Listeners, WellFoundedInduction, TLAPS

MachineStates ==
  [device : Devices, volume : [Devices -> Volumes],
   muted : [Devices -> BOOLEAN], batteries : Batteries,
   source : {"AC", "Battery", "UPS", "unknown"},
   value : [Others -> Values], dnd : {"on", "off", "unreadable"}]

WorldOK == world \in MachineStates

\* Nothing is delivered before volume_begin; then the device in audio is the
\* one listened to, and the one handler compares.
Wired ==
  /\ phase \in {"load", "begin", "listen", "run", "exit"}
  /\ phase \in {"load", "begin", "listen"} =>
       listening = {} /\ onDevice = FALSE /\ hal = Idle /\ last = NoVolume
  /\ phase = "listen" => audio \in Devices
  /\ phase = "run" => audio \in Devices /\ listening = {audio} /\ onDevice = TRUE
  /\ phase = "run" /\ hal[1] = "handler" => hal[2] = audio
  /\ phase = "run" /\ hal[1] = "device" => hal[2] \in Devices

\* While handler runs, the mute it has read is the device's; otherwise the last
\* volume posted is near; or a notification has still to come.
Tracked ==
  phase = "run" =>
    \/ audio \in notes
    \/ IF hal[1] = "handler" THEN hal[3] = world.muted[audio]
       ELSE last # NoVolume => ~Away(Heard(audio, world.muted[audio]), last)

Inv == WorldOK /\ Wired /\ Tracked

LEMMA Distances == \A v \in Volumes \cup {0} : v \in Int /\ ~Away(v, v)
BY ListenersAssumption DEF Away

LEMMA Initially == Init => Inv
BY ListenersAssumption DEF Init, Inv, WorldOK, Wired, Tracked, MachineStates, Idle

\* The machine stays a machine.
LEMMA WorldStep == WorldOK /\ [Next]_vars => WorldOK'
<1> SUFFICES ASSUME WorldOK, [Next]_vars
             PROVE  WorldOK'
  OBVIOUS
<1> USE DEF WorldOK
<1>1. CASE UNCHANGED world
  BY <1>1
<1>2. CASE VolumeMoves
  <2>1. \E d \in Devices : \/ \E v \in Volumes : world' = [world EXCEPT !.volume[d] = v]
                           \/ world' = [world EXCEPT !.muted[d] = ~@]
    BY <1>2 DEF VolumeMoves
  <2>2. ASSUME NEW d \in Devices, NEW v \in Volumes, world' = [world EXCEPT !.volume[d] = v]
        PROVE  world' \in MachineStates
    BY <2>2 DEF MachineStates
  <2>3. ASSUME NEW d \in Devices, world' = [world EXCEPT !.muted[d] = ~@]
        PROVE  world' \in MachineStates
    <3> DEFINE m == [world.muted EXCEPT ![d] = ~world.muted[d]]
    <3>1. m \in [Devices -> BOOLEAN]
      BY DEF MachineStates
    <3>2. world' = [world EXCEPT !.muted = m]
      BY <2>3
    <3> HIDE DEF m
    <3>3. QED
      BY <3>1, <3>2 DEF MachineStates
  <2>4. QED
    BY <2>1, <2>2, <2>3
<1>3. CASE DefaultMoves
  BY <1>3 DEF DefaultMoves, MachineStates
<1>4. CASE PowerMoves
  BY <1>4 DEF PowerMoves, MachineStates
<1>5. CASE OthersMove
  <2>1. \/ \E o \in Others, v \in Values : world' = [world EXCEPT !.value[o] = v]
        \/ \E s \in {"on", "off", "unreadable"} : world' = [world EXCEPT !.dnd = s]
    BY <1>5 DEF OthersMove
  <2>2. QED
    BY <2>1 DEF MachineStates
<1>6. QED
  BY <1>1, <1>2, <1>3, <1>4, <1>5
     DEF Next, vars, LoadConfig, ReadDevice, Listen, Shutdown, volume_end, Delivery, VolumeNote,
         DeviceNote, DeviceChanged, Handler, VolumeChanged, Main, Tick, Wake, Trigger, PowerNote

-----------------------------------------------------------------------------
LEMMA WiredStep == Wired /\ WorldOK /\ [Next]_vars => Wired'
<1> SUFFICES ASSUME Wired, WorldOK, [Next]_vars
             PROVE  Wired'
  OBVIOUS
<1> USE DEF Wired
<1>1. CASE UNCHANGED <<phase, audio, last, listening, onDevice, hal>>
  BY <1>1
<1>2. CASE LoadConfig
  BY <1>2 DEF LoadConfig, core
<1>3. CASE ReadDevice
  BY <1>3 DEF ReadDevice, WorldOK, MachineStates
<1>4. CASE Listen
  BY <1>4 DEF Listen, Idle
<1>5. CASE Shutdown
  BY <1>5 DEF Shutdown, volume_end
<1>6. ASSUME NEW d \in Devices, VolumeNote(d)
      PROVE  Wired'
  BY <1>6 DEF VolumeNote, Main, Enter, Off
<1>7. CASE DeviceNote
  BY <1>7 DEF DeviceNote, Main, WorldOK, MachineStates, Off
<1>8. CASE DeviceChanged
  BY <1>8 DEF DeviceChanged, Main, Enter, Off, Idle
<1>9. CASE Handler
  BY <1>9 DEF Handler, Main, Off, Idle
<1>10. CASE VolumeChanged
  <2>1. UNCHANGED <<phase, audio, last, listening, onDevice>>
    BY <1>10 DEF VolumeChanged
  <2>2. hal'[1] = "idle" /\ hal' = Idle
    BY <1>10 DEF VolumeChanged, Idle
  <2>3. QED
    BY <2>1, <2>2
<1>11. CASE Tick \/ Wake \/ Trigger \/ PowerNote \/ UNCHANGED vars
  BY <1>1, <1>11 DEF Tick, Wake, Trigger, PowerNote, vars, core
<1>12. CASE VolumeMoves \/ DefaultMoves \/ PowerMoves \/ OthersMove
  BY <1>1, <1>12 DEF VolumeMoves, DefaultMoves, PowerMoves, OthersMove, core
<1>13. QED
  BY <1>2, <1>3, <1>4, <1>5, <1>6, <1>7, <1>8, <1>9, <1>10, <1>11, <1>12 DEF Next, Delivery

LEMMA TrackedStep == Inv /\ [Next]_vars => Tracked'
<1> SUFFICES ASSUME Inv, [Next]_vars
             PROVE  Tracked'
  OBVIOUS
<1> USE DEF Inv
<1>1. CASE UNCHANGED <<world, phase, audio, last, notes, hal>>
  BY <1>1 DEF Tracked, Heard
<1>2. CASE phase' # "run"
  BY <1>2 DEF Tracked
<1>3. CASE LoadConfig \/ ReadDevice \/ Shutdown
  BY <1>2, <1>3 DEF LoadConfig, ReadDevice, Shutdown, volume_end
<1>4. CASE Listen
  BY <1>4 DEF Listen, Wired, Tracked, Idle
<1>5. ASSUME NEW d \in Devices, VolumeNote(d)
      PROVE  Tracked'
  <2>1. CASE phase = "run"
    <3>1. d = audio /\ hal'[1] = "handler" /\ hal'[3] = world.muted[audio]
      BY <1>5, <2>1 DEF VolumeNote, Wired, Enter
    <3>2. UNCHANGED <<world, audio>>
      BY <1>5 DEF VolumeNote, Main
    <3>3. QED
      BY <3>1, <3>2 DEF Tracked
  <2>2. CASE phase # "run"
    BY <1>2, <1>5, <2>2 DEF VolumeNote, Main
  <2>3. QED
    BY <2>1, <2>2
<1>6. CASE DeviceNote
  <2>1. phase = "run" => audio # "device"
    BY ListenersAssumption DEF Wired
  <2>2. UNCHANGED <<world, phase, audio, last>> /\ notes' = notes \ {"device"} /\ hal = Idle
    BY <1>6 DEF DeviceNote, Main
  <2>3. hal'[1] = "device"
    BY <1>6 DEF DeviceNote
  <2>4. QED
    BY <2>1, <2>2, <2>3 DEF Tracked, Heard, Idle
<1>7. CASE DeviceChanged
  BY <1>7 DEF DeviceChanged, Main, Enter, Tracked
<1>8. CASE Handler
  <2>1. CASE phase = "run"
    <3> DEFINE v == Heard(hal[2], hal[3])
    <3>1. hal[2] = audio /\ audio \in Devices
      BY <1>8, <2>1 DEF Handler, Wired
    <3>2. v \in Volumes \cup {0}
      BY <3>1 DEF Heard, WorldOK, MachineStates
    <3>3. ~Away(v, last')
      BY <1>8, <3>2, Distances DEF Handler
    <3>4. UNCHANGED <<world, audio, notes>> /\ hal'[1] # "handler" /\ hal[1] = "handler"
      BY <1>8 DEF Handler, Main, Idle
    <3>5. QED
      <4>1. CASE audio \in notes
        BY <3>4, <4>1 DEF Tracked
      <4>2. CASE hal[3] = world.muted[audio]
        <5>1. v = (IF world'.muted[audio'] THEN 0 ELSE world'.volume[audio'])
          BY <3>1, <3>4, <4>2 DEF Heard
        <5> HIDE DEF v
        <5>2. ~(v > last' + Threshold) /\ ~(v < last' - Threshold)
          BY <3>3 DEF Away
        <5>3. QED
          BY <3>4, <5>1, <5>2 DEF Tracked, Away, Heard
      <4>3. QED
        BY <2>1, <3>4, <4>1, <4>2 DEF Tracked
  <2>2. CASE phase # "run"
    BY <1>2, <1>8, <2>2 DEF Handler, Main
  <2>3. QED
    BY <2>1, <2>2
<1>9. CASE VolumeChanged
  BY <1>9 DEF VolumeChanged, Tracked, Heard, Idle
<1>10. CASE Tick \/ Wake \/ Trigger \/ PowerNote \/ UNCHANGED vars
  BY <1>1, <1>10 DEF Tick, Wake, Trigger, PowerNote, vars, core
<1>11. CASE VolumeMoves
  <2>1. PICK d \in Devices :
          /\ \/ \E v \in Volumes : world' = [world EXCEPT !.volume[d] = v]
             \/ world' = [world EXCEPT !.muted[d] = ~@]
          /\ notes' = notes \cup ({d} \cap listening)
    BY <1>11 DEF VolumeMoves, Tell
  <2>2. UNCHANGED <<phase, audio, last, hal>>
    BY <1>11 DEF VolumeMoves
  <2>3. CASE phase = "run" /\ d # audio
    <3>1. world'.volume[audio] = world.volume[audio] /\ world'.muted[audio] = world.muted[audio]
      BY <2>1, <2>3 DEF WorldOK, MachineStates, Wired
    <3>2. QED
      BY <2>1, <2>2, <2>3, <3>1 DEF Tracked, Heard
  <2>4. CASE phase = "run" /\ d = audio
    BY <2>1, <2>2, <2>4 DEF Tracked, Wired
  <2>5. QED
    BY <1>2, <2>2, <2>3, <2>4
<1>12. CASE DefaultMoves \/ PowerMoves \/ OthersMove
  <2>1. UNCHANGED <<phase, audio, last, hal>> /\ notes \subseteq notes'
    BY <1>12 DEF DefaultMoves, PowerMoves, OthersMove, core, Tell
  <2>2. world'.volume = world.volume /\ world'.muted = world.muted
    BY <1>12 DEF DefaultMoves, PowerMoves, OthersMove, WorldOK, MachineStates
  <2>3. QED
    BY <2>1, <2>2 DEF Tracked, Heard
<1>13. QED
  BY <1>3, <1>4, <1>5, <1>6, <1>7, <1>8, <1>9, <1>10, <1>11, <1>12 DEF Next, Delivery

\* handler, volume.c:72: the volume that was posted last, and that the items
\* were told, is near the one the device has once the thread is quiet.
THEOREM QuietNear == Spec => []QuietMeansNear
<1>1. Inv => QuietMeansNear
  BY DEF Inv, Tracked, QuietMeansNear, Idle
<1>2. Inv /\ [Next]_vars => Inv'
  BY WorldStep, WiredStep, TrackedStep DEF Inv
<1>3. QED
  BY Initially, <1>1, <1>2, PTL DEF Spec

\* device_changed, volume_begin: in a running daemon exactly the device that
\* g_audio_id names is listened to, however often the default device changes.
THEOREM ListensToOne == Spec => [](phase = "run" => listening = {audio})
<1>1. Inv => (phase = "run" => listening = {audio})
  BY DEF Inv, Wired
<1>2. Inv /\ [Next]_vars => Inv'
  BY WorldStep, WiredStep, TrackedStep DEF Inv
<1>3. QED
  BY Initially, <1>1, <1>2, PTL DEF Spec

-----------------------------------------------------------------------------
(* Induction up to a number, and folds over a list: FoldLeft takes the greatest *)
(* index out first                                                             *)

\* A non-empty set of natural numbers has a least one.
LEMMA Smallest ==
  ASSUME NEW S \in SUBSET Nat, S # {}
  PROVE  \E n \in S : \A m \in S : n <= m
<1>1. PICK n \in S : \A m \in S : ~ (<<m, n>> \in OpToRel(<, Nat))
  BY NatLessThanWellFounded, WFMin
<1>2. \A m \in S : ~ (m < n)
  BY <1>1 DEF OpToRel
<1>3. QED
  BY <1>2

LEMMA UpTo ==
  ASSUME NEW n \in Nat, NEW S, 0 \in S,
         \A k \in 1 .. n : k - 1 \in S => k \in S
  PROVE  0 .. n \subseteq S
<1> DEFINE missing == (0 .. n) \ S
<1>1. SUFFICES ASSUME missing # {}
               PROVE  FALSE
  OBVIOUS
<1>2. missing \in SUBSET Nat
  OBVIOUS
<1>3. PICK k \in missing : \A m \in missing : k <= m
  BY <1>1, <1>2, Smallest
<1>4. k \in 1 .. n /\ k - 1 \notin missing
  BY <1>3
<1>5. QED
  BY <1>4

LEMMA Greatest ==
  ASSUME NEW n \in Nat, NEW S, S \subseteq 1 .. n, S # {}
  PROVE  Max(S) \in S /\ \A m \in S : m <= Max(S)
<1> DEFINE above == {n - m : m \in S}
<1>1. above \subseteq Nat /\ above # {}
  <2>1. \A m \in S : n - m \in Nat
    OBVIOUS
  <2>2. QED
    BY <2>1
<1>2. PICK d \in above : \A e \in above : d <= e
  BY <1>1, Smallest
<1>3. PICK k \in S : d = n - k
  BY <1>2
<1>4. ASSUME NEW m \in S
      PROVE  m <= k
  <2>1. n - k <= n - m
    BY <1>2, <1>3
  <2>2. QED
    BY <2>1
<1>5. QED
  BY <1>4 DEF Max

LEMMA GreatestUpTo ==
  ASSUME NEW n \in Nat, NEW k \in 1 .. n
  PROVE  Max(1 .. k) = k /\ (1 .. k) \ {k} = 1 .. (k - 1)
<1> DEFINE S == 1 .. k
<1>1. S \subseteq 1 .. n /\ S # {} /\ k \in S /\ \A m \in S : m \in Nat /\ m <= k
  OBVIOUS
<1>2. S \ {k} = 1 .. (k - 1)
  OBVIOUS
<1> HIDE DEF S
<1>3. Max(S) \in S /\ k <= Max(S)
  BY <1>1, Greatest
<1>4. Max(S) = k
  <2>1. Max(S) \in Nat /\ Max(S) <= k /\ k <= Max(S)
    BY <1>1, <1>3
  <2> HIDE DEF S
  <2>2. ASSUME NEW x \in Nat, x <= k, k <= x
        PROVE  x = k
    BY <2>2
  <2>3. QED
    BY <2>1, <2>2
<1>5. QED
  BY <1>2, <1>4 DEF S

\* op[<<k, v>>] is what element k of n makes of v; g folds sets of elements,
\* as FoldLeft does; f is what the first k make, one after the other.
Folding(op, n, V) == op \in [(1 .. n) \X V -> V]
FoldsSets(g, op, n, V, base) ==
  /\ g \in [SUBSET (1 .. n) -> V]
  /\ \A s \in SUBSET (1 .. n) :
       g[s] = IF s = {} THEN base ELSE op[<<Max(s), g[s \ {Max(s)}]>>]
FoldsWhereTyped(g, op, n, V, base) ==
  /\ g[{}] = base
  /\ \A s \in SUBSET (1 .. n) : s # {} /\ g[s \ {Max(s)}] \in V =>
       g[s] = op[<<Max(s), g[s \ {Max(s)}]>>]
StepsOf(f, op, n, V, base) ==
  /\ f \in [0 .. n -> V] /\ f[0] = base
  /\ \A k \in 1 .. n : f[k] = op[<<k, f[k - 1]>>]

\* The function that a left fold over n elements is defined with exists ...
LEMMA LeftFoldExists ==
  ASSUME NEW n \in Nat, NEW V, NEW base \in V, NEW op, Folding(op, n, V)
  PROVE  \E g : FoldsSets(g, op, n, V, base)
<1> USE DEF Folding
<1> DEFINE Folds(g, m) ==
             /\ g \in [SUBSET (1 .. m) -> V]
             /\ \A s \in SUBSET (1 .. m) :
                  g[s] = IF s = {} THEN base ELSE op[<<Max(s), g[s \ {Max(s)}]>>]
           some == {m \in 0 .. n : \E g : Folds(g, m)}
<1>1. 0 \in some
  <2> DEFINE g == [s \in SUBSET (1 .. 0) |-> base]
  <2>1. Folds(g, 0) /\ 0 \in 0 .. n
    OBVIOUS
  <2> HIDE DEF Folds
  <2>2. QED
    BY <2>1
<1>2. ASSUME NEW m \in 1 .. n, m - 1 \in some
      PROVE  m \in some
  <2>1. PICK g : Folds(g, m - 1)
    BY <1>2
  <2> DEFINE h == [u \in SUBSET (1 .. m) |->
                     IF m \in u THEN op[<<m, g[u \ {m}]>>] ELSE g[u]]
  <2>2. \A u \in SUBSET (1 .. m) :
          IF m \in u THEN u \ {m} \in SUBSET (1 .. (m - 1)) ELSE u \in SUBSET (1 .. (m - 1))
    OBVIOUS
  <2>3. ASSUME NEW u \in SUBSET (1 .. m)
        PROVE  h[u] \in V
    <3>1. CASE m \in u
      <4>1. g[u \ {m}] \in V
        BY <2>1, <2>2, <3>1
      <4>2. <<m, g[u \ {m}]>> \in (1 .. n) \X V
        BY <4>1
      <4>3. QED
        BY <3>1, <4>2
    <3>2. CASE m \notin u
      BY <2>1, <2>2, <3>2
    <3>3. QED
      BY <3>1, <3>2
  <2>4. ASSUME NEW u \in SUBSET (1 .. m)
        PROVE  h[u] = IF u = {} THEN base ELSE op[<<Max(u), h[u \ {Max(u)}]>>]
    <3>1. CASE u = {}
      BY <2>1, <3>1
    <3>2. CASE m \in u
      <4>1. m \in Nat /\ u \subseteq 1 .. m /\ u # {}
        BY <3>2
      <4>2. Max(u) = m
        <5>1. Max(u) \in u /\ m <= Max(u)
          BY <3>2, <4>1, Greatest
        <5> DEFINE a == Max(u)
        <5>2. a \in 1 .. m /\ m <= a
          BY <4>1, <5>1
        <5> HIDE DEF a
        <5>3. a = m
          BY <5>2
        <5>4. QED
          BY <5>3 DEF a
      <4>3. h[u \ {m}] = g[u \ {m}] /\ h[u] = op[<<m, g[u \ {m}]>>]
        BY <3>2
      <4> HIDE DEF h
      <4>4. QED
        BY <3>2, <4>2, <4>3
    <3>3. CASE m \notin u /\ u # {}
      <4>1. u \in SUBSET (1 .. (m - 1)) /\ u \ {Max(u)} \in SUBSET (1 .. m)
        BY <2>2, <3>3
      <4>2. h[u] = g[u] /\ h[u \ {Max(u)}] = g[u \ {Max(u)}]
        BY <3>3, <4>1
      <4>3. g[u] = op[<<Max(u), g[u \ {Max(u)}]>>]
        BY <2>1, <3>3, <4>1
      <4> HIDE DEF h
      <4>4. QED
        BY <3>3, <4>2, <4>3
    <3>4. QED
      BY <3>1, <3>2, <3>3
  <2>5. h = [u \in SUBSET (1 .. m) |-> h[u]]
    OBVIOUS
  <2> HIDE DEF h
  <2>6. Folds(h, m)
    BY <2>3, <2>4, <2>5
  <2>7. m \in 0 .. n
    OBVIOUS
  <2> HIDE DEF Folds
  <2>8. QED
    BY <2>6, <2>7
<1> HIDE DEF some
<1>3. 0 .. n \subseteq some
  BY <1>1, <1>2, UpTo
<1>4. n \in some
  <2>1. n \in 0 .. n
    OBVIOUS
  <2>2. QED
    BY <1>3, <2>1
<1>5. PICK g : Folds(g, n)
  BY <1>4 DEF some
<1>6. FoldsSets(g, op, n, V, base)
  BY <1>5 DEF FoldsSets
<1>7. QED
  BY <1>6

\* ... and on the first k elements it is what k steps make of the base.
LEMMA LeftFoldSteps ==
  ASSUME NEW n \in Nat, NEW V, NEW base \in V, NEW op, NEW g,
         Folding(op, n, V), FoldsWhereTyped(g, op, n, V, base)
  PROVE  \E f : StepsOf(f, op, n, V, base) /\ f[n] = g[1 .. n]
<1> USE DEF Folding, FoldsWhereTyped
<1> DEFINE f == [k \in 0 .. n |-> g[1 .. k]]
           typed == {k \in 0 .. n : f[k] \in V}
<1>1. f[0] = base /\ f[n] = g[1 .. n]
  OBVIOUS
<1>2. ASSUME NEW k \in 1 .. n, f[k - 1] \in V
      PROVE  f[k] = op[<<k, f[k - 1]>>]
  <2>1. 1 .. k \in SUBSET (1 .. n) /\ 1 .. k # {}
    OBVIOUS
  <2>2. Max(1 .. k) = k /\ (1 .. k) \ {k} = 1 .. (k - 1)
    BY GreatestUpTo
  <2>3. f[k] = g[1 .. k] /\ f[k - 1] = g[1 .. (k - 1)]
    OBVIOUS
  <2> DEFINE s == 1 .. k
  <2>4. s \in SUBSET (1 .. n) /\ s # {} /\ Max(s) = k /\ s \ {k} = 1 .. (k - 1)
    BY <2>1, <2>2
  <2> HIDE DEF s, f
  <2>5. g[s] = op[<<k, g[s \ {k}]>>]
    BY <1>2, <2>3, <2>4
  <2>6. QED
    BY <2>3, <2>4, <2>5 DEF s
<1> HIDE DEF f
<1>3. 0 \in typed
  BY <1>1
<1>4. ASSUME NEW k \in 1 .. n, k - 1 \in typed
      PROVE  k \in typed
  <2>1. f[k - 1] \in V
    BY <1>4
  <2>2. f[k] \in V
    BY <1>2, <2>1
  <2>3. QED
    BY <2>2
<1>5. 0 .. n \subseteq typed
  <2> HIDE DEF typed
  <2>1. QED
    BY <1>3, <1>4, UpTo
<1>6. f \in [0 .. n -> V]
  BY <1>5 DEF f
<1>7. ASSUME NEW k \in 1 .. n
      PROVE  f[k] = op[<<k, f[k - 1]>>]
  <2>1. f[k - 1] \in V
    BY <1>6
  <2>2. QED
    BY <1>2, <2>1
<1>8. StepsOf(f, op, n, V, base) /\ f[n] = g[1 .. n]
  BY <1>1, <1>6, <1>7 DEF StepsOf
<1>9. QED
  BY <1>8

-----------------------------------------------------------------------------
(* The folds of config_load, step by step *)

\* What the objects with a name become, and the lists made of such items.
ItemAt(config, p) == parse_item_object(At(config, p), Sections[p[1]])
AllBits == {n - 1 : n \in DOMAIN UpdateBits}
Items(config) ==
  [name : {At(config, p).name : p \in Places(config)},
   kind : Kinds \cup {"generic"},
   position : {ItemAt(config, p).position : p \in Places(config)},
   interval : Int,
   script : {ItemAt(config, p).script : p \in Places(config)},
   mask : SUBSET AllBits]
Lists(config) == Seq(Items(config))

LEMMA PlaceOf ==
  ASSUME NEW config, NEW p
  PROVE  p \in Places(config) <=>
           \E s \in DOMAIN Sections : \E k \in DOMAIN Objects(config, s) :
             p = <<s, k>> /\ "name" \in DOMAIN Objects(config, s)[k]
BY DEF Places

LEMMA BitsOfNames == ASSUME NEW name PROVE map_event_string(name) \in SUBSET AllBits
BY DEF map_event_string, Bit, BitsIn, AllBits

LEMMA ItemTyped ==
  ASSUME NEW config, WellFormed(config), NEW p \in Places(config)
  PROVE  /\ ItemAt(config, p) \in Items(config)
         /\ ItemAt(config, p).name = At(config, p).name
<1> DEFINE obj == At(config, p)
<1>1. bar_item_set_type(Get(obj, "type", "")) \cup UnionOf(Get(obj, "update_mask", <<>>))
        \in SUBSET AllBits
  <2>1. UnionOf(Get(obj, "update_mask", <<>>)) \in SUBSET AllBits
    BY BitsOfNames DEF UnionOf
  <2>2. bar_item_set_type(Get(obj, "type", "")) \in SUBSET AllBits
    BY DEF bar_item_set_type, Bit, BitsIn, AllBits
  <2>3. QED
    BY <2>1, <2>2
<1>2. Get(obj, "update_interval", 0) \in Int
  BY DEF WellFormed
<1>3. parse_item_kind(Get(obj, "type", "")) \in Kinds \cup {"generic"}
  BY DEF parse_item_kind
<1>4. ItemAt(config, p) =
        [name |-> obj.name, kind |-> parse_item_kind(Get(obj, "type", "")),
         position |-> ItemAt(config, p).position,
         interval |-> Get(obj, "update_interval", 0),
         script |-> ItemAt(config, p).script,
         mask |-> bar_item_set_type(Get(obj, "type", ""))
                    \cup UnionOf(Get(obj, "update_mask", <<>>))]
  BY DEF ItemAt, parse_item_object
<1>5. /\ obj.name \in {At(config, q).name : q \in Places(config)}
      /\ ItemAt(config, p).position \in {ItemAt(config, q).position : q \in Places(config)}
      /\ ItemAt(config, p).script \in {ItemAt(config, q).script : q \in Places(config)}
  OBVIOUS
<1> HIDE DEF obj
<1> DEFINE kind == parse_item_kind(Get(obj, "type", ""))
           position == ItemAt(config, p).position
           interval == Get(obj, "update_interval", 0)
           script == ItemAt(config, p).script
           mask == bar_item_set_type(Get(obj, "type", ""))
                     \cup UnionOf(Get(obj, "update_mask", <<>>))
<1>6. /\ ItemAt(config, p) = [name |-> obj.name, kind |-> kind, position |-> position,
                             interval |-> interval, script |-> script, mask |-> mask]
      /\ interval \in Int /\ kind \in Kinds \cup {"generic"} /\ mask \in SUBSET AllBits
      /\ position \in {ItemAt(config, q).position : q \in Places(config)}
      /\ script \in {ItemAt(config, q).script : q \in Places(config)}
  BY <1>1, <1>2, <1>3, <1>4, <1>5
<1> HIDE DEF kind, position, interval, script, mask
<1>7. ItemAt(config, p) \in Items(config)
  BY <1>5, <1>6 DEF Items
<1>8. ItemAt(config, p).name = obj.name
  BY <1>6
<1>9. QED
  BY <1>7, <1>8 DEF obj

LEMMA AddObjectTyped ==
  ASSUME NEW config, WellFormed(config), NEW s \in DOMAIN Sections,
         NEW k \in DOMAIN Objects(config, s), NEW v \in Lists(config)
  PROVE  AddObject(v, Objects(config, s)[k], Sections[s]) \in Lists(config)
<1> DEFINE obj == Objects(config, s)[k]
           item == parse_item_object(obj, Sections[s])
<1>1. CASE "name" \in DOMAIN obj
  <2> DEFINE p == <<s, k>>
  <2>1. p \in Places(config) /\ p[1] = s /\ p[2] = k
    BY <1>1, PlaceOf
  <2>2. ItemAt(config, p) = item
    BY <2>1 DEF ItemAt, At
  <2>3. item \in Items(config)
    BY <2>1, <2>2, ItemTyped
  <2> HIDE DEF item, p
  <2>4. Append(v, item) \in Lists(config)
    BY <2>3 DEF Lists
  <2>5. AddObject(v, obj, Sections[s]) \in {v, Append(v, item)}
    BY DEF AddObject, bar_manager_add_item, item
  <2>6. QED
    BY <2>4, <2>5
<1>2. CASE "name" \notin DOMAIN obj
  BY <1>2 DEF AddObject
<1>3. QED
  BY <1>1, <1>2

\* f[k] is the list after k objects of section s.
ObjectSteps(f, config, s, v) ==
  LET objs == Objects(config, s) IN
  /\ f \in [0 .. Len(objs) -> Lists(config)]
  /\ f[0] = v /\ f[Len(objs)] = AddSection(v, Sections[s], objs)
  /\ \A k \in 1 .. Len(objs) : f[k] = AddObject(f[k - 1], objs[k], Sections[s])

LEMMA AddSectionSteps ==
  ASSUME NEW config, WellFormed(config), NEW s \in DOMAIN Sections, NEW v \in Lists(config)
  PROVE  \E f : ObjectSteps(f, config, s, v)
<1> DEFINE objs == Objects(config, s)
           n == Len(objs)
           V == Lists(config)
           op == [p \in (1 .. n) \X V |-> AddObject(p[2], objs[p[1]], Sections[s])]
           iter == CHOOSE h : h =
             [t \in SUBSET (DOMAIN objs) |->
                IF t = {} THEN v
                ELSE AddObject(h[t \ {Max(t)}], objs[Max(t)], Sections[s])]
<1>1. n \in Nat /\ DOMAIN objs = 1 .. n
  BY DEF WellFormed, IsList
<1>2. AddSection(v, Sections[s], objs) = iter[DOMAIN objs]
  BY DEF AddSection, FoldLeft, MapThenFoldSet
<1>3. \A k \in 1 .. n, w \in V :
        op[<<k, w>>] = AddObject(w, objs[k], Sections[s]) /\ op[<<k, w>>] \in V
  BY <1>1, AddObjectTyped
<1>4. op \in [(1 .. n) \X V -> V]
  BY <1>1, AddObjectTyped
<1>v. v \in V
  OBVIOUS
<1> HIDE DEF op, n, V
<1>f. Folding(op, n, V)
  BY <1>4 DEF Folding
<1>5. PICK g : FoldsSets(g, op, n, V, v)
  BY <1>1, <1>f, <1>v, LeftFoldExists
<1>6. ASSUME NEW t \in SUBSET (1 .. n), t # {}
      PROVE  Max(t) \in 1 .. n /\ t \ {Max(t)} \in SUBSET (1 .. n)
  BY <1>1, <1>6, Greatest
<1>7. ASSUME NEW t \in SUBSET (1 .. n)
      PROVE  g[t] = IF t = {} THEN v
                    ELSE AddObject(g[t \ {Max(t)}], objs[Max(t)], Sections[s])
  BY <1>3, <1>5, <1>6 DEF FoldsSets
<1>8. g = [t \in SUBSET (DOMAIN objs) |->
             IF t = {} THEN v ELSE AddObject(g[t \ {Max(t)}], objs[Max(t)], Sections[s])]
  <2>1. g = [t \in SUBSET (1 .. n) |-> g[t]]
    BY <1>5 DEF FoldsSets
  <2>2. QED
    BY <1>1, <1>7, <2>1, Zenon
<1>9. iter = [t \in SUBSET (DOMAIN objs) |->
                IF t = {} THEN v
                ELSE AddObject(iter[t \ {Max(t)}], objs[Max(t)], Sections[s])]
  BY <1>8
<1> HIDE DEF iter
<1>10. FoldsWhereTyped(iter, op, n, V, v)
  BY <1>1, <1>3, <1>6, <1>9 DEF FoldsWhereTyped
<1>11. PICK f : StepsOf(f, op, n, V, v) /\ f[n] = iter[1 .. n]
  BY <1>1, <1>f, <1>10, <1>v, LeftFoldSteps
<1>12. ASSUME NEW k \in 1 .. n
       PROVE  f[k] = AddObject(f[k - 1], objs[k], Sections[s])
  <2>1. k - 1 \in 0 .. n
    BY <1>1
  <2>2. f[k - 1] \in V
    BY <1>11, <2>1 DEF StepsOf
  <2>3. QED
    BY <1>3, <1>11, <2>2 DEF StepsOf
<1>13. ObjectSteps(f, config, s, v)
  BY <1>1, <1>2, <1>11, <1>12 DEF n, V, StepsOf, ObjectSteps
<1>14. QED
  BY <1>13

LEMMA AddSectionTyped ==
  ASSUME NEW config, WellFormed(config), NEW s \in DOMAIN Sections, NEW v \in Lists(config)
  PROVE  AddSection(v, Sections[s], Objects(config, s)) \in Lists(config)
<1>1. Len(Objects(config, s)) \in Nat
  BY DEF WellFormed, IsList
<1>2. PICK f : ObjectSteps(f, config, s, v)
  BY AddSectionSteps
<1>3. QED
  BY <1>1, <1>2 DEF ObjectSteps

LEMMA AllSectionsSteps ==
  ASSUME NEW config, WellFormed(config)
  PROVE  \E f \in [0 .. 5 -> Lists(config)] :
           /\ f[0] = <<>> /\ f[5] = AllSections(config)
           /\ \A s \in 1 .. 5 : f[s] = AddSection(f[s - 1], Sections[s], Objects(config, s))
<1> DEFINE V == Lists(config)
           op == [p \in (1 .. 5) \X V |-> AddSection(p[2], Sections[p[1]], Objects(config, p[1]))]
           none == <<>>
           iter == CHOOSE h : h =
             [t \in SUBSET (DOMAIN Sections) |->
                IF t = {} THEN <<>>
                ELSE AddSection(h[t \ {Max(t)}], Sections[Max(t)],
                                Get(config.items, Sections[Max(t)], <<>>))]
<1>1. DOMAIN Sections = 1 .. 5
  BY DEF Sections
<1>2. AllSections(config) = iter[DOMAIN Sections]
  BY DEF AllSections, FoldLeft, MapThenFoldSet
<1>3. \A s \in 1 .. 5, w \in V :
        /\ op[<<s, w>>] = AddSection(w, Sections[s], Objects(config, s))
        /\ op[<<s, w>>] \in V
  BY <1>1, AddSectionTyped
<1>4. Folding(op, 5, V)
  BY <1>1, AddSectionTyped DEF Folding
<1>5. <<>> \in V
  BY DEF Lists
<1> HIDE DEF op, V
<1>6. PICK g : FoldsSets(g, op, 5, V, <<>>)
  BY <1>4, <1>5, LeftFoldExists
<1>7. ASSUME NEW t \in SUBSET (1 .. 5), t # {}
      PROVE  Max(t) \in 1 .. 5 /\ t \ {Max(t)} \in SUBSET (1 .. 5)
  BY <1>7, Greatest
<1>8. ASSUME NEW t \in SUBSET (1 .. 5)
      PROVE  g[t] = IF t = {} THEN <<>>
                    ELSE AddSection(g[t \ {Max(t)}], Sections[Max(t)],
                                    Get(config.items, Sections[Max(t)], <<>>))
  <2>1. CASE t = {}
    BY <1>6, <2>1 DEF FoldsSets
  <2>2. CASE t # {}
    <3> DEFINE m == Max(t)
    <3>1. m \in 1 .. 5 /\ g[t \ {m}] \in V /\ g[t] = op[<<m, g[t \ {m}]>>]
      BY <1>6, <1>7, <2>2 DEF FoldsSets
    <3> HIDE DEF m
    <3>2. g[t] = AddSection(g[t \ {m}], Sections[m], Get(config.items, Sections[m], <<>>))
      BY <1>3, <3>1 DEF Objects
    <3>3. QED
      BY <2>2, <3>2 DEF m
  <2>3. QED
    BY <2>1, <2>2
<1>9. g = [t \in SUBSET (DOMAIN Sections) |->
             IF t = {} THEN <<>>
             ELSE AddSection(g[t \ {Max(t)}], Sections[Max(t)],
                             Get(config.items, Sections[Max(t)], <<>>))]
  <2>1. g = [t \in SUBSET (1 .. 5) |-> g[t]]
    BY <1>6 DEF FoldsSets
  <2>2. QED
    BY <1>1, <1>8, <2>1, Zenon
<1>10. iter = [t \in SUBSET (DOMAIN Sections) |->
                 IF t = {} THEN <<>>
                 ELSE AddSection(iter[t \ {Max(t)}], Sections[Max(t)],
                                 Get(config.items, Sections[Max(t)], <<>>))]
  BY <1>9
<1> HIDE DEF iter
<1>11. FoldsWhereTyped(iter, op, 5, V, <<>>)
  <2>1. iter[{}] = <<>>
    BY <1>1, <1>10
  <2>2. ASSUME NEW t \in SUBSET (1 .. 5), t # {}, iter[t \ {Max(t)}] \in V
        PROVE  iter[t] = op[<<Max(t), iter[t \ {Max(t)}]>>]
    <3> DEFINE m == Max(t)
    <3>1. m \in 1 .. 5
      BY <1>7, <2>2
    <3>2. iter[t] = AddSection(iter[t \ {m}], Sections[m], Get(config.items, Sections[m], <<>>))
      BY <1>1, <1>10, <2>2
    <3> HIDE DEF m
    <3>3. iter[t \ {m}] \in V
      BY <2>2 DEF m
    <3>4. iter[t] = op[<<m, iter[t \ {m}]>>]
      BY <1>3, <3>1, <3>2, <3>3 DEF Objects
    <3>5. QED
      BY <3>4 DEF m
  <2>3. QED
    BY <2>1, <2>2 DEF FoldsWhereTyped
<1>12. PICK f : StepsOf(f, op, 5, V, none) /\ f[5] = iter[1 .. 5]
  <2> DEFINE num == 5
  <2>1. /\ num \in Nat /\ none \in V
        /\ Folding(op, num, V) /\ FoldsWhereTyped(iter, op, num, V, none)
    BY <1>4, <1>5, <1>11
  <2> HIDE DEF none, num
  <2>2. \E f : StepsOf(f, op, num, V, none) /\ f[num] = iter[1 .. num]
    BY <2>1, LeftFoldSteps
  <2>3. QED
    BY <2>2 DEF num
<1>13. ASSUME NEW s \in 1 .. 5
       PROVE  f[s] = AddSection(f[s - 1], Sections[s], Objects(config, s))
  <2>1. f[s - 1] \in V
    BY <1>12 DEF StepsOf
  <2>2. QED
    BY <1>3, <1>12, <2>1 DEF StepsOf
<1>14. QED
  BY <1>1, <1>2, <1>12, <1>13 DEF V, StepsOf

-----------------------------------------------------------------------------
(* bar_manager_add_item: the first definition of a name *)

\* The places read when the first k objects of section s have been.
Read(config, s, k) == {p \in Places(config) : p[1] < s \/ (p[1] = s /\ p[2] <= k)}

Pair(config, v, m, n, p, q) ==
  /\ Defines(config, p, v[m].name) /\ v[m] = ItemAt(config, p)
  /\ Defines(config, q, v[n].name) /\ v[n] = ItemAt(config, q)
  /\ m < n => Before(p, q)

\* The list v is what the objects at the places of S make.
Loaded(config, v, S) ==
  /\ v \in Lists(config)
  /\ \A p \in S : \E n \in DOMAIN v : v[n].name = At(config, p).name
  /\ \A m, n \in DOMAIN v : \E p, q \in S : Pair(config, v, m, n, p, q)

LEMMA ReadOne ==
  ASSUME NEW config, WellFormed(config), NEW s \in DOMAIN Sections,
         NEW k \in 1 .. Len(Objects(config, s))
  PROVE  /\ Read(config, s, k - 1) \subseteq Read(config, s, k)
         /\ \A p \in Read(config, s, k) \ Read(config, s, k - 1) : p = <<s, k>>
         /\ <<s, k>> \in Places(config) <=> "name" \in DOMAIN Objects(config, s)[k]
         /\ <<s, k>> \in Places(config) =>
              /\ <<s, k>> \in Read(config, s, k)
              /\ \A p \in Read(config, s, k - 1) : Before(p, <<s, k>>)
              /\ \A p \in Places(config) : Before(p, <<s, k>>) => p \in Read(config, s, k - 1)
<1>1. /\ DOMAIN Sections = 1 .. 5
      /\ \A t \in 1 .. 5 : DOMAIN Objects(config, t) \subseteq Nat
      /\ DOMAIN Objects(config, s) = 1 .. Len(Objects(config, s))
      /\ Len(Objects(config, s)) \in Nat
  BY DEF Sections, WellFormed, IsList
<1>2. s \in Nat /\ k \in Nat
  BY <1>1
<1>3. ASSUME NEW p \in Places(config)
      PROVE  p = <<p[1], p[2]>> /\ p[1] \in Nat /\ p[2] \in Nat
  BY <1>1, PlaceOf
<1>4. <<s, k>> \in Places(config) <=> "name" \in DOMAIN Objects(config, s)[k]
  BY <1>1, PlaceOf
<1>5. Read(config, s, k - 1) \subseteq Read(config, s, k)
  BY <1>2, <1>3 DEF Read
<1>6. ASSUME NEW p \in Read(config, s, k) \ Read(config, s, k - 1)
      PROVE  p = <<s, k>>
  <2>1. p \in Places(config) /\ (p[1] < s \/ (p[1] = s /\ p[2] <= k))
        /\ ~(p[1] < s \/ (p[1] = s /\ p[2] <= k - 1))
    BY DEF Read
  <2>2. p[1] = s /\ p[2] = k
    BY <1>2, <1>3, <2>1
  <2>3. QED
    BY <1>3, <2>1, <2>2
<1>7. ASSUME <<s, k>> \in Places(config)
      PROVE  /\ <<s, k>> \in Read(config, s, k)
             /\ \A p \in Read(config, s, k - 1) : Before(p, <<s, k>>)
             /\ \A p \in Places(config) : Before(p, <<s, k>>) => p \in Read(config, s, k - 1)
  <2>1. <<s, k>>[1] = s /\ <<s, k>>[2] = k
    OBVIOUS
  <2>2. <<s, k>> \in Read(config, s, k)
    BY <1>2, <1>7 DEF Read
  <2>3. ASSUME NEW p \in Read(config, s, k - 1)
        PROVE  Before(p, <<s, k>>)
    BY <1>2, <1>3 DEF Read, Before
  <2>4. ASSUME NEW p \in Places(config), Before(p, <<s, k>>)
        PROVE  p \in Read(config, s, k - 1)
    BY <1>2, <1>3, <2>4 DEF Read, Before
  <2>5. QED
    BY <2>2, <2>3, <2>4
<1>8. QED
  BY <1>4, <1>5, <1>6, <1>7

LEMMA LoadedOne ==
  ASSUME NEW config, WellFormed(config), NEW s \in DOMAIN Sections,
         NEW k \in 1 .. Len(Objects(config, s)),
         NEW v, Loaded(config, v, Read(config, s, k - 1))
  PROVE  Loaded(config, AddObject(v, Objects(config, s)[k], Sections[s]), Read(config, s, k))
<1> DEFINE obj == Objects(config, s)[k]
           p0 == <<s, k>>
           item == parse_item_object(obj, Sections[s])
           S == Read(config, s, k - 1)
           T == Read(config, s, k)
<1>1. /\ S \subseteq T /\ \A p \in T \ S : p = p0
      /\ p0 \in Places(config) <=> "name" \in DOMAIN obj
      /\ p0 \in Places(config) =>
           /\ p0 \in T /\ \A p \in S : Before(p, p0)
           /\ \A p \in Places(config) : Before(p, p0) => p \in S
  BY ReadOne
<1>2. T \subseteq Places(config) /\ v \in Lists(config)
  BY DEF Read, Loaded
<1>3. p0 \in Places(config) =>
        /\ At(config, p0) = obj /\ item = ItemAt(config, p0)
        /\ item \in Items(config) /\ item.name = obj.name
  <2>1. At(config, p0) = obj /\ item = ItemAt(config, p0)
    BY DEF At, ItemAt
  <2> HIDE DEF obj, p0, item
  <2>2. QED
    BY <2>1, ItemTyped
<1>4. /\ \A p \in S : \E n \in DOMAIN v : v[n].name = At(config, p).name
      /\ \A m, n \in DOMAIN v : \E p, q \in S : Pair(config, v, m, n, p, q)
  BY DEF Loaded
<1>5. AddObject(v, obj, Sections[s]) =
        IF "name" \in DOMAIN obj
        THEN IF \E n \in DOMAIN v : v[n].name = item.name THEN v ELSE Append(v, item)
        ELSE v
  BY DEF AddObject, bar_manager_add_item
<1>6. DOMAIN v = 1 .. Len(v) /\ Len(v) \in Nat
  BY <1>2 DEF Lists
<1> HIDE DEF obj, p0, item, S, T
<1>7. CASE p0 \notin Places(config)
  <2>1. S = T
    BY <1>1, <1>2, <1>7
  <2>2. AddObject(v, obj, Sections[s]) = v
    BY <1>1, <1>5, <1>7
  <2>3. QED
    BY <2>1, <2>2 DEF S, T, obj
<1>8. CASE p0 \in Places(config) /\ \E n \in DOMAIN v : v[n].name = item.name
  <2>1. AddObject(v, obj, Sections[s]) = v
    BY <1>1, <1>5, <1>8
  <2>2. \A p \in T : \E n \in DOMAIN v : v[n].name = At(config, p).name
    BY <1>1, <1>3, <1>4, <1>8
  <2>3. \A m, n \in DOMAIN v : \E p, q \in T : Pair(config, v, m, n, p, q)
    BY <1>1, <1>4
  <2>4. QED
    BY <1>2, <2>1, <2>2, <2>3 DEF Loaded, T, obj
<1>9. CASE p0 \in Places(config) /\ ~ \E n \in DOMAIN v : v[n].name = item.name
  <2> DEFINE w == Append(v, item)
             z == Len(v) + 1
  <2>1. AddObject(v, obj, Sections[s]) = w
    BY <1>1, <1>5, <1>9
  <2>2. w \in Lists(config) /\ DOMAIN w = DOMAIN v \cup {z} /\ w[z] = item
        /\ z \notin DOMAIN v /\ \A n \in DOMAIN v : w[n] = v[n] /\ n < z
    BY <1>2, <1>3, <1>6, <1>9 DEF Lists
  <2> HIDE DEF w
  <2>3. Defines(config, p0, item.name)
    <3>1. ASSUME NEW q \in Places(config), At(config, q).name = item.name
          PROVE  ~Before(q, p0)
      BY <1>1, <1>4, <1>9, <3>1
    <3>2. QED
      BY <1>3, <1>9, <3>1 DEF Defines
  <2>4. ASSUME NEW p \in T
        PROVE  \E n \in DOMAIN w : w[n].name = At(config, p).name
    <3>1. CASE p = p0
      BY <1>3, <1>9, <2>2, <3>1
    <3>2. CASE p \in S
      BY <1>4, <2>2, <3>2
    <3>3. QED
      BY <1>1, <3>1, <3>2
  <2>5. ASSUME NEW m \in DOMAIN w, NEW n \in DOMAIN w
        PROVE  \E p, q \in T : Pair(config, w, m, n, p, q)
    <3>1. CASE m \in DOMAIN v /\ n \in DOMAIN v
      <4>1. PICK p \in S, q \in S : Pair(config, v, m, n, p, q)
        BY <1>4, <3>1
      <4>2. Pair(config, w, m, n, p, q)
        BY <2>2, <3>1, <4>1 DEF Pair
      <4>3. QED
        BY <1>1, <4>2
    <3>2. CASE m \in DOMAIN v /\ n = z
      <4>1. PICK p \in S : \E q \in S : Pair(config, v, m, m, p, q)
        BY <1>4, <3>2
      <4>2. Defines(config, p, v[m].name) /\ v[m] = ItemAt(config, p)
        BY <4>1 DEF Pair
      <4>3. Pair(config, w, m, n, p, p0)
        BY <1>1, <1>3, <1>9, <2>2, <2>3, <3>2, <4>2 DEF Pair
      <4>4. QED
        BY <1>1, <1>9, <4>3
    <3>3. CASE m = z /\ n \in DOMAIN v
      <4>1. PICK p \in S : \E q \in S : Pair(config, v, n, n, p, q)
        BY <1>4, <3>3
      <4>2. Defines(config, p, v[n].name) /\ v[n] = ItemAt(config, p)
        BY <4>1 DEF Pair
      <4>3. ~(m < n)
        <5>1. n \in 1 .. Len(v)
          BY <1>6, <3>3
        <5>2. QED
          BY <1>6, <3>3, <5>1
      <4>4. Pair(config, w, m, n, p0, p)
        BY <1>3, <1>9, <2>2, <2>3, <3>3, <4>2, <4>3 DEF Pair
      <4>5. QED
        BY <1>1, <1>9, <4>4
    <3>4. CASE m = z /\ n = z
      <4>1. ~(m < n)
        BY <1>6, <3>4
      <4>2. Pair(config, w, m, n, p0, p0)
        BY <1>3, <1>9, <2>2, <2>3, <3>4, <4>1 DEF Pair
      <4>3. QED
        BY <1>1, <1>9, <4>2
    <3>5. QED
      BY <2>2, <3>1, <3>2, <3>3, <3>4
  <2>6. QED
    BY <2>1, <2>2, <2>4, <2>5 DEF Loaded, T, obj
<1>10. QED
  BY <1>7, <1>8, <1>9

LEMMA LoadedSection ==
  ASSUME NEW config, WellFormed(config), NEW s \in DOMAIN Sections,
         NEW v, Loaded(config, v, Read(config, s, 0))
  PROVE  Loaded(config, AddSection(v, Sections[s], Objects(config, s)), Read(config, s + 1, 0))
<1> DEFINE objs == Objects(config, s)
           num == Len(objs)
<1>1. num \in Nat /\ v \in Lists(config) /\ DOMAIN Sections = 1 .. 5
  BY DEF WellFormed, IsList, Loaded, Sections
<1>2. PICK f : ObjectSteps(f, config, s, v)
  BY <1>1, AddSectionSteps
<1> USE DEF ObjectSteps
<1> DEFINE good == {k \in 0 .. num : Loaded(config, f[k], Read(config, s, k))}
<1>3. 0 \in good
  BY <1>1, <1>2
<1>4. ASSUME NEW k \in 1 .. num, k - 1 \in good
      PROVE  k \in good
  <2>1. Loaded(config, f[k - 1], Read(config, s, k - 1))
    BY <1>4
  <2>2. Loaded(config, AddObject(f[k - 1], objs[k], Sections[s]), Read(config, s, k))
    BY <1>4, <2>1, LoadedOne
  <2>3. f[k] = AddObject(f[k - 1], objs[k], Sections[s])
    BY <1>2
  <2>4. QED
    BY <2>2, <2>3
<1>5. Loaded(config, f[num], Read(config, s, num))
  <2>1. 0 .. num \subseteq good
    <3> HIDE DEF good, num
    <3>1. QED
      BY <1>1, <1>3, <1>4, UpTo
  <2>2. num \in good
    BY <1>1, <2>1
  <2>3. QED
    BY <2>2
<1>6. Read(config, s, num) = Read(config, s + 1, 0)
  <2>1. ASSUME NEW p \in Places(config)
        PROVE  (p[1] < s \/ (p[1] = s /\ p[2] <= num)) <=>
                 (p[1] < s + 1 \/ (p[1] = s + 1 /\ p[2] <= 0))
    <3>1. PICK t \in DOMAIN Sections : \E k \in DOMAIN Objects(config, t) : p = <<t, k>>
      BY PlaceOf
    <3>2. PICK k \in DOMAIN Objects(config, t) : p = <<t, k>>
      BY <3>1
    <3>3. k \in 1 .. Len(Objects(config, t)) /\ Len(Objects(config, t)) \in Nat
      BY DEF WellFormed, IsList
    <3>4. t = s => k <= num
      BY <3>3
    <3>5. p[1] = t /\ p[2] = k
      BY <3>2
    <3> HIDE DEF num
    <3>6. QED
      BY <1>1, <3>3, <3>4, <3>5
  <2> HIDE DEF num
  <2>2. QED
    BY <2>1 DEF Read
<1>7. QED
  BY <1>2, <1>5, <1>6

\* The five sections, one after the other.
LEMMA LoadedAll ==
  ASSUME NEW config, WellFormed(config)
  PROVE  Loaded(config, AllSections(config), Places(config))
<1>1. PICK f \in [0 .. 5 -> Lists(config)] :
        /\ f[0] = <<>> /\ f[5] = AllSections(config)
        /\ \A s \in 1 .. 5 : f[s] = AddSection(f[s - 1], Sections[s], Objects(config, s))
  BY AllSectionsSteps
<1>2. DOMAIN Sections = 1 .. 5
  BY DEF Sections
<1>3. ASSUME NEW p \in Places(config)
      PROVE  p[1] \in 1 .. 5 /\ p[2] \in Nat \ {0}
  <2>1. PICK t \in DOMAIN Sections : \E k \in DOMAIN Objects(config, t) : p = <<t, k>>
    BY PlaceOf
  <2>2. DOMAIN Objects(config, t) \subseteq Nat \ {0}
    BY DEF WellFormed, IsList
  <2>3. QED
    BY <1>2, <2>1, <2>2
<1> DEFINE good == {s \in 0 .. 5 : Loaded(config, f[s], Read(config, s + 1, 0))}
<1>4. 0 \in good
  <2>1. Read(config, 1, 0) = {}
    BY <1>3 DEF Read
  <2>2. f[0] \in Lists(config) /\ DOMAIN f[0] = {}
    BY <1>1
  <2>3. Loaded(config, f[0], Read(config, 1, 0))
    BY <2>1, <2>2 DEF Loaded
  <2>4. QED
    BY <2>3
<1>5. ASSUME NEW s \in 1 .. 5, s - 1 \in good
      PROVE  s \in good
  <2>1. Loaded(config, f[s - 1], Read(config, s, 0))
    BY <1>5
  <2>2. Loaded(config, AddSection(f[s - 1], Sections[s], Objects(config, s)),
               Read(config, s + 1, 0))
    BY <1>2, <2>1, LoadedSection
  <2>3. f[s] = AddSection(f[s - 1], Sections[s], Objects(config, s))
    BY <1>1
  <2>4. QED
    BY <2>2, <2>3
<1>6. Loaded(config, f[5], Read(config, 6, 0))
  <2>1. 0 .. 5 \subseteq good
    <3> HIDE DEF good
    <3>1. QED
      BY <1>4, <1>5, UpTo
  <2>2. QED
    BY <2>1
<1>7. Read(config, 6, 0) = Places(config)
  BY <1>3 DEF Read
<1>8. QED
  BY <1>1, <1>6, <1>7

-----------------------------------------------------------------------------
(* The events table *)

\* The bits that the first k entries of the table give the item of a name.
TableBits(config, k, name) ==
  UNION {map_event_string(config.events[j].event) :
           j \in {i \in 1 .. k : config.events[i].item = name}}

\* The item after the entry e.
Entered(item, e) ==
  IF item.name = e.item THEN [item EXCEPT !.mask = @ \cup map_event_string(e.event)] ELSE item

LEMMA EnteredItem ==
  ASSUME NEW config, NEW item \in Items(config), NEW e
  PROVE  /\ Entered(item, e) \in Items(config)
         /\ Entered(item, e).name = item.name
         /\ Entered(item, e).mask =
              IF item.name = e.item THEN item.mask \cup map_event_string(e.event) ELSE item.mask
<1> DEFINE mask == item.mask \cup map_event_string(e.event)
           r == [item EXCEPT !.mask = mask]
<1>1. item.mask \in SUBSET AllBits
  BY DEF Items
<1>2. mask \in SUBSET AllBits
  BY <1>1, BitsOfNames
<1>3. r \in Items(config) /\ r.name = item.name /\ r.mask = mask
  <2> HIDE DEF mask
  <2>1. QED
    BY <1>2 DEF Items
<1>4. Entered(item, e) = IF item.name = e.item THEN r ELSE item
  BY DEF Entered
<1> HIDE DEF r
<1>5. QED
  BY <1>3, <1>4

LEMMA AddEventEach ==
  ASSUME NEW v, NEW e
  PROVE  /\ DOMAIN AddEvent(v, e) = DOMAIN v
         /\ AddEvent(v, e) = [n \in DOMAIN v |-> AddEvent(v, e)[n]]
         /\ \A n \in DOMAIN v : AddEvent(v, e)[n] = Entered(v[n], e)
BY DEF AddEvent, Entered

LEMMA AddEventTyped ==
  ASSUME NEW config, NEW len \in Nat, NEW v \in [1 .. len -> Items(config)], NEW e
  PROVE  AddEvent(v, e) \in [1 .. len -> Items(config)]
<1>1. \A n \in 1 .. len : Entered(v[n], e) \in Items(config)
  BY EnteredItem
<1> DEFINE w == AddEvent(v, e)
<1>2. /\ w = [n \in 1 .. len |-> w[n]]
      /\ \A n \in 1 .. len : w[n] = Entered(v[n], e)
  BY AddEventEach
<1> HIDE DEF w
<1>3. w \in [1 .. len -> Items(config)]
  BY <1>1, <1>2
<1>4. QED
  BY <1>3 DEF w

\* f[k] is the list after k entries of the table.
EntrySteps(f, config, v, len) ==
  LET num == Len(config.events) IN
  /\ f \in [0 .. num -> [1 .. len -> Items(config)]]
  /\ f[0] = v /\ f[num] = FoldLeft(AddEvent, v, config.events)
  /\ \A k \in 1 .. num : f[k] = AddEvent(f[k - 1], config.events[k])

LEMMA AddEventsSteps ==
  ASSUME NEW config, WellFormed(config), NEW len \in Nat,
         NEW v \in [1 .. len -> Items(config)]
  PROVE  \E f : EntrySteps(f, config, v, len)
<1> DEFINE events == config.events
           num == Len(events)
           V == [1 .. len -> Items(config)]
           op == [p \in (1 .. num) \X V |-> AddEvent(p[2], events[p[1]])]
           iter == CHOOSE h : h =
             [t \in SUBSET (DOMAIN events) |->
                IF t = {} THEN v ELSE AddEvent(h[t \ {Max(t)}], events[Max(t)])]
<1>1. num \in Nat /\ DOMAIN events = 1 .. num
  BY DEF WellFormed, IsList
<1>2. FoldLeft(AddEvent, v, events) = iter[DOMAIN events]
  BY DEF FoldLeft, MapThenFoldSet
<1>3. \A k \in 1 .. num, w \in V :
        op[<<k, w>>] = AddEvent(w, events[k]) /\ op[<<k, w>>] \in V
  BY AddEventTyped
<1>4. Folding(op, num, V)
  BY AddEventTyped DEF Folding
<1>5. v \in V
  OBVIOUS
<1> HIDE DEF op, num, V, events
<1>6. PICK g : FoldsSets(g, op, num, V, v)
  BY <1>1, <1>4, <1>5, LeftFoldExists
<1>7. ASSUME NEW t \in SUBSET (1 .. num), t # {}
      PROVE  Max(t) \in 1 .. num /\ t \ {Max(t)} \in SUBSET (1 .. num)
  BY <1>1, <1>7, Greatest
<1>8. ASSUME NEW t \in SUBSET (1 .. num)
      PROVE  g[t] = IF t = {} THEN v ELSE AddEvent(g[t \ {Max(t)}], events[Max(t)])
  BY <1>3, <1>6, <1>7 DEF FoldsSets
<1>9. g = [t \in SUBSET (DOMAIN events) |->
             IF t = {} THEN v ELSE AddEvent(g[t \ {Max(t)}], events[Max(t)])]
  <2>1. g = [t \in SUBSET (1 .. num) |-> g[t]]
    BY <1>6 DEF FoldsSets
  <2>2. QED
    BY <1>1, <1>8, <2>1, Zenon
<1>10. iter = [t \in SUBSET (DOMAIN events) |->
                 IF t = {} THEN v ELSE AddEvent(iter[t \ {Max(t)}], events[Max(t)])]
  BY <1>9
<1> HIDE DEF iter
<1>11. FoldsWhereTyped(iter, op, num, V, v)
  BY <1>1, <1>3, <1>7, <1>10 DEF FoldsWhereTyped
<1>12. PICK f : StepsOf(f, op, num, V, v) /\ f[num] = iter[1 .. num]
  BY <1>1, <1>4, <1>5, <1>11, LeftFoldSteps
<1>13. ASSUME NEW k \in 1 .. num
       PROVE  f[k] = AddEvent(f[k - 1], events[k])
  <2>1. k - 1 \in 0 .. num
    BY <1>1
  <2>2. f[k - 1] \in V
    BY <1>12, <2>1 DEF StepsOf
  <2>3. QED
    BY <1>3, <1>12, <2>2 DEF StepsOf
<1>14. f \in [0 .. num -> V] /\ f[0] = v /\ f[num] = FoldLeft(AddEvent, v, events)
  BY <1>1, <1>2, <1>12 DEF StepsOf
<1>15. EntrySteps(f, config, v, len)
  BY <1>13, <1>14 DEF EntrySteps, num, V, events
<1>16. QED
  BY <1>15

LEMMA TableRead ==
  ASSUME NEW config, WellFormed(config), NEW len \in Nat,
         NEW v \in [1 .. len -> Items(config)]
  PROVE  LET w == FoldLeft(AddEvent, v, config.events) IN
         /\ w \in [1 .. len -> Items(config)]
         /\ \A n \in 1 .. len :
              /\ w[n].name = v[n].name
              /\ w[n].mask = v[n].mask \cup TableBits(config, Len(config.events), v[n].name)
<1> DEFINE num == Len(config.events)
           V == [1 .. len -> Items(config)]
<1>1. PICK f : EntrySteps(f, config, v, len)
  BY AddEventsSteps
<1>2. /\ num \in Nat /\ f \in [0 .. num -> V]
      /\ f[0] = v /\ f[num] = FoldLeft(AddEvent, v, config.events)
      /\ \A k \in 1 .. num : f[k] = AddEvent(f[k - 1], config.events[k])
  BY <1>1 DEF EntrySteps, WellFormed, IsList
<1> DEFINE Same(k) == \A n \in 1 .. len :
             /\ f[k][n].name = v[n].name
             /\ f[k][n].mask = v[n].mask \cup TableBits(config, k, v[n].name)
           good == {k \in 0 .. num : Same(k)}
<1> HIDE DEF num
<1>3. 0 \in good
  <2>1. \A name : TableBits(config, 0, name) = {}
    BY DEF TableBits
  <2>2. QED
    BY <1>2, <2>1
<1>4. ASSUME NEW k \in 1 .. num, k - 1 \in good
      PROVE  k \in good
  <2>1. Same(k - 1) /\ k \in 0 .. num /\ k - 1 \in 0 .. num
    BY <1>2, <1>4
  <2> DEFINE e == config.events[k]
             w == f[k - 1]
  <2>2. w \in V /\ f[k] = AddEvent(w, e)
    BY <1>2, <2>1
  <2>3. ASSUME NEW name
        PROVE  TableBits(config, k, name) =
                 IF name = e.item THEN TableBits(config, k - 1, name) \cup map_event_string(e.event)
                 ELSE TableBits(config, k - 1, name)
    <3> DEFINE J(m) == {i \in 1 .. m : config.events[i].item = name}
    <3>1. J(k) = IF name = e.item THEN J(k - 1) \cup {k} ELSE J(k - 1)
      OBVIOUS
    <3>2. TableBits(config, k, name) = UNION {map_event_string(config.events[j].event) : j \in J(k)}
          /\ TableBits(config, k - 1, name) =
               UNION {map_event_string(config.events[j].event) : j \in J(k - 1)}
      BY DEF TableBits
    <3> HIDE DEF J
    <3>3. QED
      BY <3>1, <3>2
  <2>4. ASSUME NEW n \in 1 .. len
        PROVE  /\ f[k][n].name = v[n].name
               /\ f[k][n].mask = v[n].mask \cup TableBits(config, k, v[n].name)
    <3>1. w[n].name = v[n].name /\ w[n].mask = v[n].mask \cup TableBits(config, k - 1, v[n].name)
      BY <2>1
    <3> HIDE DEF w, e
    <3> DEFINE old == w[n]
               new == f[k][n]
    <3>2. old \in Items(config) /\ new = Entered(old, e)
      BY <2>2, AddEventEach
    <3> HIDE DEF old, new
    <3>3. /\ new.name = old.name
          /\ new.mask = IF old.name = e.item THEN old.mask \cup map_event_string(e.event)
                        ELSE old.mask
      BY <3>2, EnteredItem
    <3>4. /\ old.name = v[n].name
          /\ old.mask = v[n].mask \cup TableBits(config, k - 1, v[n].name)
      BY <3>1 DEF old
    <3>5. /\ new.name = v[n].name
          /\ new.mask = v[n].mask \cup TableBits(config, k, v[n].name)
      BY <2>3, <3>3, <3>4
    <3>6. QED
      BY <3>5 DEF new
  <2>5. Same(k)
    BY <2>4
  <2> HIDE DEF Same
  <2>6. QED
    BY <2>1, <2>5
<1>5. num \in good
  <2> HIDE DEF good
  <2>1. 0 .. num \subseteq good
    BY <1>2, <1>3, <1>4, UpTo
  <2>2. QED
    BY <1>2, <2>1
<1>6. Same(num) /\ f[num] \in V
  BY <1>2, <1>5
<1>7. QED
  BY <1>2, <1>6 DEF num

MaskSaid(config, p, name) ==
  {b \in Bit("space_changed") : Get(At(config, p), "type", "") = "space"} \cup
  UNION ({map_event_string(e) : e \in ToSet(Get(At(config, p), "update_mask", <<>>))}
    \cup {map_event_string(config.events[k].event) :
            k \in {j \in DOMAIN config.events : config.events[j].item = name}})

\* v is what the configuration says.
Says(config, v) ==
  /\ \E len \in Nat : v \in [1 .. len -> Items(config)]
  /\ \A p \in Places(config) : \E n \in DOMAIN v : v[n].name = At(config, p).name
  /\ \A m, n \in DOMAIN v : \E p, q \in Places(config) :
       /\ Defines(config, p, v[m].name)
       /\ Defines(config, q, v[n].name)
       /\ m < n => Before(p, q)
       /\ v[m].mask = MaskSaid(config, p, v[m].name)

LEMMA LoadItemsSays ==
  ASSUME NEW config, WellFormed(config)
  PROVE  Says(config, LoadItems(config))
<1> DEFINE v == AllSections(config)
           w == LoadItems(config)
           len == Len(v)
<1>1. Loaded(config, v, Places(config))
  BY LoadedAll
<1>2. len \in Nat /\ v \in [1 .. len -> Items(config)]
  BY <1>1 DEF Loaded, Lists
<1>3. w = FoldLeft(AddEvent, v, config.events)
  BY DEF LoadItems
<1> HIDE DEF v, w, len
<1>4. /\ w \in [1 .. len -> Items(config)]
      /\ \A n \in 1 .. len :
           /\ w[n].name = v[n].name
           /\ w[n].mask = v[n].mask \cup TableBits(config, Len(config.events), v[n].name)
  BY <1>2, <1>3, TableRead
<1>5. DOMAIN v = 1 .. len /\ DOMAIN w = 1 .. len
  BY <1>2, <1>4
<1>6. ASSUME NEW p \in Places(config)
      PROVE  \E n \in DOMAIN w : w[n].name = At(config, p).name
  BY <1>1, <1>4, <1>5 DEF Loaded
<1>7. ASSUME NEW p \in Places(config), NEW m \in DOMAIN w, v[m] = ItemAt(config, p)
      PROVE  w[m].mask = MaskSaid(config, p, w[m].name)
  <2> DEFINE seq == Get(At(config, p), "update_mask", <<>>)
             strip == {b \in Bit("space_changed") : Get(At(config, p), "type", "") = "space"}
             own == {map_event_string(e) : e \in ToSet(seq)}
             table == {map_event_string(config.events[k].event) :
                         k \in {j \in DOMAIN config.events :
                                  config.events[j].item = w[m].name}}
  <2>1. v[m].mask = strip \cup UNION own
    <3>1. v[m].mask = strip \cup UnionOf(seq)
      <4>1. ItemAt(config, p).mask =
              bar_item_set_type(Get(At(config, p), "type", ""))
                \cup UnionOf(Get(At(config, p), "update_mask", <<>>))
        BY DEF ItemAt, parse_item_object
      <4>2. bar_item_set_type(Get(At(config, p), "type", "")) = strip
        BY DEF bar_item_set_type
      <4>3. QED
        BY <1>7, <4>1, <4>2
    <3>2. {map_event_string(seq[n]) : n \in DOMAIN seq} = own
      BY DEF ToSet
    <3> HIDE DEF own, seq, strip
    <3>3. QED
      BY <3>1, <3>2 DEF UnionOf
  <2>2. TableBits(config, Len(config.events), v[m].name) = UNION table
    <3>1. DOMAIN config.events = 1 .. Len(config.events) /\ w[m].name = v[m].name
      BY <1>4, <1>5 DEF WellFormed, IsList
    <3>2. QED
      BY <3>1 DEF TableBits
  <2>3. w[m].mask = v[m].mask \cup TableBits(config, Len(config.events), v[m].name)
    BY <1>4, <1>5
  <2> HIDE DEF own, table, strip
  <2>4. w[m].mask = strip \cup UNION (own \cup table)
    BY <2>1, <2>2, <2>3
  <2>5. QED
    BY <2>4 DEF own, table, strip, MaskSaid
<1>8. ASSUME NEW m \in DOMAIN w, NEW n \in DOMAIN w
      PROVE  \E p, q \in Places(config) :
               /\ Pair(config, v, m, n, p, q)
               /\ w[m].name = v[m].name /\ w[n].name = v[n].name
  BY <1>1, <1>4, <1>5 DEF Loaded
<1>9. QED
  <2>1. ASSUME NEW m \in DOMAIN w, NEW n \in DOMAIN w
        PROVE  \E p, q \in Places(config) :
       /\ Defines(config, p, w[m].name)
       /\ Defines(config, q, w[n].name)
       /\ m < n => Before(p, q)
       /\ w[m].mask = MaskSaid(config, p, w[m].name)
    <3>1. PICK p \in Places(config), q \in Places(config) :
            /\ Pair(config, v, m, n, p, q)
            /\ w[m].name = v[m].name /\ w[n].name = v[n].name
      BY <1>8
    <3>2. /\ v[m] = ItemAt(config, p) /\ Defines(config, p, w[m].name)
          /\ Defines(config, q, w[n].name)
          /\ m < n => Before(p, q)
      BY <3>1 DEF Pair
    <3>3. w[m].mask = MaskSaid(config, p, w[m].name)
      BY <1>7, <3>2
    <3>4. QED
      BY <3>2, <3>3, Zenon
  <2>2. QED
    BY <1>2, <1>4, <1>6, <2>1 DEF Says, w

-----------------------------------------------------------------------------
(* What is loaded, and how far the items have counted *)

Ranges ==
  /\ hal[1] \in {"idle", "handler", "device", "post"}
  /\ notes \subseteq Devices \cup {"device"}
  /\ audio \in Devices \cup {NoDevice}
  /\ cache \in -1 .. 100 /\ dndCount \in 0 .. DndEvery - 1

Counted ==
  /\ \A n \in DOMAIN items : items[n].interval \in Int
  /\ \A i \in Names :
       /\ count[i] \in Nat
       /\ ItemOf(i).interval > 0 => count[i] < ItemOf(i).interval

Configured ==
  phase = "begin" => \E config \in Configs : Readable(config) /\ Says(config, items)

FullInv == WorldOK /\ Wired /\ Ranges /\ Counted /\ Configured

LEMMA FullInitially == Init => FullInv
<1>1. ASSUME Init
      PROVE  Ranges /\ Counted /\ Configured
  <2>1. items = <<>> /\ Names = {} /\ phase = "load"
    BY <1>1 DEF Init, Names
  <2>2. 0 \in 0 .. DndEvery - 1
    BY ListenersAssumption
  <2>3. QED
    BY <1>1, <2>1, <2>2 DEF Init, Ranges, Counted, Configured, Idle
<1>2. QED
  BY <1>1, Initially DEF FullInv, Inv

\* The percentage is one.
LEMMA PercentRange ==
  ASSUME WorldOK, NEW d \in Devices
  PROVE  Percent(d) \in 0 .. 100
<1> DEFINE p == (world.volume[d] + 1) \div 2
<1>1. world.volume[d] \in 0 .. 200
  BY ListenersAssumption DEF WorldOK, MachineStates
<1>2. p \in Nat
  BY <1>1
<1>3. Percent(d) = Min({p, 100})
  BY DEF Percent
<1> HIDE DEF p
<1>4. Min({p, 100}) \in {p, 100} /\ Min({p, 100}) <= 100
  <2>1. \E a \in {p, 100} : \A b \in {p, 100} : a <= b
    <3>1. CASE p <= 100
      BY <1>2, <3>1
    <3>2. CASE ~(p <= 100)
      BY <1>2, <3>2
    <3>3. QED
      BY <3>1, <3>2
  <2>2. Min({p, 100}) = CHOOSE a \in {p, 100} : \A b \in {p, 100} : a <= b
    BY DEF Min
  <2>3. Min({p, 100}) \in {p, 100} /\ \A b \in {p, 100} : Min({p, 100}) <= b
    BY <2>1, <2>2
  <2>4. QED
    BY <2>3
<1> DEFINE m == Min({p, 100})
<1>5. m \in Nat /\ m <= 100
  BY <1>2, <1>4
<1> HIDE DEF m
<1>6. m \in 0 .. 100
  BY <1>5
<1>7. QED
  BY <1>3, <1>6 DEF m

LEMMA KeptRange == WorldOK /\ Ranges => Kept \in -1 .. 100
<1> SUFFICES ASSUME WorldOK, Ranges
             PROVE  Kept \in -1 .. 100
  OBVIOUS
<1>1. CASE Usable(audio)
  <2>1. audio \in Devices
    BY <1>1 DEF Usable, Ranges
  <2>2. Percent(audio) \in 0 .. 100
    BY <2>1, PercentRange
  <2>3. Kept = Percent(audio)
    BY <1>1 DEF Kept
  <2> DEFINE k == Kept
  <2>4. k \in 0 .. 100
    BY <2>2, <2>3
  <2> HIDE DEF k
  <2>5. k \in -1 .. 100
    BY <2>4
  <2>6. QED
    BY <2>5 DEF k
<1>2. CASE ~Usable(audio)
  BY <1>2 DEF Kept, Ranges
<1>3. QED
  BY <1>1, <1>2

LEMMA Updating ==
  ASSUME NEW S, bar_item_update(S), WorldOK, Ranges
  PROVE  cache' \in -1 .. 100
<1>1. cache' = Kept \/ cache' = cache
  BY DEF bar_item_update
<1>2. QED
  BY <1>1, KeptRange DEF Ranges

LEMMA PowerUpdating == PowerHandler /\ WorldOK /\ Ranges => cache' \in -1 .. 100
<1>1. PowerHandler => cache' = cache \/ \E S : bar_item_update(S)
  BY DEF PowerHandler, UpdateItems
<1>2. QED
  BY <1>1, Updating DEF Ranges

LEMMA RangesStep == Ranges /\ Wired /\ WorldOK /\ [Next]_vars => Ranges'
<1> SUFFICES ASSUME Ranges, Wired, WorldOK, [Next]_vars
             PROVE  Ranges'
  OBVIOUS
<1>1. CASE UNCHANGED <<cache, dndCount, audio, notes, hal>>
  BY <1>1 DEF Ranges
<1>2. CASE LoadConfig
  BY <1>1, <1>2 DEF LoadConfig, core
<1>3. CASE ReadDevice
  BY <1>3 DEF ReadDevice, bar, Ranges, WorldOK, MachineStates
<1>4. CASE Listen
  <2>1. cache' \in -1 .. 100
    BY <1>4, PowerUpdating DEF Listen
  <2>2. QED
    BY <1>4, <2>1 DEF Listen, Ranges
<1>5. CASE Shutdown
  BY <1>5 DEF Shutdown, volume_end, bar, Ranges
<1>6. ASSUME NEW d \in Devices, VolumeNote(d)
      PROVE  Ranges'
  BY <1>6 DEF VolumeNote, Main, bar, Enter, Ranges
<1>7. CASE DeviceNote
  BY <1>7 DEF DeviceNote, Main, bar, Ranges
<1>8. CASE DeviceChanged
  <2>1. phase = "run" \/ hal = Idle
    BY <1>8 DEF DeviceChanged, Wired, Off
  <2>2. hal[2] \in Devices
    BY <1>8, <2>1 DEF DeviceChanged, Wired, Idle
  <2>3. QED
    BY <1>8, <2>2 DEF DeviceChanged, Main, bar, Enter, Ranges
<1>9. CASE Handler
  BY <1>9 DEF Handler, Main, bar, Idle, Ranges
<1>10. CASE VolumeChanged
  <2>1. cache' \in -1 .. 100
    BY <1>10, Updating DEF VolumeChanged, UpdateItems
  <2>2. hal'[1] = "idle"
    BY <1>10 DEF VolumeChanged, Idle
  <2>3. QED
    BY <1>10, <2>1, <2>2 DEF VolumeChanged, Ranges
<1>11. CASE Tick
  <2>1. cache' \in -1 .. 100
    BY <1>11, Updating DEF Tick
  <2>2. dndCount' \in 0 .. DndEvery - 1
    <3>1. dndCount' = (dndCount + 1) % DndEvery /\ DndEvery \in Nat \ {0} /\ dndCount + 1 \in Nat
      BY <1>11, ListenersAssumption DEF Tick, Ranges
    <3>2. QED
      BY <3>1
  <2>3. QED
    BY <1>11, <2>1, <2>2 DEF Tick, core, Ranges
<1>12. CASE Wake \/ Trigger
  <2>1. cache' \in -1 .. 100
    BY <1>12, Updating DEF Wake, Trigger, UpdateItems
  <2>2. QED
    BY <1>12, <2>1 DEF Wake, Trigger, core, Ranges
<1>13. CASE PowerNote
  <2>1. cache' \in -1 .. 100
    BY <1>13, PowerUpdating DEF PowerNote
  <2>2. QED
    BY <1>13, <2>1 DEF PowerNote, core, Ranges
<1>14. CASE VolumeMoves \/ DefaultMoves
  BY <1>14 DEF VolumeMoves, DefaultMoves, Tell, bar, Ranges
<1>15. CASE PowerMoves \/ OthersMove \/ UNCHANGED vars
  BY <1>1, <1>15 DEF PowerMoves, OthersMove, vars, bar, core
<1>16. QED
  BY <1>2, <1>3, <1>4, <1>5, <1>6, <1>7, <1>8, <1>9, <1>10, <1>11, <1>12, <1>13, <1>14, <1>15
     DEF Next, Delivery

LEMMA ItemOfName == ASSUME NEW i \in Names PROVE \E n \in DOMAIN items : ItemOf(i) = items[n]
BY DEF Names, ItemOf

\* config_load: what it has read is what the configuration says.
LEMMA Loading ==
  ASSUME LoadConfig
  PROVE  \/ UNCHANGED <<items, count>> /\ phase' = "exit"
         \/ \E config \in Configs :
              /\ Readable(config) /\ Says(config, items')
              /\ count' = [i \in {items'[n].name : n \in DOMAIN items'} |-> 0]
<1>1. PICK config \in Configs, answered \in BOOLEAN :
        IF Readable(config)
        THEN /\ items' = LoadItems(config)
             /\ DOMAIN seen' = {items'[n].name : n \in DOMAIN items'}
             /\ count' = [i \in DOMAIN seen' |-> 0]
        ELSE phase' = "exit" /\ UNCHANGED <<items, seen, count>>
  BY DEF LoadConfig
<1>2. CASE Readable(config)
  <2>1. Says(config, LoadItems(config))
    BY <1>2, LoadItemsSays, ListenersAssumption
  <2> DEFINE w == LoadItems(config)
  <2>2. items' = w /\ Says(config, w)
    BY <1>1, <1>2, <2>1
  <2> HIDE DEF w
  <2>3. Says(config, items')
    BY <2>2
  <2>4. QED
    BY <1>1, <1>2, <2>3
<1>3. CASE ~Readable(config)
  BY <1>1, <1>3
<1>4. QED
  BY <1>2, <1>3

\* Only config_load changes the list, and only ticks count.
LEMMA OthersKeep ==
  ASSUME [Next]_vars, ~LoadConfig
  PROVE  /\ items' = items
         /\ phase' = "begin" => phase = "begin"
         /\ ~Tick => count' = count
<1>1. CASE ReadDevice \/ Shutdown
  BY <1>1 DEF ReadDevice, Shutdown, volume_end, bar
<1>2. CASE Listen
  BY <1>2 DEF Listen
<1>3. CASE \/ \E d \in Devices : VolumeNote(d)
           \/ DeviceNote \/ DeviceChanged \/ Handler
  BY <1>3 DEF VolumeNote, DeviceNote, DeviceChanged, Handler, Main, bar
<1>4. CASE VolumeChanged \/ Tick \/ Wake \/ Trigger \/ PowerNote
  BY <1>4 DEF VolumeChanged, Tick, Wake, Trigger, PowerNote
<1>5. CASE VolumeMoves \/ DefaultMoves \/ PowerMoves \/ OthersMove \/ UNCHANGED vars
  BY <1>5 DEF VolumeMoves, DefaultMoves, PowerMoves, OthersMove, vars, bar
<1>6. QED
  BY <1>1, <1>2, <1>3, <1>4, <1>5 DEF Next, Delivery

LEMMA ConfiguredStep == Configured /\ [Next]_vars => Configured'
<1> SUFFICES ASSUME Configured, [Next]_vars, phase' = "begin"
             PROVE  \E config \in Configs : Readable(config) /\ Says(config, items')
  BY DEF Configured
<1>1. CASE LoadConfig
  BY <1>1, Loading
<1>2. CASE ~LoadConfig
  <2>1. items' = items /\ phase = "begin"
    BY <1>2, OthersKeep
  <2>2. QED
    BY <2>1 DEF Configured
<1>3. QED
  BY <1>1, <1>2

LEMMA CountedStep == Counted /\ [Next]_vars => Counted'
<1> SUFFICES ASSUME Counted, [Next]_vars
             PROVE  Counted'
  OBVIOUS
<1>1. CASE UNCHANGED <<items, count>>
  BY <1>1 DEF Counted, Names, ItemOf
<1>2. CASE LoadConfig
  <2>1. CASE \E config \in Configs :
               /\ Says(config, items')
               /\ count' = [i \in {items'[n].name : n \in DOMAIN items'} |-> 0]
    <3>1. PICK config \in Configs : \E w :
            /\ items' = w /\ Says(config, w)
            /\ count' = [i \in {w[n].name : n \in DOMAIN w} |-> 0]
      BY <2>1
    <3>2. PICK w :
            /\ items' = w /\ Says(config, w)
            /\ count' = [i \in {w[n].name : n \in DOMAIN w} |-> 0]
      BY <3>1
    <3>3. \A n \in DOMAIN w : w[n].interval \in Int
      <4>1. PICK len \in Nat : w \in [1 .. len -> Items(config)]
        BY <3>2 DEF Says
      <4>2. \A item \in Items(config) : item.interval \in Int
        BY DEF Items
      <4>3. QED
        BY <4>1, <4>2
    <3>4. Names' = {w[n].name : n \in DOMAIN w}
      BY <3>2 DEF Names
    <3>5. ASSUME NEW i \in Names'
          PROVE  count'[i] = 0
      BY <3>2, <3>4
    <3>6. QED
      BY <3>2, <3>3, <3>5 DEF Counted
  <2>2. QED
    BY <1>1, <1>2, <2>1, Loading
<1>3. CASE Tick
  <2>1. items' = items
    BY <1>3 DEF Tick
  <2>2. Names' = Names /\ \A i : ItemOf(i)' = ItemOf(i)
    BY <2>1 DEF Names, ItemOf
  <2>3. ASSUME NEW i \in Names
        PROVE  /\ count'[i] \in Nat
               /\ ItemOf(i).interval > 0 => count'[i] < ItemOf(i).interval
    <3> DEFINE most == ItemOf(i).interval
    <3>1. most \in Int
      BY ItemOfName DEF Counted
    <3>2. count[i] \in Nat /\ (most > 0 => count[i] < most)
      BY DEF Counted
    <3>3. count'[i] = IF most <= 0 \/ i \in Due THEN 0 ELSE count[i] + 1
      BY <1>3 DEF Tick
    <3>4. i \in Due <=> most > 0 /\ count[i] + 1 >= most
      BY DEF Due
    <3> HIDE DEF most
    <3>5. count'[i] \in Nat /\ (most > 0 => count'[i] < most)
      BY <3>1, <3>2, <3>3, <3>4
    <3>6. QED
      BY <3>5 DEF most
  <2>4. QED
    BY <2>1, <2>2, <2>3 DEF Counted
<1>4. CASE ~LoadConfig /\ ~Tick
  BY <1>1, <1>4, OthersKeep
<1>5. QED
  BY <1>2, <1>3, <1>4

LEMMA FullStep == FullInv /\ [Next]_vars => FullInv'
BY WorldStep, WiredStep, RangesStep, CountedStep, ConfiguredStep DEF FullInv

\* bar_manager_add_item, config_load_events: whatever the configuration, every
\* item has the first definition of its name, in the order of the sections, and
\* the bits that definition and the whole events table name, with the change of
\* space if it is a strip of spaces.
THEOREM LoadedAsConfigured == Spec => []AsConfigured
<1>1. ASSUME FullInv, phase = "begin"
      PROVE  AsConfigured
  <2>1. PICK config \in Configs : Readable(config) /\ Says(config, items)
    BY <1>1 DEF FullInv, Configured
  <2>2. config \in {c \in Configs : Readable(c)}
    BY <2>1
  <2>3. \A p \in Places(config) : At(config, p).name \in Names
    BY <2>1 DEF Says, Names
  <2>4. \A m, n \in DOMAIN items : \E p, q \in Places(config) :
          /\ Defines(config, p, items[m].name)
          /\ Defines(config, q, items[n].name)
          /\ m < n => Before(p, q)
          /\ items[m].mask = MaskSaid(config, p, items[m].name)
    BY <2>1 DEF Says
  <2>5. QED
    BY <2>2, <2>3, <2>4, Zenon DEF AsConfigured, MaskSaid
<1>2. FullInv => AsConfigured
  BY <1>1 DEF AsConfigured
<1>3. QED
  BY FullInitially, FullStep, <1>2, PTL DEF Spec

\* volume.c, power.c, bar_manager.c:219: the types, one listener, on the device
\* g_audio_id names (which need not be the default device of now), and no item that
\* is overdue: the counter of each stays below its interval.
THEOREM TypesAndTicks == Spec => []ListenersOK
<1>1. FullInv => ListenersOK
  BY DEF FullInv, Wired, Ranges, Counted, ListenersOK
<1>2. QED
  BY FullInitially, FullStep, <1>1, PTL DEF Spec
=============================================================================
