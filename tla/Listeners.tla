------------------------------ MODULE Listeners ------------------------------
(***************************************************************************)
(* From the state of the machine to what the items show: the daemon loads  *)
(* its configuration, starts the audio and power listeners (volume.c,      *)
(* power.c), and updates items on their events, on custom events           *)
(* (dnd.c, plugins) and on ticks (bar_manager.c, bar_item.c).  The audio   *)
(* callbacks run on a thread of CoreAudio, everything else on the main     *)
(* thread, to which the audio thread hands its event and waits (event.c).  *)
(* Volumes are in half points of the percentage.                           *)
(***************************************************************************)
EXTENDS Config, FiniteSets, FiniteSetsExt

CONSTANTS
  Configs,        \* configurations to start with
  Machines,       \* states the machine may be in when the daemon starts
  Devices,        \* output devices
  Channels,       \* device -> "main", "left": the controls it has
  Volumes,
  Threshold,      \* 1e-2f
  Batteries,      \* lists of capacities the machine may report
  Others,         \* what else changes: the time, the network, the player, ...
  Values,
  NoDevice, Nothing,
  DndEvery,       \* ticks between two reads of the DND state (60)
  MaxActs         \* bound: changes of the machine and triggers

NoVolume == -200  \* -1.0f

ASSUME ListenersAssumption ==
  /\ Volumes \subseteq 0 .. 200 /\ Threshold \in Nat /\ DndEvery \in Nat \ {0}
  /\ Channels \in [Devices -> SUBSET {"main", "left"} \ {{}}]
  /\ NoDevice \notin Devices /\ "device" \notin Devices
  /\ \A config \in Configs : Readable(config) => WellFormed(config)
  /\ Others \subseteq {"clock", "wifi", "media", "front_app"}
  /\ Machines \subseteq
       [device : Devices, volume : [Devices -> Volumes],
        muted : [Devices -> BOOLEAN], batteries : Batteries,
        source : {"AC", "Battery", "UPS", "unknown"},
        value : [Others -> Values], dnd : {"on", "off", "unreadable"}]

VARIABLES
  world,          \* the machine
  phase, items,   \* bm->bar_items
  seen,           \* name -> label of the item, or what its script last read
  count,          \* name -> tick_counter
  audio,          \* g_audio_id
  last,           \* g_last_volume
  cache,          \* g_percentage_cache
  early,          \* history: a label was read ahead of the handler
  source,         \* g_power_source
  dnd, dndCount,  \* g_dnd_state, g_tick_dnd_counter
  listening,      \* devices that handler listens to
  onDevice,       \* device_changed is installed
  notes,          \* notifications CoreAudio has yet to deliver
  hal,            \* where its thread is
  acts

bar == <<items, seen, count, cache, early>>
core == <<audio, last, listening, onDevice, notes, hal>>
vars == <<world, phase, bar, core, source, dnd, dndCount, acts>>

Idle == <<"idle">>
Names == {items[n].name : n \in DOMAIN items}
ItemOf(name) == items[CHOOSE n \in DOMAIN items : items[n].name = name]

Init ==
  /\ world \in Machines
  /\ phase = "load"
  /\ items = <<>> /\ seen = <<>> /\ count = <<>>
  /\ audio = NoDevice /\ last = NoVolume /\ cache = -1 /\ early = FALSE
  /\ source = 0 /\ dnd = FALSE /\ dndCount = 0
  /\ listening = {} /\ onDevice = FALSE /\ notes = {} /\ hal = Idle
  /\ acts = 0

-----------------------------------------------------------------------------
(* The built-in contents *)

Percent(d) == Min({(world.volume[d] + 1) \div 2, 100})

Usable(a) == a # NoDevice /\ "main" \in Channels[a]

volume_get_percentage ==
  IF Usable(audio) THEN Percent(audio) ELSE Max({cache, 0})

Kept == IF Usable(audio) THEN Percent(audio) ELSE cache

\* power_get_capacity: the mean of what is reported, 0 for nothing.
Capacity ==
  IF world.batteries = <<>> THEN 0
  ELSE FoldLeft(LAMBDA a, b : a + b, 0, world.batteries)
       \div Len(world.batteries)

\* The player answers within five seconds, or the item is empty.
media_get_info(answered) == IF answered THEN world.value["media"] ELSE Nothing

bar_item_apply_builtin_content(kind, answered) ==
  CASE kind = "volume" -> volume_get_percentage
    [] kind = "battery" -> Capacity
    [] kind = "media" -> media_get_info(answered)
    [] kind \in Others \ {"media"} -> world.value[kind]
    [] OTHER -> Nothing

\* A script reads what it is about for itself.
ScriptReads(subject) ==
  CASE subject = "volume" -> world.volume[world.device]
    [] subject = "battery" -> Capacity
    [] subject = "dnd" -> world.dnd
    [] OTHER -> world.value[subject]

Content(item, answered) ==
  IF item.script # "" THEN ScriptReads(item.script)
  ELSE bar_item_apply_builtin_content(item.kind, answered)

VolumeBit == Bit("volume_changed")
PowerBit == Bit("power_changed")

\* The device has a volume that handler has not compared with last yet.
Heard(d, muted) == IF muted THEN 0 ELSE world.volume[d]
Away(v, w) == v > w + Threshold \/ v < w - Threshold
Ahead == audio # NoDevice /\ Away(world.volume[audio], last)

\* bar_item_update for the items of S.
bar_item_update(S) ==
  \E answered \in BOOLEAN :
    /\ answered \/ \E i \in S : ItemOf(i).kind = "media" /\ ItemOf(i).script = ""
    /\ seen' = [i \in Names |->
         IF i \in S THEN Content(ItemOf(i), answered) ELSE seen[i]]
    /\ IF \E i \in S : ItemOf(i).kind = "volume" /\ ItemOf(i).script = ""
       THEN cache' = Kept /\ early' = Ahead
       ELSE UNCHANGED <<cache, early>>

Masked(mask) == {i \in Names : ItemOf(i).mask \cap mask # {}}

\* bar_manager_update_items
UpdateItems(mask) == bar_item_update(Masked(mask))

-----------------------------------------------------------------------------
(* Start and stop *)

\* config_load; add_item fills in what the built-in kinds show.
LoadConfig ==
  /\ phase = "load"
  /\ \E config \in Configs, answered \in BOOLEAN :
       IF Readable(config)
       THEN /\ items' = LoadItems(config)
            /\ seen' = [i \in {items'[n].name : n \in DOMAIN items'} |->
                 LET item == items'[CHOOSE n \in DOMAIN items' : items'[n].name = i]
                 IN IF item.script # "" THEN Nothing
                    ELSE bar_item_apply_builtin_content(item.kind, answered)]
            /\ count' = [i \in DOMAIN seen' |-> 0]
            /\ phase' = "begin"
       ELSE phase' = "exit" /\ UNCHANGED <<items, seen, count>>
  /\ UNCHANGED <<world, cache, early, core, source, dnd, dndCount, acts>>

\* volume_begin: the default device is read ...
ReadDevice ==
  /\ phase = "begin"
  /\ audio' = world.device
  /\ phase' = "listen"
  /\ UNCHANGED <<world, bar, last, listening, onDevice, notes, hal, source,
                 dnd, dndCount, acts>>

\* Mutant: power_handler does nothing when the kind of source is the same.
PowerHandlerOnce ==
  LET type == CASE world.source = "AC" -> 1
                [] world.source \in {"Battery", "UPS"} -> 2
                [] OTHER -> 0 IN
  IF type \in {0, source} THEN UNCHANGED <<source, seen, cache, early>>
  ELSE /\ source' = type
       /\ UpdateItems(PowerBit)

\* power_handler
PowerHandler ==
  LET type == CASE world.source = "AC" -> 1
                [] world.source \in {"Battery", "UPS"} -> 2
                [] OTHER -> 0 IN
  IF type = 0 THEN UNCHANGED <<source, seen, cache, early>>
  ELSE /\ source' = type
       /\ UpdateItems(PowerBit)

\* ... and then listened to.  The rest of bar_manager_begin on this thread:
\* power_begin forces an event, and the first frame is painted.
Listen ==
  /\ phase = "listen"
  /\ listening' = {audio} /\ onDevice' = TRUE
  /\ PowerHandler
  /\ phase' = "run"
  /\ UNCHANGED <<world, items, count, audio, last, notes, hal, dnd, dndCount,
                 acts>>

\* volume_end takes back the listeners: that of the device goes with it.
volume_end ==
  /\ listening' = listening \ {audio} /\ onDevice' = FALSE
  /\ audio' = NoDevice

\* A signal: bar_manager_destroy, volume_end, power_end; the process ends.
Shutdown ==
  /\ phase = "run" /\ phase' = "exit"
  /\ volume_end
  /\ UNCHANGED <<world, bar, last, notes, hal, source, dnd, dndCount, acts>>

-----------------------------------------------------------------------------
(* The audio thread *)

Off == phase = "exit"
Main == <<world, phase, bar, source, dnd, dndCount, acts>>

\* handler reads the mute controls, then the volumes.
Enter(d) == <<"handler", d, world.muted[d]>>

VolumeNote(d) ==
  /\ hal = Idle /\ ~Off /\ d \in listening \cap notes
  /\ notes' = notes \ {d}
  /\ hal' = Enter(d)
  /\ UNCHANGED <<Main, audio, last, listening, onDevice>>

\* Mutant: a volume that rises is posted, one that falls is not.
HandlerRises ==
  /\ hal[1] = "handler" /\ ~Off
  /\ LET v == Heard(hal[2], hal[3]) IN
     IF v > last + Threshold
     THEN last' = v /\ hal' = <<"post">>
     ELSE hal' = Idle /\ UNCHANGED last
  /\ UNCHANGED <<Main, audio, listening, onDevice, notes>>

Handler ==
  /\ hal[1] = "handler" /\ ~Off
  /\ LET v == Heard(hal[2], hal[3]) IN
     IF Away(v, last)
     THEN last' = v /\ hal' = <<"post">>
     ELSE hal' = Idle /\ UNCHANGED last
  /\ UNCHANGED <<Main, audio, listening, onDevice, notes>>

\* device_changed reads the new default device, then moves the listeners.
DeviceNote ==
  /\ hal = Idle /\ ~Off /\ onDevice /\ "device" \in notes
  /\ notes' = notes \ {"device"}
  /\ hal' = <<"device", world.device>>
  /\ UNCHANGED <<Main, audio, last, listening, onDevice>>

\* Mutant: the listener for the default device is removed and added again
\* too, and loses what came meanwhile.
DeviceRelisten ==
  /\ hal[1] = "device" /\ ~Off
  /\ listening' = (listening \ {audio}) \cup {hal[2]}
  /\ notes' = notes \ ({audio, "device"} \ {hal[2]})
  /\ last' = NoVolume
  /\ audio' = hal[2]
  /\ hal' = Enter(hal[2])
  /\ UNCHANGED <<Main, onDevice>>

\* Listeners that are removed lose what was pending for them.
DeviceChanged ==
  /\ hal[1] = "device" /\ ~Off
  /\ listening' = (listening \ {audio}) \cup {hal[2]}
  /\ notes' = notes \ ({audio} \ {hal[2]})
  /\ last' = NoVolume
  /\ audio' = hal[2]
  /\ hal' = Enter(hal[2])
  /\ UNCHANGED <<Main, onDevice>>

\* event_post from that thread: the main thread runs
\* bar_manager_handle_volume_changed and lets it go on.
VolumeChanged ==
  /\ hal = <<"post">> /\ phase = "run"
  /\ UpdateItems(VolumeBit)
  /\ hal' = Idle
  /\ UNCHANGED <<world, phase, items, count, audio, last, listening, onDevice,
                 notes, source, dnd, dndCount, acts>>

-----------------------------------------------------------------------------
(* The main thread *)

\* The items a flip of the DND state updates: "dnd_end" has no mask.
DndItems(state) ==
  Masked(custom_events_get_mask(IF state THEN "dnd" ELSE "dnd_end"))

\* CFURLCreateDataAndPropertiesFromResource is true when it has read the
\* file; plist is then set to NULL.
File == IF world.dnd = "unreadable" THEN Nothing ELSE world.dnd
FileRead == File # Nothing
Plist == IF FileRead THEN Nothing ELSE File

\* dnd_update, and the items it updates.
Flips == Plist # Nothing /\ dnd # (Plist = "on")
DndUpdated == IF Flips THEN DndItems(~dnd) ELSE {}
dnd_update == dnd' = IF Flips THEN ~dnd ELSE dnd

\* Mutant: the counter of an item that was updated is not reset, so it is
\* updated again only when the counter wraps.
CountedOn ==
  {i \in Names : ItemOf(i).interval > 0 /\ count[i] + 1 > ItemOf(i).interval}

Due ==
  {i \in Names : ItemOf(i).interval > 0 /\ count[i] + 1 >= ItemOf(i).interval}

\* bar_manager_handle_scroll_tick; the glyph of a volume item reads the
\* percentage too, if the bar is repainted.
Tick ==
  /\ phase = "run"
  /\ dndCount' = (dndCount + 1) % DndEvery
  /\ IF dndCount' = 0 THEN dnd_update ELSE UNCHANGED dnd
  /\ count' = [i \in Names |->
       IF ItemOf(i).interval <= 0 \/ i \in Due THEN 0 ELSE count[i] + 1]
  /\ bar_item_update(Due \cup (IF dndCount' = 0 THEN DndUpdated ELSE {}))
  /\ UNCHANGED <<world, phase, items, core, source, acts>>

\* applicationDidWakeHandler: dnd_update and a power event.
Wake ==
  /\ phase = "run" /\ acts < MaxActs /\ acts' = acts + 1
  /\ dnd_update
  /\ bar_item_update(DndUpdated \cup Masked(PowerBit))
  /\ UNCHANGED <<world, phase, items, count, core, source, dndCount>>

\* A plugin triggers an event: bar_manager_handle_custom_event.
Trigger ==
  /\ phase = "run" /\ acts < MaxActs /\ acts' = acts + 1
  /\ \E name \in {"dnd", "volume_changed", "unheard_of"} :
       UpdateItems(custom_events_get_mask(name))
  /\ UNCHANGED <<world, phase, items, count, core, source, dnd, dndCount>>

-----------------------------------------------------------------------------
(* The machine changes; what listens is told. *)

Machine == acts < MaxActs /\ acts' = acts + 1 /\ ~Off

Tell(S) == notes' = notes \cup S

VolumeMoves ==
  /\ Machine
  /\ \E d \in Devices :
       /\ \/ \E v \in Volumes \ {world.volume[d]} :
               world' = [world EXCEPT !.volume[d] = v]
          \/ world' = [world EXCEPT !.muted[d] = ~@]
       /\ Tell({d} \cap listening)
  /\ UNCHANGED <<phase, bar, audio, last, listening, onDevice, hal, source,
                 dnd, dndCount>>

DefaultMoves ==
  /\ Machine
  /\ \E d \in Devices \ {world.device} : world' = [world EXCEPT !.device = d]
  /\ Tell(IF onDevice THEN {"device"} ELSE {})
  /\ UNCHANGED <<phase, bar, audio, last, listening, onDevice, hal, source,
                 dnd, dndCount>>

\* The run loop source calls power_handler.
PowerMoves ==
  /\ Machine /\ phase = "run"
  /\ \/ \E b \in Batteries \ {world.batteries} : world' = [world EXCEPT !.batteries = b]
     \/ \E s \in {"AC", "UPS", "unknown"} \ {world.source} : world' = [world EXCEPT !.source = s]
  /\ UNCHANGED <<phase, bar, core, source, dnd, dndCount>>

PowerNote ==
  /\ phase = "run"
  /\ PowerHandler
  /\ UNCHANGED <<world, phase, items, count, core, dnd, dndCount, acts>>

OthersMove ==
  /\ Machine
  /\ \/ \E o \in Others : \E v \in Values \ {world.value[o]} :
          world' = [world EXCEPT !.value[o] = v]
     \/ \E s \in {"on", "off", "unreadable"} \ {world.dnd} :
          world' = [world EXCEPT !.dnd = s]
  /\ UNCHANGED <<phase, bar, core, source, dnd, dndCount>>

Delivery ==
  \/ \E d \in Devices : VolumeNote(d)
  \/ DeviceNote \/ DeviceChanged \/ Handler

Next ==
  \/ LoadConfig \/ ReadDevice \/ Listen \/ Shutdown
  \/ Delivery \/ VolumeChanged
  \/ Tick \/ Wake \/ Trigger \/ PowerNote
  \/ VolumeMoves \/ DefaultMoves \/ PowerMoves \/ OthersMove

\* The main thread and CoreAudio's run, the display link ticks, and power
\* changes are notified.
Spec ==
  /\ Init /\ [][Next]_vars
  /\ WF_vars(LoadConfig) /\ WF_vars(ReadDevice) /\ WF_vars(Listen)
  /\ WF_vars(Delivery) /\ WF_vars(VolumeChanged)
  /\ WF_vars(Tick) /\ WF_vars(PowerNote)

-----------------------------------------------------------------------------
(* Properties *)

\* Types, and in a running daemon exactly the device g_audio_id names is
\* listened to, however often the default device changes; no item is
\* overdue.
ListenersOK ==
  /\ phase \in {"load", "begin", "listen", "run", "exit"}
  /\ hal[1] \in {"idle", "handler", "device", "post"}
  /\ notes \subseteq Devices \cup {"device"}
  /\ cache \in -1 .. 100 /\ dndCount \in 0 .. DndEvery - 1
  /\ \A i \in Names : ItemOf(i).interval > 0 => count[i] < ItemOf(i).interval
  /\ phase = "run" => onDevice /\ listening = {audio}

\* bar_manager_add_item, the sections and the events table: every item has
\* the first definition of its name, in the order of the sections, and its
\* mask is what that definition and every entry of the table name, and the
\* change of space for a strip of spaces (config_test.c:312).
AsConfigured ==
  phase = "begin" => \E config \in {c \in Configs : Readable(c)} :
    /\ \A p \in Places(config) : At(config, p).name \in Names
    /\ \A m, n \in DOMAIN items : \E p, q \in Places(config) :
         /\ Defines(config, p, items[m].name)
         /\ Defines(config, q, items[n].name)
         /\ m < n => Before(p, q)
         /\ items[m].mask =
              {b \in Bit("space_changed") : Get(At(config, p), "type", "") = "space"} \cup
              UNION ({map_event_string(e) : e \in ToSet(Get(At(config, p), "update_mask", <<>>))}
                \cup {map_event_string(config.events[k].event) :
                        k \in {j \in DOMAIN config.events :
                                config.events[j].item = items[m].name}})

\* handler, volume.c:72: when CoreAudio has nothing left to tell and no
\* event is on its way, the volume last posted is within the threshold of
\* the one the device has, whatever devices, mutes and volumes came between.
QuietMeansNear ==
  phase = "run" /\ hal = Idle /\ notes = {} /\ last # NoVolume =>
    ~Away(Heard(audio, world.muted[audio]), last)

\* Every change of the default device that is notified is followed, also
\* one that comes while device_changed moves the listeners.
DeviceFollowed ==
  ("device" \in notes) ~> (audio = world.device \/ Off)

\* A built-in volume item is within twice the threshold, in half points:
\* handler and the label read the volume at different times.
VolumeShown(i) ==
  Usable(world.device) /\ audio = world.device =>
    seen[i] - Percent(world.device) \in -Threshold .. Threshold

\* What the item is about is told to it: by its interval, or by an event
\* that the daemon has a source for.  The volume is not told while muted,
\* nor when it comes out of a mute so low that it counts as no change, nor
\* when it comes back to the one last posted after a label was read.
Told(i) ==
  LET item == ItemOf(i) IN
  \/ item.interval > 0
  \/ /\ item.kind = "battery" \/ item.script = "battery"
     /\ PowerBit \subseteq item.mask /\ world.source # "unknown"
  \/ /\ item.kind = "volume" /\ item.script = ""
     /\ VolumeBit \subseteq item.mask
     /\ last # NoVolume /\ ~early /\ ~world.muted[audio]
     /\ world.volume[audio] > Threshold

Current(i) ==
  LET item == ItemOf(i) IN
  IF item.script # "" THEN seen[i] = ScriptReads(item.script)
  ELSE CASE item.kind = "volume" -> VolumeShown(i)
         [] item.kind = "battery" -> seen[i] = Capacity
         [] item.kind = "media" -> seen[i] \in {Nothing, world.value["media"]}
         [] item.kind \in Others \ {"media"} -> seen[i] = world.value[item.kind]
         [] OTHER -> TRUE

\* "they had no update path at all and stayed on whatever they first read at
\* startup" (bar_manager.c:579): no longer; what an item is told of it shows
\* in the end.
EventuallyCurrent ==
  <>[](phase = "run" => \A i \in Names : Told(i) => Current(i))

\* "Re-read the com.apple.notificationcenterui preferences plist and update
\* the cached DND state" (dnd.c:34): when the file can be read, the cached
\* state is the machine's in the end.
DndFollowed ==
  <>[](phase = "run" /\ world.dnd # "unreadable" => dnd = (world.dnd = "on"))

=============================================================================
