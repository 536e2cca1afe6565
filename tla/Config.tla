------------------------------- MODULE Config -------------------------------
(***************************************************************************)
(* Loading the configuration (config.c): from the document in its text to  *)
(* the list of items and their update masks, and the registry of event     *)
(* names (custom_events.c).  A JSON object is a function from its keys; a  *)
(* mask is the set of its bits.  Fonts, colours and paddings are left out. *)
(***************************************************************************)
EXTENDS Json, SequencesExt

\* UPDATE_*, from bit 0
UpdateBits ==
  <<"routine", "forced", "mouse_entered", "mouse_exited", "mouse_scrolled",
    "mouse_clicked", "volume_changed", "power_changed", "wifi_changed",
    "brightness_changed", "media_changed", "front_app_switched",
    "space_changed", "display_added", "display_removed", "display_moved",
    "window_focused", "scroll_tick", "animation_tick", "daemon_message",
    "dnd", "mouse_dragged">>

\* custom_events_init registers these, each with the bit of its place.
Registered ==
  <<"routine", "forced", "mouse.entered", "mouse.exited", "mouse.scrolled",
    "mouse.clicked", "volume_changed", "power_changed", "wifi_changed",
    "brightness_changed", "media_changed", "front_app_switched",
    "space_changed", "display_added", "display_removed", "display_moved",
    "window_focused", "scroll.tick", "animate", "daemon_message", "dnd">>

BitsIn(names, name) == {n - 1 : n \in {k \in DOMAIN names : names[k] = name}}

Bit(name) == BitsIn(UpdateBits, name)
custom_events_get_mask(name) == BitsIn(Registered, name)

\* The other names a configuration may use for a bit.
Synonyms ==
  [routine |-> {"tick"}, scroll_tick |-> {"scroll.tick"},
   front_app_switched |-> {"front_app_changed"},
   volume_changed |-> {"mute_changed"},
   mouse_clicked |-> {"mouse.clicked"}, mouse_entered |-> {"mouse.entered"},
   mouse_exited |-> {"mouse.exited"}, mouse_scrolled |-> {"mouse.scrolled"},
   mouse_dragged |-> {"mouse.dragged"}]
Unnamed == {"forced", "animation_tick"}

map_event_string(name) ==
  IF name = "display_changed"
  THEN Bit("display_added") \cup Bit("display_removed") \cup Bit("display_moved")
  ELSE {n - 1 : n \in {k \in DOMAIN UpdateBits :
          LET bit == UpdateBits[k] IN
          /\ bit \notin Unnamed
          /\ \/ name = bit
             \/ bit \in DOMAIN Synonyms /\ name \in Synonyms[bit]}}

-----------------------------------------------------------------------------

\* json_get_field and the typed getters: a key that is absent, or a value of
\* another type, reads as the default.
Get(obj, key, default) == IF key \in DOMAIN obj THEN obj[key] ELSE default

Sections == <<"left", "center_left", "center", "center_right", "right">>

PositionNames ==
  [left |-> {"l", "left"}, right |-> {"r", "right"}, center |-> {"c", "center"},
   center_left |-> {"q", "center_left"}, center_right |-> {"e", "center_right"},
   popup |-> {"p", "popup"}]

parse_item_position(name, default) ==
  LET named == {p \in DOMAIN PositionNames : name \in PositionNames[p]}
  IN IF named = {} THEN default ELSE CHOOSE p \in named : TRUE

Kinds == {"clock", "battery", "volume", "wifi", "media", "front_app"}
parse_item_kind(type) == IF type \in Kinds THEN type ELSE "generic"

UnionOf(seq) == UNION {map_event_string(seq[n]) : n \in DOMAIN seq}

\* bar_item_set_type: a strip of spaces is updated when the space changes.
bar_item_set_type(type) == IF type = "space" THEN Bit("space_changed") ELSE {}

parse_item_object(obj, section) ==
  [name |-> obj.name,
   kind |-> parse_item_kind(Get(obj, "type", "")),
   position |-> parse_item_position(Get(obj, "position", ""), section),
   interval |-> Get(obj, "update_interval", 0),
   script |-> Get(obj, "script", ""),
   mask |-> bar_item_set_type(Get(obj, "type", ""))
              \cup UnionOf(Get(obj, "update_mask", <<>>))]

\* Mutant: bar_manager_add_item does not look for an item of that name.
AddAlways(items, item) == Append(items, item)

\* The item of a name that is taken is dropped, silently.
bar_manager_add_item(items, item) ==
  IF \E n \in DOMAIN items : items[n].name = item.name
  THEN items ELSE Append(items, item)

\* An object without a name is skipped.
AddObject(items, obj, section) ==
  IF "name" \in DOMAIN obj
  THEN bar_manager_add_item(items, parse_item_object(obj, section))
  ELSE items

AddSection(items, section, objs) ==
  FoldLeft(LAMBDA acc, obj : AddObject(acc, obj, section), items, objs)

AllSections(config) ==
  FoldLeft(LAMBDA acc, section :
             AddSection(acc, section, Get(config.items, section, <<>>)),
           <<>>, Sections)

AddEvent(items, entry) ==
  [n \in DOMAIN items |->
     IF items[n].name = entry.item
     THEN [items[n] EXCEPT !.mask = @ \cup map_event_string(entry.event)]
     ELSE items[n]]

LoadItems(config) ==
  FoldLeft(AddEvent, AllSections(config), config.events)

\* The document in the text behind the header.
Document(text) ==
  LET root == json_parse(text)
  IN  IF root.ok /\ KindAt(text, 1) = "{"
      THEN [valid |-> TRUE, items |-> Get(root.val, "items", <<>>),
            events |-> Get(Get(root.val, "events", <<>>), "items", <<>>)]
      ELSE [valid |-> FALSE]

\* The file opens, has the header and holds a JSON object.
Readable(config) == config.valid

-----------------------------------------------------------------------------
(* What a configuration says, without the order in which it is read *)

\* The places of the objects with a name: section, index.
Objects(config, s) == Get(config.items, Sections[s], <<>>)
Places(config) ==
  UNION {{s} \X {k \in DOMAIN Objects(config, s) :
                   "name" \in DOMAIN Objects(config, s)[k]} : s \in DOMAIN Sections}
At(config, p) == Objects(config, p[1])[p[2]]
Before(p, q) == p[1] < q[1] \/ (p[1] = q[1] /\ p[2] < q[2])
Defines(config, p, name) ==
  /\ At(config, p).name = name
  /\ \A q \in Places(config) : At(config, q).name = name => ~Before(q, p)

\* A document has lists where the loader looks for lists and numbers where it
\* looks for numbers: what is something else reads as absent.
IsList(seq) == Len(seq) \in Nat /\ DOMAIN seq = 1 .. Len(seq)
WellFormed(config) ==
  /\ \A s \in DOMAIN Sections : IsList(Objects(config, s))
  /\ \A p \in Places(config) : Get(At(config, p), "update_interval", 0) \in Int
  /\ IsList(config.events)

=============================================================================
