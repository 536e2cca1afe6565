# Formal models of omabar

omabar is a status bar for macOS: one daemon that draws a bar on every display,
takes orders and events over a Unix socket, follows the window server and
re-hosts the menus of the front application; plugins are processes of their own
that talk to it through a Swift SDK.  This directory holds TLA+ models of the
parts of it that are concurrent or order-sensitive, TLC configurations that
check them on small instances, and TLAPS proofs of what holds for every
instance.  `file:line` below is relative to `src/src/` unless it names a directory.

    tlc -config EventQueue.cfg MCEventQueue.tla     # check a run
    tlapm EventQueueProofs.tla                      # check a proof module

## The system

| component | state | operations | how it meets the others |
|---|---|---|---|
| event ring (`event_loop.c`) | head, tail, slots with sequence counters, worker thread | post, pop, run, begin, destroy | producers are arbitrary threads; handlers run in blocks on the main queue. No part of the daemon posts to it at present |
| event dispatch (`event.c`, `bar_manager.c`) | table of handlers | `event_post` = `dispatch_sync` to the main thread | every listener and socket worker calls it and waits |
| socket server (`ipc.c`) | listening socket, one worker block per connection | accept, read frame, parse, reply | workers hand messages to the main thread; replies are written by the main thread |
| plugin hub (`plugin.c`) | table of (name, descriptor, mask, connected) | register, subscribe, unregister, notify, health check | called from the main thread and, without a lock, from workers |
| IPC client (`ipc_client.c`) | descriptor | connect, send, read, close | the other end of the socket |
| Swift SDK and plugins (`plugins/`) | descriptor, one outstanding continuation, event handler, a reader thread per connection | connect, disconnect, request, event handler | the other end of the socket; a plugin samples something and updates its item |
| lifecycle (`main.c`) | lock file descriptor | lock, serve, signal, cleanup | instances share the lock file and the socket path |
| bars (`bar.c`, `display.c`) | bars, each with display, believed space, `spaces_synced` | create, destroy, sync, lay out, draw | hot-plug callbacks, the tick |
| windows (`window.c`, `popup.c`) | frame, `needs_resize`, queued clears | record a frame, apply it, clear later | every draw of a bar |
| spaces (`workspace.m`) | last-known space per display | turns notifications into `EVENT_SPACE_CHANGED` | the window server |
| application menus (`app_menus.m`, parts of `bar_item.c`) | top-level menu cache, one leaf cache, a popup per host item | refresh, load, open, press | accessibility API of the front app |
| items (`bar_item.c`, `bar_manager.c`) | items, masks, intervals, dirty flags | update, script, click, add | everything |
| configuration (`config.c`, `custom_events.c`) | registry of event names | load once at start | makes the items |
| listeners (`volume.c`, `power.c`, `wifi.m`, `media.m`, `dnd.c`, `mouse.c`, `hotload.c`) | last seen value | post an event | system callbacks; audio callbacks come on a thread of CoreAudio |
| animation, graph, slider, group, alias, app windows | small data structures | | nothing in the daemon creates one |
| drawing (`surface.c`, `text.c`, `font.c`, ...) | | | window server |

Threads: the main thread (run loop: every handler, reply, tick and callback),
one worker per socket connection, CoreAudio's thread, and the event ring's
worker; in a plugin its tasks and a reader thread per connection.  What is hard:

* descriptor numbers and table indices kept across a point where another
  thread can recycle them (hub, SDK);
* lock-free publication and recycling of ring slots (ring);
* names in the file system that outlive, or are outlived by, what they named
  (lifecycle);
* caches of what another process shows - spaces, menus, a volume - that it
  changes without telling, or tells on another thread (spaces, menus, listeners);
* waiting: synchronous hand-over to one main thread that itself does blocking
  writes (hub); a continuation someone has to resume (SDK);
* work recorded in one pass and done in a later one: frames, clears, flags
  (bar windows).

The full list, line by line, is under `hazards` in `PROJECT.json`.

## Modules

| module | models | state to code |
|---|---|---|
| `EventQueue` | `event_loop.c` | `head`, `tail`, `seq`, `slot` are the fields of `struct event_loop`; `pc` is a producer's place in claim/post, `wpc` the worker's in run/pop; `dispatched` the blocks on the main queue |
| `EventFifo` | the ring's promise | bounded FIFO of events, each delivered once |
| `PluginHub` | `ipc.c`, `plugin.c`, `event.c`, the message and event handlers of `bar_manager.c`, the client's socket calls | `file` is the process's descriptor table, `wfd` each worker's `client_fd`, `table` is `g_plugins` with what removals leave behind its end, `count` is `g_count`, `mainq` the workers inside `dispatch_sync`, `main` where the main thread is in a registration, a subscription, a fan-out, a reply or a health check, with the slot it has found; `taken` and `raced` are history: the numbers a registration from another connection has closed, and whether a removal has come between the two halves of an append |
| `Client` | `OmabarClient.swift`, and the top level of the battery and media plugins | `sock` is the connection `fd` names, `connected`, `stopReader`, `pending`, `handler` the client's fields, `reader` what the thread of each `connect()` is at and what it has in hand, `blocks` the resumptions queued outside the lock, `task` each task's request and sample |
| `Lifecycle` | `main.c`, binding and removing of the socket in `ipc.c` | `lockPath`, `sockPath` are what the two names refer to; `lock` the fcntl lock per inode |
| `SpaceSync` | `workspace.m`, `display.c`, space, display and tick handlers, syncing and painting in `bar.c` | `displays` is the window server's order of the displays, `bars` is `bm->bars` with the `adid` each bar read when it was made, `chips` each item's `space_ids`, `log` is `g_space_log`, `painted` what a bar showed when last drawn |
| `AppMenus` | `app_menus.m`, popup handling in `bar_item.c` | `menusOf` is `g_pid`, `leaves` the leaf cache with `g_items_menu` and `g_items_pid`, `popup` the host item's popup; `Refreshed` is what `app_menus_refresh` may leave in the two caches, `Copied` what an accessibility call gives or falls back to |
| `BarWindow` | `bar_calculate_bounds`, `bar_draw`, the refresh passes, `window.c`, `popup.c`, presses | `pos`, `len`, `x` are the items' fields, `leaves`, `bounds` the popups', `dirty`, `setup` the manager's `bar_needs_update`, `bar_needs_resize` and `needs_ordering`, `height`, `resize` the window's recorded frame, `shape` the window server's, `clears` the queued clearing blocks, `screen` what was painted last |
| `Json` | the two parsers: `json_parse_val` (`config.c`), `jval_parse` and `ipc_parse_message` (`ipc.c`) | no state: a text is a sequence of tokens, the parsers are functions of it |
| `Config` | `config.c`, `bar_manager_add_item`, `custom_events.c`; composes `Json` | no state: `Document` reads a text, `LoadItems` maps the document to the list of items; a mask is the set of its bits |
| `Listeners` | `volume.c`, `power.c`, `dnd.c`, what the built-in items read, and the event and tick handlers that update items; composes `Config` | `audio`, `last`, `cache` are `g_audio_id`, `g_last_volume`, `g_percentage_cache`; `hal` is where CoreAudio's thread is, `notes` what it has yet to deliver; `seen` what each item shows, `count` its `tick_counter` |
| `MC...` | | constants for TLC |
| `...Proofs` | | theorems about the module of that name |

One action is one atomic step of the code as other threads can see it: in
`EventQueue` one atomic access; in `PluginHub` one system call, or one search or
write of the table (workers change it without a lock while the main thread
registers, subscribes, fans out or checks, so each of these keeps an index from
one step to the next); in `Client` one section under the lock, one unlocked
look at the fields, or one read; in `Lifecycle` one system call; in `Listeners`
a callback of the main thread, and the audio callbacks in the parts another
thread can come between (`device_changed` reads the device before it moves the
listeners, `handler` reads the mute before the volume); in `SpaceSync`,
`AppMenus` and `BarWindow`, where everything runs on the main thread, one
callback, handler or queued block with every refresh it ends in.

Definitions marked `Mutant:` are altered copies of the definition after them;
each is a bug the named property would catch, and substituting it makes the run
fail (the pairs are in `PROJECT.json`).  They are not part of any specification.

## Runs

| run | checks | bounds |
|---|---|---|
| `EventQueue` | no slot touched by two threads (`NoSlotRace`), claim order and no loss (`InClaimOrder`), refinement of `EventFifo` (`FifoSpec`), the inductive invariant, every posted event handled and every post returning unless the worker stops | 2 producers, 2 posts each, ring of 2, batches of 2: positions go round the ring twice, the ring fills, batches are cut short by size and by emptiness; teardown and a failing `malloc` anywhere |
| `PluginHub` | replies go to the asker in order (`RepliesInOrder`), a worker's number stays its own (`OwnBlock`), both until a registration from another connection closes it; no name is listed twice but by one race (`UniqueNames`) | 2 connections of one name, 2 descriptor numbers, table of 3, two messages from one client and one from the other, each a registration, a subscription, a malformed or an oversized one, one fan-out, send buffer of 1: clients take each other's entry over, numbers are reused, entries go stale between search and write |
| `PluginHubLive` | requests of accepted clients are answered; closed descriptors leave the table | 2 connections of one name open together, 2 numbers, one message of any of the six kinds each (malformed and oversized ones among them), clients that read |
| `PluginHubReuse` | **fails**: a subscriber is listed | 2 connections that subscribe; a worker closes before it unregisters |
| `Client` | a continuation is in one place and resumed once (`HeldOnce`), a request returns its own reply on the first connection, every request is resolved, the item ends up showing the last reading | main task and 1 event task, so that requests collide; 2 connections, so that two readers overlap on one `fd`; the daemon may die anywhere, 1 change of the reading |
| `Lifecycle` | at most one instance in charge until a signal is handled; nothing left after clean exits | 3 instances, 3 inodes; kills and signals anywhere |
| `LifecycleMutex` | **fails**: at most one in charge, signals or not | 3 instances: one in charge, one signalled between opening and locking the file, one that creates a new file |
| `SpaceSync` | one chip highlighted per painted bar, one bar per display, bars and chips catch up | 2 displays with 2 spaces and 1, a fourth that is created on either, strips of at most 2 (so that one has room for it and the other has not), 3 events of the outside world, rearranging among them; each may or may not be notified; the displays in any order, an item for each arrangement id |
| `AppMenus` | leaf cache and menu cache belong to one app; a click performs what the leaf shows while the popup is up to date | 2 apps, a logo popup and a row of 2 menus, 2 leaves each, 2 changes of front app, leaves or enabled state; any accessibility call may fail |
| `BarWindow` | the window's frame follows the popups, every section reads in the configured order and overlaps no more than its left paddings differ, a press performs the row painted at the point or goes to an item of its column, every change is on the screen in the end | 4 items (a clock due every second tick, a text, two menu hosts) in 4 placements covering all five sections, left paddings of 2, 0 and 1, menus of up to 2 rows, any configuration flags at start, 3 changes, presses or display moves, presses at every point in and next to the bar |
| `Listeners` | items as configured, masks included, the daemon listens to the one device it believes in, the volume last posted is near the device's, device changes are followed, items show what they are told | the texts of 3 configurations (the default theme's items; duplicate names and keys, nameless objects, an events table, a strip of spaces, a script; one that is cut off), 2 machines, 2 devices (one without a main control), 3 volumes of which two are within the threshold, 3 changes |
| `ListenersDnd` | **fails**: the cached do-not-disturb state follows the machine's | 1 change |

Three facts about the parsers are evaluated with the runs, as assumptions of the
`MC` modules.  In `MCListeners` `ParserReadsJson`: of all texts of up to five tokens
`json_parse_val` reads to the end exactly those that the grammar of JSON derives
(`Derived`).  In `MCPluginHub` `FieldsReadBack`: of messages of up to three fields with
values of every sort `ipc_parse_message` reads back the fields, unless the last
value is a bare number; and `StatusNeedsField`: a message gets the status of its type
exactly with the field that type needs, of the right sort.

The failing runs are disagreements between the code and its own comments; the
comments are quoted under `findings`.

`CHECK_DEADLOCK` is off except in `BarWindow`: the bounds on posts, messages and
outside events end every behaviour, and the processes modelled may stop for
good.  In `BarWindow` the tick is always possible.

**Fairness.** `EventQueue`: a started thread keeps being scheduled and the main
queue is drained (weak).  `PluginHub`: workers and the main thread proceed
(weak); a message waiting in the main queue and the tick are each taken in the
end (strong, because the main queue is first-in first-out and neither can shut
the other out); clients other than the stalled ones read.  `Client`: reader
threads and tasks are scheduled and the daemon answers as long as it lives
(weak); its death, the reconnects and changes of the reading are not fair.
`SpaceSync`: callbacks are delivered and the display link ticks (weak).
`BarWindow`: the display link ticks and the main queue runs its blocks (weak).
`Listeners`: the start of the daemon, CoreAudio's thread, its hand-over, the
tick and the power source's run-loop callback (weak).  No fairness is assumed
of users, apps, clients' requests or the window server.

**Environment.** Closing, accepting, full buffers and errors are the kernel's
(`Accept` hands out the lowest free number, as POSIX requires).  In `SpaceSync`,
`AppMenus` and `Listeners` the window server, the apps and the machine may change
at any time between two steps, and are marked external in the map.

**What the bounds leave out.** Two of everything that is shared (producers,
connections, displays, popups, devices) is what a race or a mix-up needs; the
third instance in `Lifecycle` and the second connection in `Client` are there
because the hazards need them.  Where more would matter - larger tables,
more numbers, more tasks - the proofs below take over for the safety part.

## Proofs

The theorems hold for every value of the constants.  The only assumptions are
the named ones on the constants, which TLC evaluates in every run.

*Ring* (`EventQueueProofs`; any number of producers, ring size, batch size,
posts).  `NoSlotRace` is not inductive: that a slot is free to write says
nothing about who else holds a position with the same index.  `IInv` adds that the
claimed positions are the window tail..head-1 of width at most `Cap`
(`WindowInv`), that a claimed, unpublished position has one owner and an unbumped
counter (`HoldInv`), that every other claimed position is published with its
event (`PublishedInv`), that free positions have been recycled (`FreeInv`) and
where the worker is in recycling (`WorkerInv`).  Within a window of width `Cap`,
distinct positions have distinct indices (`IndexInjective`), which turns these into
slot ownership.  From it: `TypeCorrect`, `SlotRaceFreedom`, `ClaimOrder`, and
`RingImplementsFifo` (a won claim is an enqueue, a copy a dequeue, all else
stutters).

*Hub* (`PluginHubProofs`; any number of connections, numbers, messages, whatever
names the clients register).  The indices workers and the main thread act on may
be stale and the entries they name gone, so nothing is assumed of `found` but that
it is not 0, and of the slot kept by a registration that it is one of the table's,
and beyond its end if it is to be appended to.  `Inv` says so, and who
waits in the queue (once each, with a message and a number), and that the main
thread serves the head of the queue until it has replied.  Hence `TypeCorrect`, with
the limit `PLUGIN_MAX`.
`NamesUnique`: registering replaces the first entry of a known name, and removing
any entry, the right one or another, keeps the rest apart.  An append is safe
as long as the slot found is still the next one and the name nobody's (`SlotNext`);
that is lost when a worker's removal comes between, which is what `raced` records.
`OwnNumbersKept`: `Kept` says that an open number is that of a worker which has not
closed it, and that a worker has its number until it closes it or a
registration from another connection does, which is when the number enters
`taken`: nothing else closes, in particular not a registration on the same socket.
`RepliesOrdered` counts: what a client asked and has no answer to is what its worker
waits with and what is on the way (`Ledger`), each number above the one before, so
that the next reply is always the oldest one's.  The books are kept for clients
whose number has not been taken (`Spoilt`): from then on other workers may read
what one sends.

*SDK* (`ClientProofs`; any number of tasks and connections).  `ResumedOnce`: the
continuation is in `pendingReply` or in one block exactly while its task waits.
`MatchingReply` needs to know what is under way on the first connection: at
most one message of the outstanding request, in one of three places (the
request in the out stream, the reply in the in stream, or in the reader's
hand), with whole frames in the stream but for a header already read; none
when nothing is outstanding.

*Lifecycle* (`LifecycleProofs`; any number of instances and inodes): until a signal is
handled nothing unlinks the lock file, so there is one inode, and whoever is in
charge holds its lock (`LockInv`; `LockKept`, `OneDaemonTheorem`); an fcntl lock has
one holder.  Kills release the lock and leave the file.  `CleanExit`: whoever
has the lock file open, or has just closed it, will unlink it, and one that was
refused leaves that to the lock's holder; whoever has the socket will remove it.

*Menus* (`AppMenusProofs`; any apps, menus, sizes, changes): the leaf cache is
empty or of the app whose menus are cached (`OneAppTheorem`).  For
`PerformsShownTheorem` the sequences of leaves only lose elements (`Older`), so
that a cache which is as long as the menu, and a popup which is as its menu,
name the same leaf at a slot.

*Spaces* (`SpaceSyncProofs`; any displays, items and spaces, each display with
different spaces in its list at the start): a bar is appended only
for a display without one, `buf_del` takes one out and moves another, and every
other step keeps the displays of the bars in place (`OneBarEach`).  `TypeCorrect`
bounds every strip by `OMABAR_MAX_SPACES`.  `OneChip` is `OneHighlighted`, which reads:
as long as no item is drawn by two bars, what a bar paints has one chip
highlighted per strip.  That a painted strip is right is not inductive; `StripInv`
says that no list names a space twice (`Distinct`), that
the strip of every item a synced bar draws has the bar's space once (`Marked`), and
that what is on the screen was painted from such a state (`Lit`).
Syncing and painting are folds over bars and items; that a fold keeps the
invariant is proved on its recursive function, bar by bar.

*Bar windows* (`BarWindowProofs`; any items, menus, placements and sizes, however
the passes, presses and display moves interleave): `FrameFollows` and, from
`Painted`, `PressesHitShown`: with nothing left to repaint
and no clearing block run since the draw, the screen shows the items and popups
where a press looks them up.  What the layout computes does not matter for them,
only that the draw and the press read the same.  For a popup that is the row at the
point; for an item its column, and the row only while no popup is open.
`SectionsInOrder` is about what the layout computes: the items of every section,
also of those that are filled from the right by a walk backwards, stand in the
order of the configuration.  Right-anchored items do not overlap; elsewhere the
left padding shifts an item without moving the cursor, so that one reaches into the
next by up to the difference of their left paddings (`Overlap`), for any paddings, from 0 on, of
each item.  A pass is a recursive function of the index; the lemma under
`PlacedInOrder` says at each index that the items placed so far are ordered and end
where the next one starts, and `Laid` that with nothing left to repaint the items
stand where the last pass put them.

*Listeners* (`ListenersProofs`; any devices, volumes, configurations): `ListensToOne`,
and `QuietNear` from `Tracked`: while `handler` runs, the mute it has read is the
device's current one, otherwise the volume last posted is near the device's - or
a notification is pending.  Without the first part it is not inductive: `handler`
compares what it read.  `LoadedAsConfigured`: once a configuration is loaded, the
items are those it asks for - of each name the first definition, in the order of the sections, with
the bits of its own mask, of its type (a strip of spaces is updated when the
space changes) and of the events table, whatever the order of that table.  `TypesAndTicks` is `ListenersOK`: what every
item shows and counts is of its type, and no counter reaches its interval, which
needs that the intervals of a configuration survive the three nested folds of
`LoadItems` (`Ranges`, `Counted`).  Both take the configurations to be what a parsed
document is (`WellFormed`), an assumption TLC evaluates on the three of the run.

Induction.  The induction rules of the library take an operator as a parameter,
which the installed provers cannot instantiate.  Where a fold or a recursive
function is involved the proofs use the first-order form instead: the natural
numbers and the finite sets under strict inclusion are well-founded
(`NatLessThanWellFounded`, `FS_StrictSubsetOrderingWellFounded`), so the set of
counterexamples, were it not empty, would have a least one (`WFMin`), which the
step of the fold refutes.

Left to TLC: every liveness property (`EventuallyHandled`, `PostReturns`,
`EventuallyReplied`, `DepartedForgotten`, `Follows`, `ChipsCurrent`, `EventuallyResolved`,
`EventuallyFresh`, `EventuallyShown`, `EventuallyCurrent`, `DeviceFollowed`), which
the provers do not cover; and the three facts about the parsers, which are about
texts of bounded length.  Every invariant of a passing run is stated by a theorem.

## Where the code and its intent part

Found by a run (see `findings`): a worker closes its number before it
unregisters it; an instance that has opened the lock file and not locked it unlinks
it when it is signalled, under the daemon that holds it (and the holder drops the
lock before it unlinks); `dnd_update` drops what it has read.

Seen while modelling; the properties say where they stop:

* A client that never reads fills its buffer, and the main thread blocks on
  the write for every other client (`Stalled` in `EventuallyReplied`), although
  "concurrent plugin connections never block each other" (`ipc.c:116-117`).
* Two clients of one name close each other's connection (`plugin.c:49-55`), while the
  first one's worker may still be reading the number; from then on replies can go
  astray (`taken` in `OwnBlock` and `RepliesInOrder`).
* A client can be sent an event twice: one that subscribes, then registers a name that
  another connection holds, and subscribes again is listed under two names, each
  with a mask (`plugin.c:49-55` and `101-110`).
* An unlocked table: a worker's stale index can remove another's entry, or make the
  length of the `memmove` negative (`alive` becomes false); a removal between
  `p = &g_plugins[g_count]` and `g_count++` loses the new entry and lists the last old one
  twice (`raced`, where `UniqueNames` stops).
* An instance that is refused the lock removes the running daemon's socket in its
  cleanup.
* A bar reads the arrangement id of its display once (`bar.c:108`): after displays
  come, go or are rearranged two bars can hold the same id, and both draw an item
  meant for one of them (`Shared`, where `OneHighlighted` stops).
* An item drawn on two displays shows, on both, the chips of the display drawn
  last.  A created space for which a strip has room is missing from its end until
  the display's current space changes (`ChipsCurrent` allows for it), although
  "space changes keep the cache current" (`bar.c:246-247`).
* Items overlap when the first has the larger left padding, as in the default theme
  (10 then 4, 12 then 2): `bar.c:332-333` shifts an item by its padding and advances
  the cursor by its length alone.
* After the front app has changed, a click in an open popup can perform another
  app's command at the same place of its menu.
* A second connection of the SDK's client can get a reply to the first one's
  request, since the first reader may still run.
* `app_menus_invalidate` is never called: an app switch "has to force a re-read"
  (`bar_item.c:935-936`) when `info` names it, but `bar_manager.c` passes the name of
  the event as the sender.  The caches go because the front app's pid differs.
* The parser of messages takes the closing brace of a message for part of its last
  value when that is a bare number, `true`, `false` or `null` (`ipc.c:291-309`), and
  rejects the message; `data` that is a string or an array is ignored.  The SDK's
  `trigger` writes its "optional JSON data" last (`OmabarClient.swift:45-49`).  Of a
  key given twice the configuration keeps the first value, a message the last.
* Hover scripts do not run: `bar_manager_handle_mouse_entered` sets `mouse_over`
  before it calls `bar_item_mouse_entered`, which returns when it is set
  (`bar_manager.c:290`, `bar_item.c:1155`).
* Two popups that overlap: the press goes to the first, the last is painted on
  top; beside a popup, below the bar, a press goes to the item above it, since
  items are found by x alone.  The content row is centred in the window extended for
  the popup (`bar.c:395`).  A popup stays invisible until the next draw: without an
  item that has an `update_interval` that is the next event.
* Volume: the first frame shows 0, because `config_load` runs before
  `volume_begin`, where `bar_manager.c:700-702` wants the first frame right; the
  label ignores the mute, a label read ahead of the handler can stay stale, and a
  device with only left and right controls keeps the cached percentage.  A change
  of the default device between the read at `volume.c:140` and the listener is
  missed.
* `front_app_switched`, `wifi_changed`, `media_changed` and `brightness_changed` in an
  `update_mask` (README.md:170) never fire: their sources start only from
  `bar_item_event_subscribe`, which the configuration does not reach.
  `dnd_end` is posted but has no mask.
* The positions `cl` and `cr` are not parsed and fall back to the section's.
* A line a script prints is posted with a string where the handler expects a
  struct (`bar_item.c:893`).

## Not modelled

* Weak memory: accesses of the ring are sequentially consistent.  Its relaxed
  loads are of `head` and `tail` in the claim loop, where a stale value makes the
  claim fail or the ring look fuller.
* Torn searches and moves of the plugin table: each search is a step, and so are a
  `memmove` with its count and the filling of a slot with its; that the name of an
  entry listed twice is freed twice; nested signal handlers;
  the shutdown of the hub while workers run (`g_running`, `plugin_destroy`).
* What an update message does to an item's many keys, characters and escapes of
  JSON strings, fonts, colours, negative paddings, rounding; bottom and side bars; items with a pinned `space_id`.
* Hover, drag and scroll; removing, moving, cloning and renaming items, which
  nothing calls.
* Animations, graphs, sliders, groups, aliases, hot reload, app windows: nothing
  in the daemon creates or starts one (`animation_add`, `hotload_begin` and
  `app_windows_begin` have no caller that runs), so a model of them would have no
  reachable steps.
* Rendering, the Mach helper channel, string helpers and the Nix packaging, which
  keep no state a property is about.

What is left to do with this: a reference grammar for the messages, as there is one
for the configuration, and the update message once it has an order to get wrong.
