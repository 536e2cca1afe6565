----------------------------- MODULE PluginHub ------------------------------
(***************************************************************************)
(* The daemon's socket server and plugin hub: ipc.c (one worker block per  *)
(* accepted connection), event.c (a worker hands each message to the main  *)
(* thread with dispatch_sync and waits), bar_manager_handle_daemon_message *)
(* (the main thread acts on the message and replies on the descriptor the  *)
(* message came from) and plugin.c (the table of plugins, the fan-out of   *)
(* events to subscribers and the health check).                            *)
(*                                                                         *)
(* Descriptors are the interesting part: the table and the messages hold   *)
(* descriptor numbers, close frees the number and accept hands out the     *)
(* lowest free one, so a number kept too long names another connection.    *)
(* The table is shared by the main thread and the workers without a lock:  *)
(* plugin_unregister_by_fd is a search step and a removal step, by a       *)
(* worker or by the health check, and the main thread's plugin_register    *)
(* and plugin_subscribe are a step for each search and each write, with    *)
(* what they found kept in between.                                        *)
(***************************************************************************)
EXTENDS Integers, Sequences, FiniteSets, SequencesExt, FiniteSetsExt

CONSTANTS
  Conns,        \* the connections clients make, one worker block each
  Fds,          \* the descriptor numbers the process has left
  PluginMax,    \* PLUGIN_MAX
  Events,       \* the event names there are
  NamesOf,      \* the names the client of each connection may register
  Traffic,      \* the kinds of message the client of each connection sends
  MaxMsgs,      \* bound: how many messages each client sends
  MaxFired,     \* bound: system events (volume, power, space, ...)
  SockBuf,      \* frames a connection's send buffer takes before write blocks
  Stalled,      \* connections whose client never reads
  Free, Nobody

Kinds == {"register", "subscribe", "trigger", "query", "malformed", "badframe"}

ASSUME ConstantsAssumption ==
  /\ Fds \subseteq Nat /\ IsFiniteSet(Fds)
  /\ PluginMax \in Nat
  /\ Traffic \in [Conns -> SUBSET Kinds]
  /\ MaxMsgs \in [Conns -> Nat] /\ MaxFired \in Nat
  /\ SockBuf \in Nat \ {0}
  /\ Free \notin Conns /\ Nobody \notin Conns

VARIABLES
  client,     \* the client's end: "away", "queued" (connected, in the listen
              \* backlog), "open" (accepted) or "gone"
  sent,       \* messages each client has sent
  inbox,      \* per connection: messages the daemon has not read
  outbox,     \* per connection: frames the client has not read
  file,       \* the descriptor table: which connection a number refers to
  taken,      \* history: the numbers a registration from another one has closed
  pc, wfd,    \* each worker's place in handle_client, its client_fd
  req,        \* the message each worker last read
  found,      \* the index a worker's plugin_unregister_by_fd has found
  table,      \* g_plugins, entry i in slot i + 1; what a removal leaves behind the
              \* end stays there
  count,      \* g_count
  raced,      \* history: a worker has removed an entry between the search of a
              \* registration that appends and its g_count++
  mainq,      \* workers waiting in dispatch_sync, in order
  main,       \* what the main thread is at, its call's index and arguments, and the
              \* entry k that the health check is to remove
  fired,      \* system events so far
  asked,      \* history: well-formed requests each client has sent, in order
  answered,   \* history: the requests whose replies each client was written
  subs,       \* history: events each client was told it is subscribed to
  alive       \* FALSE once a negative memmove length has killed the daemon

clients == <<client, sent, inbox, asked>>
workers == <<pc, wfd, req, found>>
writes == <<outbox, answered>>
numbers == <<file, taken>>
plugins == <<table, count, raced>>
vars == <<clients, writes, numbers, workers, plugins, mainq, main, fired, subs, alive>>

Idle == [at |-> "idle", i |-> 0, k |-> 0, fd |-> Free, ev |-> Nobody, who |-> Nobody,
         name |-> Nobody]

AutoName(fd) == <<"plugin", fd>>
Names == (UNION {NamesOf[c] : c \in Conns}) \cup {AutoName(f) : f \in Fds}

Message ==
  [kind : Kinds, name : Names \cup {Nobody}, ev : Events \cup {Nobody},
   from : Conns, n : Nat]
Id(m) == <<m.from, m.n>>

Plugin == [name : Names \cup {Nobody}, fd : Fds \cup {Free}, mask : SUBSET Events,
           connected : BOOLEAN]
Unused == [name |-> Nobody, fd |-> Free, mask |-> {}, connected |-> FALSE]

-----------------------------------------------------------------------------
Init ==
  /\ client = [c \in Conns |-> "away"]
  /\ sent = [c \in Conns |-> 0]
  /\ inbox = [c \in Conns |-> <<>>]
  /\ outbox = [c \in Conns |-> <<>>]
  /\ file = [f \in Fds |-> Free]
  /\ taken = {}
  /\ pc = [c \in Conns |-> "none"]
  /\ wfd = [c \in Conns |-> Free]
  /\ req = [c \in Conns |-> Nobody]
  /\ found = [c \in Conns |-> 0]
  /\ table = [i \in 1 .. PluginMax |-> Unused]
  /\ count = 0
  /\ raced = FALSE
  /\ mainq = <<>>
  /\ main = Idle
  /\ fired = 0
  /\ asked = [c \in Conns |-> <<>>]
  /\ answered = [c \in Conns |-> <<>>]
  /\ subs = [c \in Conns |-> {}]
  /\ alive = TRUE

\* The daemon's end of connection c is still open (or still to be accepted).
Served(c) == client[c] = "queued" \/ \E f \in Fds : file[f] = c

-----------------------------------------------------------------------------
(* The clients and the kernel's side of the sockets *)

Connect(c) ==
  /\ client[c] = "away"
  /\ client' = [client EXCEPT ![c] = "queued"]
  /\ UNCHANGED <<sent, inbox, asked, writes, numbers, workers, plugins, mainq, main,
                 fired, subs, alive>>

Request(c) ==
  {m \in [kind : Traffic[c], name : NamesOf[c] \cup {Nobody},
          ev : Events \cup {Nobody}, from : {c}, n : {sent[c] + 1}] :
     /\ m.kind = "register" <=> m.name # Nobody
     /\ m.kind \in {"subscribe", "trigger"} <=> m.ev # Nobody}

Send(c) ==
  /\ client[c] \in {"queued", "open"} /\ Served(c) /\ sent[c] < MaxMsgs[c]
  /\ sent' = [sent EXCEPT ![c] = @ + 1]
  /\ \E m \in Request(c) :
       /\ inbox' = [inbox EXCEPT ![c] = Append(@, m)]
       /\ asked' = IF m.kind \in {"malformed", "badframe"}
                     THEN asked ELSE [asked EXCEPT ![c] = Append(@, Id(m))]
  /\ UNCHANGED <<client, writes, numbers, workers, plugins, mainq, main, fired, subs, alive>>

Receive(c) ==
  /\ client[c] = "open" /\ outbox[c] # <<>>
  /\ outbox' = [outbox EXCEPT ![c] = Tail(@)]
  /\ UNCHANGED <<clients, answered, numbers, workers, plugins, mainq, main, fired, subs, alive>>

\* The client closes its socket or dies; what it sent can still be read.
Leave(c) ==
  /\ client[c] \in {"queued", "open"}
  /\ client' = [client EXCEPT ![c] = "gone"]
  /\ outbox' = [outbox EXCEPT ![c] = <<>>]
  /\ UNCHANGED <<sent, inbox, asked, answered, numbers, workers, plugins, mainq, main,
                 fired, subs, alive>>

-----------------------------------------------------------------------------
(* ipc.c: the accept loop and handle_client, run by connection c's worker *)

Accept(c) ==
  /\ pc[c] = "none" /\ client[c] \in {"queued", "gone"}
  /\ \E f \in Fds :
       /\ file[f] = Free /\ \A g \in Fds : file[g] = Free => f <= g
       /\ file' = [file EXCEPT ![f] = c]
       /\ wfd' = [wfd EXCEPT ![c] = f]
  /\ client' = [client EXCEPT ![c] = IF @ = "gone" THEN "gone" ELSE "open"]
  /\ pc' = [pc EXCEPT ![c] = "reading"]
  /\ UNCHANGED <<sent, inbox, asked, writes, taken, req, found, plugins, mainq, main,
                 fired, subs, alive>>

\* event_post: dispatch_sync to the main queue, the worker waits for its turn to end.
\* Mutant: dispatch_async, the worker goes on reading.
PostedAsync(c) == UNCHANGED pc /\ mainq' = Append(mainq, c)

Posted(c) == pc' = [pc EXCEPT ![c] = "waiting"] /\ mainq' = Append(mainq, c)

\* read_full on client_fd: the bytes come from whatever connection the number
\* refers to now.
Read(c) ==
  /\ pc[c] = "reading"
  /\ \E d \in Conns :
       /\ file[wfd[c]] = d /\ inbox[d] # <<>>
       /\ inbox' = [inbox EXCEPT ![d] = Tail(@)]
       /\ req' = [req EXCEPT ![c] = Head(inbox[d])]
       /\ IF Head(inbox[d]).kind = "badframe"      \* len == 0 || len > max
            THEN /\ pc' = [pc EXCEPT ![c] = "closing"]
                 /\ UNCHANGED mainq
            ELSE Posted(c)
  /\ UNCHANGED <<client, sent, asked, writes, numbers, wfd, found, plugins, main, fired,
                 subs, alive>>

\* End of file, or the number was closed under a blocked read.
ReadFails(c) ==
  /\ pc[c] = "reading"
  /\ \/ file[wfd[c]] # c
     \/ inbox[c] = <<>> /\ client[c] = "gone"
  /\ pc' = [pc EXCEPT ![c] = "closing"]
  /\ UNCHANGED <<clients, writes, numbers, wfd, req, found, plugins, mainq, main, fired,
                 subs, alive>>

Close(c) ==
  /\ pc[c] = "closing"
  /\ file' = [file EXCEPT ![wfd[c]] = Free]
  /\ pc' = [pc EXCEPT ![c] = "search"]
  /\ UNCHANGED <<clients, writes, taken, wfd, req, found, plugins, mainq, main, fired,
                 subs, alive>>

\* plugin_find_fd, and the search of plugin_unregister_by_fd.
Holders(fd) == {i \in 1 .. count : table[i].fd = fd}

Search(c) ==
  /\ pc[c] = "search"
  /\ IF Holders(wfd[c]) = {}
       THEN pc' = [pc EXCEPT ![c] = "done"] /\ UNCHANGED found
       ELSE /\ pc' = [pc EXCEPT ![c] = "remove"]
            /\ found' = [found EXCEPT ![c] = Min(Holders(wfd[c]))]
  /\ UNCHANGED <<clients, writes, numbers, wfd, req, plugins, mainq, main, fired, subs,
                 alive>>

\* memmove and g_count--: the entries behind i move up, the last one also stays
\* where it was.
RemoveEntry(i) ==
  /\ table' = [j \in 1 .. PluginMax |->
                 IF i <= j /\ j < count THEN table[j + 1] ELSE table[j]]
  /\ count' = count - 1

\* Mutant: an index past the end moves nothing and is counted off all the same.
RemovableAlways(i) == TRUE

\* The length of the move is not negative.
Removable(i) == i <= count

\* The index may no longer be the entry that was found.
Unregister(c) ==
  /\ pc[c] = "remove"
  /\ IF Removable(found[c])
       THEN RemoveEntry(found[c]) /\ raced' = (raced \/ main.at = "append") /\ UNCHANGED alive
       ELSE alive' = FALSE /\ UNCHANGED plugins
  /\ pc' = [pc EXCEPT ![c] = "done"]
  /\ found' = [found EXCEPT ![c] = 0]
  /\ UNCHANGED <<clients, writes, numbers, wfd, req, mainq, main, fired, subs>>

Worker(c) == Accept(c) \/ Read(c) \/ ReadFails(c) \/ Close(c) \/ Search(c) \/ Unregister(c)

-----------------------------------------------------------------------------
(* ipc_send_json, called by the main thread only *)

Takes(fd) ==     \* a write that goes through
  \E d \in Conns : file[fd] = d /\ client[d] = "open" /\ Len(outbox[d]) < SockBuf

Fails(fd) ==     \* EBADF, or EPIPE with SIGPIPE ignored
  \/ file[fd] = Free
  \/ \E d \in Conns : file[fd] = d /\ client[d] = "gone"

\* Otherwise the buffer is full and the write blocks: no step.

-----------------------------------------------------------------------------
(* The main thread: bar_manager_handle_daemon_message takes the message of  *)
(* the worker whose turn it is                                              *)

Ready == main.at = "idle" /\ mainq # <<>>
Asker == Head(mainq)
Msg == req[Asker]
ReplyTo(c) == [Idle EXCEPT !.at = "reply", !.who = c]

\* ipc_parse_message returned NULL: nothing is done and nothing is replied.
HandleMalformed ==
  /\ Ready /\ Msg.kind = "malformed"
  /\ mainq' = Tail(mainq)
  /\ pc' = [pc EXCEPT ![Asker] = "reading"]
  /\ UNCHANGED <<clients, writes, numbers, wfd, req, found, plugins, main, fired, subs,
                 alive>>

-----------------------------------------------------------------------------
(* plugin_register(name, fd) for connection who, on behalf of plugin_subscribe *)
(* if there is an event ev to subscribe to                                     *)

Call(who, name, ev) ==
  [Idle EXCEPT !.fd = wfd[who], !.ev = ev, !.who = who, !.name = name]

\* Mutant: plugin_find_name stops short of the last entry.
NamedShort(name) == {i \in 1 .. count - 1 : table[i].name = name}

Named(name) == {i \in 1 .. count : table[i].name = name}

RoomLeft == count < PluginMax

\* plugin_register returns: to the reply, or to plugin_subscribe.
Registered(call) ==
  IF call.ev = Nobody THEN ReplyTo(call.who) ELSE [call EXCEPT !.at = "refind", !.i = 0]

\* The search by name, the limit, and p = &g_plugins[g_count].
Registering(call) ==
  IF Named(call.name) # {}
    THEN [call EXCEPT !.at = "existing", !.i = Min(Named(call.name))]
    ELSE IF RoomLeft THEN [call EXCEPT !.at = "append", !.i = count + 1]
      ELSE Registered(call)

HandleRegister ==
  /\ Ready /\ Msg.kind = "register"
  /\ main' = Registering(Call(Asker, Msg.name, Nobody))
  /\ subs' = [subs EXCEPT ![Asker] = {}]
  /\ UNCHANGED <<clients, writes, numbers, workers, plugins, mainq, fired, alive>>

\* Mutant: the descriptor that registers again is closed too.
SupersededOwn(old, fd) == {old}

\* What close(existing->fd) closes: the old descriptor, if it is another one.
Superseded(old, fd) == {old} \ {fd}

\* existing->fd != fd is tested and the old descriptor closed; on the same
\* socket the state is reset and that is all.
RegisterExisting ==
  /\ main.at = "existing"
  /\ LET old == table[main.i].fd
         Open == {f \in Fds : file[f] # Free}
     IN  /\ file' = [f \in Fds |-> IF f \in Superseded(old, main.fd) THEN Free ELSE file[f]]
         /\ taken' = taken \cup (({old} \ {main.fd}) \cap Open)
         /\ IF old = main.fd
              THEN /\ table' = [table EXCEPT ![main.i].connected = TRUE, ![main.i].mask = {}]
                   /\ main' = Registered(main)
              ELSE main' = [main EXCEPT !.at = "takeover"] /\ UNCHANGED table
  /\ UNCHANGED <<clients, writes, workers, count, raced, mainq, fired, subs, alive>>

\* existing->fd = fd, whatever entry is there by now.
RegisterTakeover ==
  /\ main.at = "takeover"
  /\ table' = [table EXCEPT ![main.i].fd = main.fd, ![main.i].connected = TRUE,
                            ![main.i].mask = {}]
  /\ main' = Registered(main)
  /\ UNCHANGED <<clients, writes, numbers, workers, count, raced, mainq, fired, subs, alive>>

\* The slot p of a new entry is filled and g_count++: after a removal in between
\* p lies beyond the end and the count takes in what the removal left behind.
RegisterAppend ==
  /\ main.at = "append"
  /\ table' = [table EXCEPT ![main.i] =
                 [name |-> main.name, fd |-> main.fd, mask |-> {}, connected |-> TRUE]]
  /\ count' = count + 1
  /\ main' = Registered(main)
  /\ UNCHANGED <<clients, writes, numbers, workers, raced, mainq, fired, subs, alive>>

(* plugin_subscribe(fd, mask) *)

AutoCall == Call(Asker, AutoName(wfd[Asker]), Msg.ev)

HandleSubscribe ==
  /\ Ready /\ Msg.kind = "subscribe"
  /\ main' = IF Holders(wfd[Asker]) # {}
               THEN [AutoCall EXCEPT !.at = "mark", !.i = Min(Holders(wfd[Asker]))]
               ELSE IF RoomLeft THEN Registering(AutoCall) ELSE ReplyTo(Asker)
  /\ subs' = [subs EXCEPT ![Asker] = @ \cup {Msg.ev}]
  /\ UNCHANGED <<clients, writes, numbers, workers, plugins, mainq, fired, alive>>

SubscribeFindAgain ==
  /\ main.at = "refind"
  /\ main' = IF Holders(main.fd) = {} THEN ReplyTo(main.who)
               ELSE [main EXCEPT !.at = "mark", !.i = Min(Holders(main.fd))]
  /\ UNCHANGED <<clients, writes, numbers, workers, plugins, mainq, fired, subs, alive>>

SubscribeMark ==
  /\ main.at = "mark"
  /\ table' = [table EXCEPT ![main.i].mask = @ \cup {main.ev}, ![main.i].connected = TRUE]
  /\ main' = ReplyTo(main.who)
  /\ UNCHANGED <<clients, writes, numbers, workers, count, raced, mainq, fired, subs, alive>>

-----------------------------------------------------------------------------
(* The other messages, and the events of the system *)

\* update, query and invalid messages: the items do not matter here.
HandleQuery ==
  /\ Ready /\ Msg.kind = "query"
  /\ main' = ReplyTo(Asker)
  /\ UNCHANGED <<clients, writes, numbers, workers, plugins, mainq, fired, subs, alive>>

Notifying(e, c) == [Idle EXCEPT !.at = "notify", !.i = 1, !.ev = e, !.who = c]

\* Mutant: the fan-out forgets who asked for it.
HandleTriggerUnanswered ==
  /\ Ready /\ Msg.kind = "trigger"
  /\ main' = Notifying(Msg.ev, Nobody)
  /\ UNCHANGED <<clients, writes, numbers, workers, plugins, mainq, fired, subs, alive>>

HandleTrigger ==
  /\ Ready /\ Msg.kind = "trigger"
  /\ main' = Notifying(Msg.ev, Asker)
  /\ UNCHANGED <<clients, writes, numbers, workers, plugins, mainq, fired, subs, alive>>

\* A handler of bar_manager.c fans a system event out: plugin_notify.
SystemEvent ==
  /\ main.at = "idle" /\ fired < MaxFired
  /\ fired' = fired + 1
  /\ \E e \in Events : main' = Notifying(e, Nobody)
  /\ UNCHANGED <<clients, writes, numbers, workers, plugins, mainq, subs, alive>>

\* The loop of plugin_notify at index i.
NotifyNext ==
  /\ main.at = "notify"
  /\ LET i == main.i
     IN  IF i > count
           THEN main' = IF main.who = Nobody THEN Idle ELSE ReplyTo(main.who)
           ELSE IF table[i].connected /\ main.ev \in table[i].mask
             THEN main' = [main EXCEPT !.at = "send", !.fd = table[i].fd]
             ELSE main' = [main EXCEPT !.i = @ + 1]
  /\ UNCHANGED <<clients, writes, numbers, workers, plugins, mainq, fired, subs, alive>>

NotifySent ==
  /\ main.at = "send" /\ Takes(main.fd)
  /\ outbox' = [outbox EXCEPT ![file[main.fd]] = Append(@, "event")]
  /\ main' = [main EXCEPT !.at = "notify", !.i = @ + 1, !.fd = Free]
  /\ UNCHANGED <<clients, answered, numbers, workers, plugins, mainq, fired, subs, alive>>

\* "connection went away mid-write -> mark for the health check": the entry is
\* the one at index i by then.
NotifyFailed ==
  /\ main.at = "send" /\ Fails(main.fd)
  /\ table' = [table EXCEPT ![main.i].connected = FALSE]
  /\ main' = [main EXCEPT !.at = "notify", !.i = @ + 1, !.fd = Free]
  /\ UNCHANGED <<clients, writes, numbers, workers, count, raced, mainq, fired, subs, alive>>

\* The reply, and the return of the asker's dispatch_sync.
Return ==
  /\ main' = Idle
  /\ mainq' = Tail(mainq)
  /\ pc' = [pc EXCEPT ![main.who] = "reading"]
  /\ UNCHANGED <<clients, numbers, wfd, req, found, plugins, fired, subs, alive>>

ReplySent ==
  /\ main.at = "reply" /\ Takes(wfd[main.who])
  /\ LET d == file[wfd[main.who]]
     IN  /\ outbox' = [outbox EXCEPT ![d] = Append(@, "reply")]
         /\ answered' = [answered EXCEPT ![d] = Append(@, Id(req[main.who]))]
  /\ Return

ReplyFailed ==
  /\ main.at = "reply" /\ Fails(wfd[main.who])
  /\ Return /\ UNCHANGED writes

-----------------------------------------------------------------------------
(* plugin_health_check, once a second on the main thread *)

HealthTick ==
  /\ main.at = "idle" /\ count > 0
  /\ main' = [Idle EXCEPT !.at = "health", !.i = 1]
  /\ UNCHANGED <<clients, writes, numbers, workers, plugins, mainq, fired, subs, alive>>

\* Mutant: only an orderly end of file counts, not EBADF.
DeadAtEof(fd) ==
  \E d \in Conns : file[fd] = d /\ client[d] = "gone" /\ inbox[d] = <<>>

\* recv with MSG_PEEK says end of file or error.
Dead(fd) ==
  \/ file[fd] = Free
  \/ \E d \in Conns : file[fd] = d /\ client[d] = "gone" /\ inbox[d] = <<>>

\* The loop at index i, with the search of plugin_unregister_by_fd for entry k.
HealthNext ==
  /\ main.at = "health"
  /\ LET i == main.i
     IN  main' = IF i > count THEN Idle
                ELSE IF ~table[i].connected \/ Dead(table[i].fd)
                  THEN [main EXCEPT !.at = "drop", !.k = Min(Holders(table[i].fd))]
                  ELSE [main EXCEPT !.i = @ + 1]
  /\ UNCHANGED <<clients, writes, numbers, workers, plugins, mainq, fired, subs, alive>>

\* Its removal; a worker may have removed entries since.
HealthDrop ==
  /\ main.at = "drop"
  /\ IF Removable(main.k) THEN RemoveEntry(main.k) /\ UNCHANGED alive
       ELSE alive' = FALSE /\ UNCHANGED <<table, count>>
  /\ main' = [main EXCEPT !.at = "health", !.k = 0]
  /\ UNCHANGED <<clients, writes, numbers, workers, raced, mainq, fired, subs>>

Handle ==
  HandleMalformed \/ HandleRegister \/ HandleSubscribe \/ HandleQuery \/ HandleTrigger

Proceed ==
  \/ RegisterExisting \/ RegisterTakeover \/ RegisterAppend
  \/ SubscribeFindAgain \/ SubscribeMark
  \/ NotifyNext \/ NotifySent \/ NotifyFailed
  \/ ReplySent \/ ReplyFailed
  \/ HealthNext \/ HealthDrop

Next ==
  /\ alive
  /\ \/ \E c \in Conns : Connect(c) \/ Send(c) \/ Receive(c) \/ Leave(c) \/ Worker(c)
     \/ Handle \/ SystemEvent \/ HealthTick
     \/ Proceed

Spec == Init /\ [][Next]_vars

\* Workers and the main thread keep running.  Messages and ticks reach the main
\* thread through its dispatch queue, which serves them in turn: neither shuts
\* the other out.  Every client but the stalled ones reads what it is sent.
Fairness ==
  /\ \A c \in Conns : WF_vars(alive /\ Worker(c))
  /\ WF_vars(alive /\ Proceed)
  /\ SF_vars(alive /\ Handle) /\ SF_vars(alive /\ HealthTick)
  /\ \A c \in Conns \ Stalled : WF_vars(alive /\ Receive(c))

FairSpec == Spec /\ Fairness

-----------------------------------------------------------------------------
(* Properties *)

TypeOK ==
  /\ client \in [Conns -> {"away", "queued", "open", "gone"}]
  /\ sent \in [Conns -> Nat] /\ \A c \in Conns : sent[c] <= MaxMsgs[c]
  /\ inbox \in [Conns -> Seq(Message)]
  /\ outbox \in [Conns -> Seq({"event", "reply"})]
  /\ file \in [Fds -> Conns \cup {Free}] /\ taken \subseteq Fds
  /\ pc \in [Conns -> {"none", "reading", "waiting", "closing", "search", "remove", "done"}]
  /\ wfd \in [Conns -> Fds \cup {Free}]
  /\ req \in [Conns -> Message \cup {Nobody}]
  /\ found \in [Conns -> Nat]
  /\ table \in [1 .. PluginMax -> Plugin] /\ count \in 0 .. PluginMax /\ raced \in BOOLEAN
  /\ mainq \in Seq(Conns)
  /\ main \in [at : {"idle", "existing", "takeover", "append", "refind", "mark", "notify",
                     "send", "reply", "health", "drop"},
               i : Nat, k : Nat, fd : Fds \cup {Free}, ev : Events \cup {Nobody},
               who : Conns \cup {Nobody}, name : Names \cup {Nobody}]
  /\ fired \in 0 .. MaxFired
  /\ asked \in [Conns -> Seq(Conns \X Nat)]
  /\ answered \in [Conns -> Seq(Conns \X Nat)]
  /\ subs \in [Conns -> SUBSET Events]
  /\ alive \in BOOLEAN

\* The ipc.h:72-73 promise that client_fd routes "responses back": what a client is
\* written as replies are the replies to its own requests, in the order it made
\* them, none left out in between, while no registration has closed its number.
RepliesInOrder ==
  \A c \in Conns : wfd[c] \notin taken => IsPrefix(answered[c], asked[c])

\* While a worker reads or waits its number refers to its own connection: only a
\* registration of the same name from another connection takes the number away
\* (plugin.c:52-54), never a close of its own number by any of those that share
\* it, nor registering again on the same socket.
OwnBlock ==
  \A c \in Conns : pc[c] \in {"reading", "waiting"} => file[wfd[c]] = c \/ wfd[c] \in taken

\* plugin_find_name finds at most one entry: no name is listed twice, whatever
\* workers and the health check remove, except by the one race there is: a worker
\* removes an entry after plugin_register has taken p = &g_plugins[g_count].
UniqueNames ==
  raced \/ \A i, j \in 1 .. count : table[i].name = table[j].name => i = j

\* The plugin.h:13-16 promise: an event is fanned out to the plugins subscribed
\* to it.  A connected client that was told it is subscribed is in the table.
SubscriberListed ==
  \A c \in Conns : client[c] = "open" /\ pc[c] = "reading" /\ main.at = "idle" =>
    \A e \in subs[c] : \E i \in Holders(wfd[c]) : e \in table[i].mask

\* A connected client that reads what it is sent gets the reply to each message
\* that parses, whatever the others send and however they come and go.
Replied(c, n) == \E i \in DOMAIN answered[c] : answered[c][i] = <<c, n>>
Asked(c, n) == \E i \in DOMAIN asked[c] : asked[c][i] = <<c, n>>

EventuallyReplied ==
  \A c \in Conns \ Stalled : \A n \in 1 .. MaxMsgs[c] :
    (client[c] = "open" /\ Asked(c, n))
      ~> (Replied(c, n) \/ client[c] = "gone" \/ ~Served(c) \/ ~alive)

\* plugin_health_check: an entry whose descriptor is closed does not stay, unless
\* the number comes into use again first.
DepartedForgotten ==
  \A f \in Fds :
    (Holders(f) # {} /\ file[f] = Free)
      ~> (Holders(f) = {} \/ file[f] # Free \/ ~alive)
=============================================================================
