------------------------------- MODULE Client -------------------------------
(***************************************************************************)
(* The Swift SDK's OmabarClient inside a plugin process, as the battery    *)
(* and media plugins drive it: the main task registers, subscribes and     *)
(* then updates its item for ever, each event starts a task that updates   *)
(* it too, and a reader thread per connection reads frames and resolves    *)
(* the one outstanding request.  The reader looks at fd and stopReader     *)
(* without the lock, and a descriptor closed by disconnect() gives its     *)
(* number to the next socket.                                              *)
(***************************************************************************)
EXTENDS Integers, Sequences, FiniteSets

CONSTANTS
  Main,          \* the task of the plugin's top-level code
  EventTasks,    \* Task { await handler(event) }, one per event
  None,          \* no task, no value
  MaxConnects,   \* bound: connections of one client
  MaxChanges     \* bound: changes of the reading the plugin shows

Tasks == {Main} \cup EventTasks
Conns == 1 .. MaxConnects
Values == 0 .. MaxChanges

ASSUME ConstantsAssumption ==
  /\ Main \notin EventTasks /\ None \notin Tasks /\ None \notin Values
  /\ MaxConnects \in Nat \ {0} /\ MaxChanges \in Nat
  /\ IsFiniteSet(EventTasks) /\ MaxChanges <= Cardinality(EventTasks)

VARIABLES
  up,            \* the daemon runs
  alive,         \* the plugin's process runs
  reading,       \* what the plugin samples (battery level, track)
  shown,         \* what the daemon's item shows
  made,          \* connections made so far
  sock,          \* the connection fd names, 0 if fd is -1
  connected, stopReader, pending, handler,   \* the client's other fields
  conn,          \* per connection: open, subscribed, out and in streams
  reader,        \* per connection: the thread connect() started for it
  blocks,        \* continuations taken out of pending, to be resumed
  task           \* per task: pc, its request, its sample, what it got

daemon == <<up, shown>>
fields == <<sock, connected, stopReader, pending>>
vars == <<daemon, alive, reading, made, fields, handler, conn, reader,
          blocks, task>>

Part(p, m) == [part |-> p, msg |-> m]
Frame(m) == <<Part("len", m), Part("body", m)>>
EventMsg == [kind |-> "event", of |-> None]
ReplyTo(t) == [kind |-> "reply", of |-> t]

NewConn == [open |-> TRUE, subscribed |-> FALSE, out |-> <<>>, in |-> <<>>]
NoConn == [NewConn EXCEPT !.open = FALSE]
NoReader == [pc |-> "off", on |-> 0, msg |-> EventMsg]

Init ==
  /\ up = TRUE /\ alive = TRUE
  /\ reading = 0 /\ shown = None
  /\ made = 1 /\ sock = 1
  /\ connected = TRUE /\ stopReader = FALSE /\ pending = None
  /\ handler = FALSE
  /\ conn = [c \in Conns |-> IF c = 1 THEN NewConn ELSE NoConn]
  /\ reader = [c \in Conns |-> [NoReader EXCEPT !.pc = IF c = 1 THEN "check"
                                                              ELSE "off"]]
  /\ blocks = {}
  /\ task = [t \in Tasks |->
       [pc |-> IF t = Main THEN "ask" ELSE "idle",
        req |-> IF t = Main THEN "register" ELSE "update",
        value |-> 0, got |-> None]]

-----------------------------------------------------------------------------
(* The client's calls, each under the lock *)

Got(t, result) == [task EXCEPT ![t].pc = "got", ![t].got = result]
Resume(t, result) == task' = Got(t, result)

\* connect(): the new socket takes the number the closed one had.
Connect ==
  /\ alive /\ up /\ ~connected /\ made < MaxConnects
  /\ made' = made + 1 /\ sock' = made + 1
  /\ connected' = TRUE /\ stopReader' = FALSE
  /\ conn' = [conn EXCEPT ![made + 1] = NewConn]
  /\ reader' = [reader EXCEPT ![made + 1].pc = "check"]
  /\ UNCHANGED <<daemon, alive, reading, pending, handler, blocks, task>>

\* Mutant: the continuation that is failed is not taken out of pendingReply.
HangUpKeepingPending ==
  /\ stopReader' = TRUE /\ sock' = 0 /\ connected' = FALSE
  /\ conn' = [conn EXCEPT ![sock].open = FALSE]
  /\ UNCHANGED pending
  /\ task' = IF pending = None THEN task ELSE Got(pending, "notConnected")

\* Mutant: the descriptor is closed but kept.
HangUpKeepingFd ==
  /\ stopReader' = TRUE /\ UNCHANGED sock /\ connected' = FALSE
  /\ conn' = [conn EXCEPT ![sock].open = FALSE]
  /\ pending' = None
  /\ task' = IF pending = None THEN task ELSE Got(pending, "notConnected")

HangUp ==
  /\ stopReader' = TRUE /\ sock' = 0 /\ connected' = FALSE
  /\ conn' = [conn EXCEPT ![sock].open = FALSE]
  /\ pending' = None
  /\ task' = IF pending = None THEN task ELSE Got(pending, "notConnected")

\* disconnect(), by a program that means to connect again.
Disconnect ==
  /\ alive /\ connected /\ made < MaxConnects
  /\ HangUp
  /\ UNCHANGED <<daemon, alive, reading, made, handler, reader, blocks>>

Asked(t) == [by |-> t, req |-> task[t].req, value |-> task[t].value]

CanAsk(t) == alive /\ task[t].pc = "ask"

\* request(): not connected, or another request is outstanding.
Refused(t) ==
  /\ CanAsk(t)
  /\ \/ ~connected /\ Resume(t, "notConnected")
     \/ connected /\ pending # None /\ Resume(t, "inFlight")
  /\ UNCHANGED <<daemon, alive, reading, made, fields, handler, conn, reader,
                 blocks>>

Free == connected /\ pending = None

\* The message is written and the continuation left in pendingReply.
Send(t) ==
  /\ CanAsk(t) /\ Free /\ up
  /\ pending' = t
  /\ conn' = [conn EXCEPT ![sock].out = Append(@, Asked(t))]
  /\ task' = [task EXCEPT ![t].pc = "wait", ![t].value = 0]
  /\ UNCHANGED <<daemon, alive, reading, made, sock, connected, stopReader,
                 handler, reader, blocks>>

\* Nobody at the other end: the signal the write raises ends the process,
\* or, where the plugin inherits SIG_IGN, the write fails.
SendFails(t) ==
  /\ CanAsk(t) /\ Free /\ ~up
  /\ \/ alive' = FALSE /\ UNCHANGED task
     \/ Resume(t, "writeFailed") /\ UNCHANGED alive
  /\ UNCHANGED <<daemon, reading, made, fields, handler, conn, reader, blocks>>

-----------------------------------------------------------------------------
(* The reader thread of connection c *)

Reads(c, pc) == alive /\ reader[c].pc = pc

\* guard !stopReader, fd >= 0, both read without the lock
Check(c) ==
  /\ Reads(c, "check")
  /\ reader' = [reader EXCEPT
       ![c].pc = IF stopReader \/ sock = 0 THEN "down" ELSE "header",
       ![c].on = sock]
  /\ UNCHANGED <<daemon, alive, reading, made, fields, handler, conn, blocks,
                 task>>

\* The connection the descriptor in a reader's hand names by now.
Named(c) == IF reader[c].on # 0 /\ conn[reader[c].on].open
            THEN reader[c].on ELSE sock

\* The read was blocked when the descriptor was closed, or the daemon is gone.
ReadFails(c) ==
  /\ alive /\ reader[c].pc \in {"header", "payload"}
  /\ \/ reader[c].on = 0
     \/ reader[c].on # 0 /\ ~conn[reader[c].on].open
     \/ Named(c) # 0 /\ ~up /\ conn[Named(c)].in = <<>>
  /\ reader' = [reader EXCEPT ![c].pc = "down", ![c].on = 0]
  /\ UNCHANGED <<daemon, alive, reading, made, fields, handler, conn, blocks,
                 task>>

CanRead(c, pc) ==
  /\ Reads(c, pc)
  /\ reader[c].on # 0 /\ Named(c) # 0
  /\ conn[Named(c)].in # <<>>

Taken(c) == conn' = [conn EXCEPT ![Named(c)].in = Tail(@)]

\* A payload read as a header is a length above 16 MiB.  fd is read again
\* for the payload.
ReadHeader(c) ==
  /\ CanRead(c, "header")
  /\ Taken(c)
  /\ reader' = [reader EXCEPT
       ![c].pc = IF Head(conn[Named(c)].in).part = "len"
                 THEN "payload" ELSE "down",
       ![c].on = sock]
  /\ UNCHANGED <<daemon, alive, reading, made, fields, handler, blocks, task>>

\* Mutant: a frame is not looked at before it resolves the request.
AnyFrame(m) == TRUE

PayloadReply(m) == m.kind = "reply"

\* An event starts a task if there is a handler; a reply is taken to the lock.
ReadPayload(c) ==
  LET p == Head(conn[Named(c)].in) IN
  /\ CanRead(c, "payload")
  /\ Taken(c)
  /\ reader' = [reader EXCEPT ![c].msg = p.msg, ![c].on = 0,
       ![c].pc = IF p.part # "body" THEN "down"
                 ELSE IF PayloadReply(p.msg) THEN "reply" ELSE "check"]
  /\ IF handler /\ p.part = "body" /\ ~PayloadReply(p.msg)
     THEN \E t \in EventTasks :
            /\ task[t].pc = "idle"
            /\ task' = [task EXCEPT ![t].pc = "sample"]
     ELSE UNCHANGED task
  /\ UNCHANGED <<daemon, alive, reading, made, fields, handler, blocks>>

TakePending(c, result, pc) ==
  /\ pending' = None
  /\ blocks' = IF pending = None THEN blocks
               ELSE blocks \cup {<<pending, result>>}
  /\ reader' = [reader EXCEPT ![c] = [NoReader EXCEPT !.pc = pc]]
  /\ UNCHANGED <<daemon, alive, reading, made, sock, connected, stopReader,
                 handler, conn, task>>

\* Whatever request is outstanding now is the one this reply resolves.
Resolve(c) ==
  Reads(c, "reply") /\ TakePending(c, reader[c].msg.of, "check")

\* Mutant: the reader ends and says nothing.
EndQuietly(c) ==
  /\ Reads(c, "down")
  /\ reader' = [reader EXCEPT ![c] = NoReader]
  /\ UNCHANGED <<daemon, alive, reading, made, fields, handler, conn, blocks,
                 task>>

TearDown(c) == Reads(c, "down") /\ TakePending(c, "notConnected", "off")

Holds(t, b) == b[1] = t

\* continuation.resume, on a queue's thread
ResumeBlock(t) ==
  /\ alive
  /\ \E b \in blocks :
       Holds(t, b) /\ blocks' = blocks \ {b} /\ Resume(t, b[2])
  /\ UNCHANGED <<daemon, alive, reading, made, fields, handler, conn, reader>>

-----------------------------------------------------------------------------
(* The plugin's program *)

Then(t, pc, req) == task' = [task EXCEPT
  ![t].pc = pc, ![t].req = req, ![t].got = None]

Failures == {"notConnected", "inFlight", "writeFailed"}

\* register: a plugin that cannot, exits.
Registered ==
  /\ alive /\ task[Main].pc = "got" /\ task[Main].req = "register"
  /\ IF task[Main].got \in Failures THEN alive' = FALSE /\ UNCHANGED task
     ELSE Then(Main, "ask", "subscribe") /\ UNCHANGED alive
  /\ UNCHANGED <<daemon, reading, made, fields, handler, conn, reader, blocks>>

\* Mutant: the reading is taken once, before the loop.
SamplesOnce ==
  /\ alive /\ task[Main].pc = "got" /\ task[Main].req # "register"
  /\ handler' = TRUE
  /\ Then(Main, "ask", "update")
  /\ UNCHANGED <<daemon, alive, reading, made, fields, conn, reader, blocks>>

\* Subscribed or not, set the handler and update for ever.
GoesOn ==
  /\ alive /\ task[Main].pc = "got" /\ task[Main].req # "register"
  /\ handler' = TRUE
  /\ Then(Main, "sample", "update")
  /\ UNCHANGED <<daemon, alive, reading, made, fields, conn, reader, blocks>>

EventTaskEnds(t) ==
  /\ alive /\ task[t].pc = "got"
  /\ task' = [task EXCEPT ![t].pc = "done"]
  /\ UNCHANGED <<daemon, alive, reading, made, fields, handler, conn, reader,
                 blocks>>

\* sendUpdate: sample first, then ask
Sample(t) ==
  /\ alive /\ task[t].pc = "sample"
  /\ task' = [task EXCEPT ![t].pc = "ask", ![t].value = reading]
  /\ UNCHANGED <<daemon, alive, reading, made, fields, handler, conn, reader,
                 blocks>>

-----------------------------------------------------------------------------
(* The daemon and the world *)

\* Each message is answered, in order; nobody is told if the client hung up.
Serve(c) ==
  /\ up /\ conn[c].out # <<>>
  /\ LET m == Head(conn[c].out) IN
     /\ shown' = IF m.req = "update" THEN m.value ELSE shown
     /\ conn' = [conn EXCEPT
          ![c].out = Tail(@),
          ![c].subscribed = @ \/ m.req = "subscribe",
          ![c].in = IF conn[c].open THEN @ \o Frame(ReplyTo(m.by)) ELSE @]
  /\ UNCHANGED <<up, alive, reading, made, fields, handler, reader, blocks,
                 task>>

\* The reading changes, and the daemon tells whoever subscribed.
Change ==
  /\ up /\ reading < MaxChanges
  /\ reading' = reading + 1
  /\ conn' = [c \in Conns |->
       IF conn[c].open /\ conn[c].subscribed
       THEN [conn[c] EXCEPT !.in = @ \o Frame(EventMsg)] ELSE conn[c]]
  /\ UNCHANGED <<daemon, alive, made, fields, handler, reader, blocks, task>>

DaemonDies ==
  /\ up /\ up' = FALSE
  /\ UNCHANGED <<shown, alive, reading, made, fields, handler, conn, reader,
                 blocks, task>>

ReaderStep(c) == \/ Check(c) \/ ReadFails(c) \/ ReadHeader(c)
                 \/ ReadPayload(c) \/ Resolve(c) \/ TearDown(c)
TaskStep(t) == \/ Refused(t) \/ Send(t) \/ SendFails(t) \/ Sample(t)
               \/ ResumeBlock(t)

Next ==
  \/ Connect \/ Disconnect
  \/ \E c \in Conns : ReaderStep(c) \/ Serve(c)
  \/ \E t \in Tasks : TaskStep(t)
  \/ Registered \/ GoesOn
  \/ \E t \in EventTasks : EventTaskEnds(t)
  \/ Change \/ DaemonDies

\* Threads and tasks are scheduled; the daemon answers.
Fairness ==
  /\ \A c \in Conns : WF_vars(ReaderStep(c)) /\ WF_vars(Serve(c))
  /\ \A t \in Tasks : WF_vars(TaskStep(t))
  /\ WF_vars(Registered) /\ WF_vars(GoesOn)
  /\ \A t \in EventTasks : WF_vars(EventTaskEnds(t))

Spec == Init /\ [][Next]_vars /\ Fairness

-----------------------------------------------------------------------------
(* Properties *)

TypeOK ==
  /\ up \in BOOLEAN /\ alive \in BOOLEAN
  /\ reading \in Values /\ shown \in Values \cup {None}
  /\ made \in Conns /\ sock \in 0 .. MaxConnects
  /\ connected = (sock # 0) /\ stopReader \in BOOLEAN
  /\ pending \in Tasks \cup {None} /\ handler \in BOOLEAN
  /\ \A c \in Conns : reader[c].pc \in
       {"off", "check", "header", "payload", "reply", "down"}
  /\ \A t \in Tasks : task[t].pc \in
       {"idle", "sample", "ask", "wait", "got", "done"}

\* A continuation is resumed exactly once: while its task waits it is in
\* pendingReply or in one block, and nowhere else; of a task that does not
\* wait nobody holds one.  Over reconnects, two readers and the daemon's
\* death.  (Swift traps on a second resume and leaks on none.)
HeldOnce ==
  \A t \in Tasks :
    /\ task[t].pc = "wait" <=> pending = t \/ \E b \in blocks : Holds(t, b)
    /\ pending = t => \A b \in blocks : ~Holds(t, b)
    /\ \A a, b \in blocks : Holds(t, a) /\ Holds(t, b) => a = b

\* "async/await and resolve when the matching reply arrives"
\* (OmabarClient.swift:58): what a request returns is the reply to it.
OwnReply ==
  \A t \in Tasks : task[t].pc = "got" => task[t].got \in {t} \cup Failures

\* As long as the client has had one connection, that is so, whatever events
\* arrive between the request and its reply.
OwnReplyOneConnection == made = 1 => OwnReply

\* On one connection every request is resolved, also when the daemon dies
\* between any two steps; the exception is the process that dies with it.
EventuallyResolved ==
  \A t \in Tasks :
    task[t].pc = "wait" ~> (task[t].pc # "wait" \/ made > 1 \/ ~alive)

\* An update refused because another is in flight is dropped, and a sample
\* may be written after a newer one: still, once the reading stays, the item
\* shows it in the end.
EventuallyFresh == <>[](shown = reading \/ made > 1 \/ ~connected \/ ~up)

=============================================================================
