---------------------------- MODULE ClientProofs ----------------------------
(***************************************************************************)
(* Every request of the client is resumed exactly once, for any number of  *)
(* tasks, connections and changes, whatever the daemon, the readers and    *)
(* disconnect() do: a task that waits has its continuation in pendingReply *)
(* or in one block, and nobody holds that of a task that does not wait.    *)
(***************************************************************************)
EXTENDS Client, SequenceTheorems, TLAPS

TaskPlaces == {"idle", "sample", "ask", "wait", "got", "done"}
ReaderPlaces == {"off", "check", "header", "payload", "reply", "down"}
Requests == {"register", "subscribe", "update"}
Results == Tasks \cup Failures \cup {None}

Task == [pc : TaskPlaces, req : Requests, value : Values, got : Results]
Message == [kind : {"event", "reply"}, of : Tasks \cup {None}]
StreamPart == [part : {"len", "body"}, msg : Message]
Order == [by : Tasks, req : Requests, value : Values]
Connection ==
  [open : BOOLEAN, subscribed : BOOLEAN, out : Seq(Order), in : Seq(StreamPart)]
Reader == [pc : ReaderPlaces, on : 0 .. MaxConnects, msg : Message]

\* TypeOK and the types of the records.
Types ==
  /\ up \in BOOLEAN /\ alive \in BOOLEAN
  /\ reading \in Values /\ shown \in Values \cup {None}
  /\ made \in Conns /\ sock \in 0 .. MaxConnects
  /\ connected \in BOOLEAN /\ (connected <=> sock # 0)
  /\ stopReader \in BOOLEAN
  /\ pending \in Tasks \cup {None} /\ handler \in BOOLEAN
  /\ conn \in [Conns -> Connection]
  /\ reader \in [Conns -> Reader]
  /\ blocks \in SUBSET (Tasks \X Results)
  /\ task \in [Tasks -> Task]

LEMMA TypesImply == Types => TypeOK
<1> SUFFICES ASSUME Types
             PROVE  TypeOK
  OBVIOUS
<1>1. connected = (sock # 0)
  BY Zenon DEF Types
<1>2. QED
  BY <1>1 DEF Types, TypeOK, Task, Reader, TaskPlaces, ReaderPlaces

LEMMA Zero == 0 \in 0 .. MaxConnects /\ 0 \in Values /\ EventMsg \in Message
BY ConstantsAssumption DEF Values, EventMsg, Message

LEMMA TypesInit == Init => Types
<1> SUFFICES ASSUME Init
             PROVE  Types
  OBVIOUS
<1>1. EventMsg \in Message
  BY DEF EventMsg, Message
<1>2. NewConn \in Connection /\ NoConn \in Connection
  <2>1. <<>> \in Seq(Order) /\ <<>> \in Seq(StreamPart)
    OBVIOUS
  <2>2. QED
    BY <2>1 DEF NewConn, NoConn, Connection
<1>3. \A p \in {"off", "check"} : [NoReader EXCEPT !.pc = p] \in Reader
  BY <1>1, ConstantsAssumption DEF NoReader, Reader, ReaderPlaces
<1>4. task \in [Tasks -> Task]
  BY ConstantsAssumption DEF Init, Task, TaskPlaces, Requests, Values, Results
<1>5. reader \in [Conns -> Reader]
  BY <1>3 DEF Init
<1>6. conn \in [Conns -> Connection]
  BY <1>2 DEF Init
<1>7. 1 \in Conns /\ 1 \in 0 .. MaxConnects /\ 0 \in Values
  BY ConstantsAssumption DEF Conns, Values
<1>8. blocks \in SUBSET (Tasks \X Results) /\ shown \in Values \cup {None}
  BY DEF Init
<1>9. sock = 1 /\ sock # 0
  BY DEF Init
<1>10. /\ up \in BOOLEAN /\ alive \in BOOLEAN /\ stopReader \in BOOLEAN
       /\ handler \in BOOLEAN /\ connected \in BOOLEAN /\ connected
  BY Zenon DEF Init
<1>11. QED
  BY <1>4, <1>5, <1>6, <1>7, <1>8, <1>9, <1>10 DEF Init, Types

-----------------------------------------------------------------------------
(* What the parts of the steps do to the types *)

LEMMA TaskTyped ==
  ASSUME Types, NEW t \in Tasks, NEW r \in Results
  PROVE  /\ task[t] \in Task
         /\ Got(t, r) \in [Tasks -> Task]
         /\ \A p \in TaskPlaces : [task EXCEPT ![t].pc = p] \in [Tasks -> Task]
         /\ \A p \in TaskPlaces, q \in Requests :
              [task EXCEPT ![t].pc = p, ![t].req = q, ![t].got = None] \in [Tasks -> Task]
         /\ \A p \in TaskPlaces, v \in Values :
              [task EXCEPT ![t].pc = p, ![t].value = v] \in [Tasks -> Task]
BY DEF Types, Task, Got, TaskPlaces, Results

\* A message put into or taken out of a stream.
LEMMA StreamTyped ==
  ASSUME Types, NEW c \in Conns, NEW out \in Seq(Order), NEW in \in Seq(StreamPart),
         NEW s \in BOOLEAN, NEW o \in BOOLEAN
  PROVE  /\ conn[c] \in Connection
         /\ [conn EXCEPT ![c].open = o] \in [Conns -> Connection]
         /\ [conn EXCEPT ![c].out = out] \in [Conns -> Connection]
         /\ [conn EXCEPT ![c].in = in] \in [Conns -> Connection]
         /\ [conn EXCEPT ![c].out = out, ![c].subscribed = s, ![c].in = in]
              \in [Conns -> Connection]
BY DEF Types, Connection

LEMMA FrameTyped == \A m \in Message : Frame(m) \in Seq(StreamPart)
BY DEF Frame, Part, StreamPart

LEMMA ReaderTyped ==
  ASSUME Types, NEW c \in Conns, NEW p \in ReaderPlaces, NEW n \in 0 .. MaxConnects,
         NEW m \in Message
  PROVE  /\ reader[c] \in Reader
         /\ [reader EXCEPT ![c].pc = p] \in [Conns -> Reader]
         /\ [reader EXCEPT ![c].pc = p, ![c].on = n] \in [Conns -> Reader]
         /\ [reader EXCEPT ![c].msg = m, ![c].on = n, ![c].pc = p] \in [Conns -> Reader]
         /\ [reader EXCEPT ![c] = [NoReader EXCEPT !.pc = p]] \in [Conns -> Reader]
<1>1. [NoReader EXCEPT !.pc = p] \in Reader
  BY ConstantsAssumption DEF Reader, NoReader, EventMsg, Message
<1>2. QED
  BY <1>1 DEF Types, Reader

LEMMA HangUpTypes ==
  ASSUME Types, connected, HangUp
  PROVE  /\ sock' \in 0 .. MaxConnects
         /\ connected' \in BOOLEAN /\ (connected' <=> sock' # 0)
         /\ stopReader' \in BOOLEAN /\ pending' \in Tasks \cup {None}
         /\ conn' \in [Conns -> Connection] /\ task' \in [Tasks -> Task]
<1>1. sock \in Conns
  BY ConstantsAssumption DEF Types, Conns
<1>2. conn' \in [Conns -> Connection]
  BY <1>1, StreamTyped DEF HangUp, Types, Connection
<1>3. task' \in [Tasks -> Task]
  BY TaskTyped DEF HangUp, Types, Results, Failures
<1>4. sock' = 0 /\ 0 \in 0 .. MaxConnects /\ pending' \in Tasks \cup {None}
  BY ConstantsAssumption DEF HangUp
<1>5. stopReader' = TRUE /\ connected' = FALSE
  BY DEF HangUp
<1>6. QED
  BY <1>2, <1>3, <1>4, <1>5

\* The connection a reader reads from.
LEMMA NamedTyped ==
  ASSUME Types, NEW c \in Conns, NEW pc, CanRead(c, pc)
  PROVE  /\ Named(c) \in Conns
         /\ conn[Named(c)].in \in Seq(StreamPart) /\ conn[Named(c)].in # <<>>
<1>1. Named(c) \in 0 .. MaxConnects /\ Named(c) # 0
  BY DEF CanRead, Named, Types, Reader
<1>2. Named(c) \in Conns
  BY <1>1 DEF Conns
<1>3. conn[Named(c)] \in Connection
  BY <1>2 DEF Types
<1>4. QED
  BY <1>2, <1>3 DEF CanRead, Connection

LEMMA TakenTyped ==
  ASSUME Types, NEW c \in Conns, NEW pc, CanRead(c, pc), Taken(c)
  PROVE  conn' \in [Conns -> Connection]
<1> DEFINE n == Named(c)
<1>1. n \in Conns /\ conn[n].in \in Seq(StreamPart) /\ conn[n].in # <<>>
  BY NamedTyped
<1>2. Tail(conn[n].in) \in Seq(StreamPart)
  BY <1>1
<1>3. conn' = [conn EXCEPT ![n].in = Tail(conn[n].in)]
  BY DEF Taken
<1> HIDE DEF n
<1>4. [conn EXCEPT ![n].in = Tail(conn[n].in)] \in [Conns -> Connection]
  BY <1>1, <1>2 DEF Types, Connection
<1>5. QED
  BY <1>3, <1>4

-----------------------------------------------------------------------------
(* Type correctness *)

\* The fields whose types an action leaves alone, by groups.
LEMMA TypesStep == Types /\ [Next]_vars => Types'
<1> SUFFICES ASSUME Types, [Next]_vars
             PROVE  Types'
  OBVIOUS
<1> USE DEF daemon, fields
<1>1. CASE UNCHANGED vars
  BY <1>1 DEF vars, Types
<1>2. CASE Connect
  <2>1. made + 1 \in Conns /\ made + 1 # 0 /\ made + 1 \in 0 .. MaxConnects
    BY <1>2, ConstantsAssumption DEF Connect, Types, Conns
  <2>2. NewConn \in Connection
    <3>1. <<>> \in Seq(Order) /\ <<>> \in Seq(StreamPart)
      OBVIOUS
    <3>2. QED
      BY <3>1 DEF NewConn, Connection
  <2>3. conn' \in [Conns -> Connection]
    BY <1>2, <2>1, <2>2 DEF Connect, Types
  <2>4. reader' \in [Conns -> Reader]
    BY <1>2, <2>1 DEF Connect, Types, Reader, ReaderPlaces
  <2>5. connected' \in BOOLEAN /\ connected' /\ sock' = made + 1 /\ stopReader' \in BOOLEAN
    BY <1>2, Zenon DEF Connect
  <2>6. QED
    BY <1>2, <2>1, <2>3, <2>4, <2>5 DEF Connect, Types
<1>3. CASE Disconnect
  BY <1>3, HangUpTypes DEF Disconnect, Types
<1>4. ASSUME NEW c \in Conns, ReaderStep(c)
      PROVE  Types'
  <2>1. CASE Check(c)
    <3>1. reader' \in [Conns -> Reader]
      <4> DEFINE p == IF stopReader \/ sock = 0 THEN "down" ELSE "header"
      <4>1. p \in ReaderPlaces /\ sock \in 0 .. MaxConnects
        BY DEF ReaderPlaces, Types
      <4>2. reader' = [reader EXCEPT ![c].pc = p, ![c].on = sock]
        BY <2>1 DEF Check
      <4> HIDE DEF p
      <4>3. QED
        BY <4>1, <4>2, ReaderTyped, Zero
    <3>2. QED
      BY <2>1, <3>1 DEF Check, Types
  <2>2. CASE ReadFails(c)
    <3>1. reader' \in [Conns -> Reader]
      BY <2>2, ReaderTyped, Zero DEF ReadFails, ReaderPlaces
    <3>2. QED
      BY <2>2, <3>1 DEF ReadFails, Types
  <2>3. CASE ReadHeader(c)
    <3>1. conn' \in [Conns -> Connection]
      BY <2>3, TakenTyped DEF ReadHeader
    <3>2. reader' \in [Conns -> Reader]
      BY <2>3 DEF ReadHeader, Types, ReaderPlaces, Reader
    <3>3. QED
      BY <2>3, <3>1, <3>2 DEF ReadHeader, Types
  <2>4. CASE ReadPayload(c)
    <3>1. conn' \in [Conns -> Connection]
      BY <2>4, TakenTyped DEF ReadPayload
    <3>2. Head(conn[Named(c)].in).msg \in Message
      <4>1. Head(conn[Named(c)].in) \in StreamPart
        BY <2>4, NamedTyped DEF ReadPayload
      <4>2. QED
        BY <4>1 DEF StreamPart
    <3>3. reader' \in [Conns -> Reader]
      <4> DEFINE m == Head(conn[Named(c)].in).msg
                 p == IF Head(conn[Named(c)].in).part # "body" THEN "down"
                      ELSE IF PayloadReply(m) THEN "reply" ELSE "check"
      <4>1. p \in ReaderPlaces /\ m \in Message
        BY <3>2 DEF ReaderPlaces
      <4>2. reader' = [reader EXCEPT ![c].msg = m, ![c].on = 0, ![c].pc = p]
        BY <2>4 DEF ReadPayload
      <4> HIDE DEF p, m
      <4>3. QED
        BY <4>1, <4>2, ReaderTyped, Zero
    <3>4. task' \in [Tasks -> Task]
      <4>1. task' = task \/ \E t \in EventTasks : task' = [task EXCEPT ![t].pc = "sample"]
        BY <2>4, Zenon DEF ReadPayload
      <4>2. QED
        BY <4>1 DEF Types, Task, TaskPlaces, Tasks
    <3>5. QED
      BY <2>4, <3>1, <3>3, <3>4 DEF ReadPayload, Types
  <2>5. ASSUME NEW result \in Results, NEW pc \in ReaderPlaces, TakePending(c, result, pc)
        PROVE  Types'
    <3>1. reader' \in [Conns -> Reader]
      <4>1. EventMsg \in Message /\ 0 \in 0 .. MaxConnects
        BY ConstantsAssumption DEF EventMsg, Message
      <4>2. QED
        BY <2>5, <4>1, ReaderTyped DEF TakePending
    <3>2. blocks' \in SUBSET (Tasks \X Results)
      BY <2>5 DEF TakePending, Types
    <3>3. QED
      BY <2>5, <3>1, <3>2 DEF TakePending, Types
  <2>6. CASE Resolve(c)
    <3>1. reader[c].msg.of \in Results
      <4>1. reader[c] \in Reader
        BY DEF Types
      <4>2. reader[c].msg \in Message
        BY <4>1 DEF Reader
      <4>3. QED
        BY <4>2 DEF Message, Results
    <3>2. QED
      BY <2>5, <2>6, <3>1 DEF Resolve, ReaderPlaces
  <2>7. CASE TearDown(c)
    BY <2>5, <2>7 DEF TearDown, ReaderPlaces, Results, Failures
  <2>8. QED
    BY <1>4, <2>1, <2>2, <2>3, <2>4, <2>6, <2>7 DEF ReaderStep
<1>5. ASSUME NEW c \in Conns, Serve(c)
      PROVE  Types'
  <2> DEFINE m == Head(conn[c].out)
             in == IF conn[c].open THEN conn[c].in \o Frame(ReplyTo(m.by)) ELSE conn[c].in
             s == conn[c].subscribed \/ m.req = "subscribe"
  <2>1. conn[c] \in Connection
    BY DEF Types
  <2>2. conn[c].out \in Seq(Order) /\ conn[c].in \in Seq(StreamPart)
    BY <2>1 DEF Connection
  <2>3. m \in Order /\ Tail(conn[c].out) \in Seq(Order)
    BY <1>5, <2>2 DEF Serve
  <2>4. m.by \in Tasks /\ m.value \in Values
    BY <2>3 DEF Order
  <2>5. ReplyTo(m.by) \in Message
    BY <2>4 DEF ReplyTo, Message
  <2>6. in \in Seq(StreamPart)
    BY <2>2, <2>5, FrameTyped
  <2>7. s \in BOOLEAN
    OBVIOUS
  <2>8. conn' = [conn EXCEPT ![c].out = Tail(conn[c].out), ![c].subscribed = s, ![c].in = in]
    BY <1>5 DEF Serve
  <2>9. shown' \in Values \cup {None}
    BY <1>5, <2>4 DEF Serve, Types
  <2> HIDE DEF m, in, s
  <2>10. conn' \in [Conns -> Connection]
    BY <2>3, <2>6, <2>7, <2>8, StreamTyped
  <2>11. QED
    BY <1>5, <2>9, <2>10 DEF Serve, Types
<1>6. ASSUME NEW t \in Tasks, TaskStep(t)
      PROVE  Types'
  <2>1. ASSUME NEW r \in Results, Resume(t, r)
        PROVE  task' \in [Tasks -> Task]
    BY <2>1, TaskTyped DEF Resume
  <2>2. CASE Refused(t)
    BY <2>1, <2>2 DEF Refused, Types, Results, Failures
  <2>3. CASE Send(t)
    <3>1. sock \in Conns
      BY <2>3, ConstantsAssumption DEF Send, Free, Types, Conns
    <3>2. Asked(t) \in Order
      BY DEF Asked, Order, Types, Task
    <3>3. conn[sock].out \in Seq(Order)
      BY <3>1 DEF Types, Connection
    <3> DEFINE o == Asked(t)
               out == conn[sock].out
    <3>4. conn' = [conn EXCEPT ![sock].out = Append(out, o)]
      BY <2>3 DEF Send
    <3>5. o \in Order /\ out \in Seq(Order)
      BY <3>2, <3>3
    <3> HIDE DEF o, out
    <3>6. Append(out, o) \in Seq(Order)
      BY <3>5
    <3>7. conn' \in [Conns -> Connection]
      BY <3>1, <3>4, <3>6 DEF Types, Connection
    <3>8. task' \in [Tasks -> Task]
      BY <2>3, TaskTyped, Zero DEF Send, TaskPlaces, Results
    <3>9. QED
      BY <2>3, <3>7, <3>8 DEF Send, Types
  <2>4. CASE SendFails(t)
    <3>1. task' \in [Tasks -> Task]
      BY <2>1, <2>4 DEF SendFails, Types, Results, Failures
    <3>2. alive' \in BOOLEAN
      BY <2>4, Zenon DEF SendFails, Types
    <3>3. QED
      BY <2>4, <3>1, <3>2 DEF SendFails, Types
  <2>5. CASE Sample(t)
    <3>1. task' \in [Tasks -> Task]
      BY <2>5 DEF Sample, Types, Task, TaskPlaces
    <3>2. QED
      BY <2>5, <3>1 DEF Sample, Types
  <2>6. CASE ResumeBlock(t)
    <3>1. PICK b \in blocks : blocks' = blocks \ {b} /\ Resume(t, b[2])
      BY <2>6 DEF ResumeBlock
    <3>2. b[2] \in Results
      BY DEF Types
    <3>3. task' \in [Tasks -> Task] /\ blocks' \in SUBSET (Tasks \X Results)
      BY <2>1, <3>1, <3>2 DEF Types
    <3>4. QED
      BY <2>6, <3>3 DEF ResumeBlock, Types
  <2>7. QED
    BY <1>6, <2>2, <2>3, <2>4, <2>5, <2>6 DEF TaskStep
<1>7. CASE Registered \/ GoesOn
  <2>1. Main \in Tasks
    BY DEF Tasks
  <2>2. None \in Results
    BY DEF Results
  <2>3. CASE Registered
    <3>1. task' = task \/ Then(Main, "ask", "subscribe")
      BY <2>3, Zenon DEF Registered
    <3>2. task' \in [Tasks -> Task]
      <4>1. CASE task' = task
        BY <4>1 DEF Types
      <4>2. CASE Then(Main, "ask", "subscribe")
        BY <2>1, <2>2, <4>2, TaskTyped DEF Then, TaskPlaces, Requests
      <4>3. QED
        BY <3>1, <4>1, <4>2
    <3>3. alive' \in BOOLEAN
      BY <2>3, Zenon DEF Registered, Types
    <3>4. QED
      BY <2>3, <3>2, <3>3 DEF Registered, Types
  <2>4. CASE GoesOn
    <3>1. task' \in [Tasks -> Task]
      BY <2>1, <2>2, <2>4, TaskTyped DEF GoesOn, Then, TaskPlaces, Requests
    <3>2. handler' \in BOOLEAN
      BY <2>4 DEF GoesOn
    <3>3. QED
      BY <2>4, <3>1, <3>2 DEF GoesOn, Types
  <2>5. QED
    BY <1>7, <2>3, <2>4
<1>8. ASSUME NEW t \in EventTasks, EventTaskEnds(t)
      PROVE  Types'
  <2>1. task' \in [Tasks -> Task]
    BY <1>8 DEF EventTaskEnds, Types, Task, TaskPlaces, Tasks
  <2>2. QED
    BY <1>8, <2>1 DEF EventTaskEnds, Types
<1>9. CASE Change
  <2>1. reading' \in Values
    BY <1>9, ConstantsAssumption DEF Change, Types, Values
  <2>2. ASSUME NEW c \in Conns
        PROVE  [conn[c] EXCEPT !.in = conn[c].in \o Frame(EventMsg)] \in Connection
    <3>1. EventMsg \in Message
      BY DEF EventMsg, Message
    <3>2. conn[c].in \in Seq(StreamPart)
      BY DEF Types, Connection
    <3> DEFINE in == conn[c].in \o Frame(EventMsg)
    <3>3. in \in Seq(StreamPart)
      BY <3>1, <3>2, FrameTyped
    <3> HIDE DEF in
    <3>4. [conn[c] EXCEPT !.in = in] \in Connection
      BY <3>3 DEF Types, Connection
    <3>5. QED
      BY <3>4 DEF in
  <2>3. conn' \in [Conns -> Connection]
    BY <1>9, <2>2 DEF Change, Types
  <2>4. QED
    BY <1>9, <2>1, <2>3 DEF Change, Types
<1>10. CASE DaemonDies
  BY <1>10 DEF DaemonDies, Types
<1>11. QED
  BY <1>1, <1>2, <1>3, <1>4, <1>5, <1>6, <1>7, <1>8, <1>9, <1>10 DEF Next

\* Type correctness of the client, its streams and its tasks (OmabarClient.swift).
THEOREM TypeCorrect == Spec => []TypeOK
BY TypesInit, TypesStep, TypesImply, PTL DEF Spec

-----------------------------------------------------------------------------
(* A continuation is resumed once *)

\* pendingReply, the blocks and who waits stay as they are.
LEMMA Aside ==
  ASSUME HeldOnce, UNCHANGED <<pending, blocks>>,
         \A t \in Tasks : task'[t].pc = "wait" <=> task[t].pc = "wait"
  PROVE  HeldOnce'
BY DEF HeldOnce, Holds

LEMMA HangUpHeld ==
  ASSUME Types, HeldOnce, HangUp, UNCHANGED blocks
  PROVE  HeldOnce'
<1>1. CASE pending = None
  BY <1>1, Aside DEF HangUp
<1>2. CASE pending # None
  <2>1. pending \in Tasks
    BY <1>2 DEF Types
  <2>2. task' = Got(pending, "notConnected") /\ pending' = None
    BY <1>2 DEF HangUp
  <2>3. \A t \in Tasks : task'[t].pc = "wait" <=> task[t].pc = "wait" /\ t # pending
    BY <2>1, <2>2 DEF Got, Types, Task
  <2>4. \A t \in Tasks : pending' # t
    BY <2>2, ConstantsAssumption
  <2>5. QED
    BY <2>1, <2>3, <2>4 DEF HeldOnce
<1>3. QED
  BY <1>1, <1>2

LEMMA TakePendingHeld ==
  ASSUME Types, HeldOnce, NEW c, NEW result, NEW pc, TakePending(c, result, pc)
  PROVE  HeldOnce'
<1>1. CASE pending = None
  BY <1>1, Aside DEF TakePending
<1>2. CASE pending # None
  <2>1. pending \in Tasks
    BY <1>2 DEF Types
  <2> DEFINE new == <<pending, result>>
  <2>2. blocks' = blocks \cup {new} /\ pending' = None /\ task' = task
    BY <1>2 DEF TakePending
  <2>3. \A t \in Tasks : Holds(t, new) <=> t = pending
    BY DEF Holds
  <2>4. \A t \in Tasks : pending' # t
    BY <2>2, ConstantsAssumption
  <2> HIDE DEF new
  <2>5. QED
    BY <2>1, <2>2, <2>3, <2>4 DEF HeldOnce
<1>3. QED
  BY <1>1, <1>2

LEMMA SendHeld ==
  ASSUME Types, HeldOnce, NEW t \in Tasks, Send(t)
  PROVE  HeldOnce'
<1>1. pending = None /\ task[t].pc = "ask" /\ pending' = t /\ UNCHANGED blocks
  BY DEF Send, Free, CanAsk
<1>2. \A u \in Tasks : task'[u].pc = "wait" <=> task[u].pc = "wait" \/ u = t
  BY DEF Send, Types, Task
<1>3. \A u \in Tasks : pending # u
  BY <1>1, ConstantsAssumption
<1>4. QED
  BY <1>1, <1>2, <1>3 DEF HeldOnce

LEMMA ResumeHeld ==
  ASSUME Types, HeldOnce, NEW t \in Tasks, ResumeBlock(t)
  PROVE  HeldOnce'
<1>1. PICK b \in blocks : Holds(t, b) /\ blocks' = blocks \ {b} /\ Resume(t, b[2])
  BY DEF ResumeBlock
<1>2. pending' = pending
  BY DEF ResumeBlock, fields
<1>3. \A u \in Tasks : task'[u].pc = "wait" <=> task[u].pc = "wait" /\ u # t
  BY <1>1 DEF Resume, Got, Types, Task
<1>4. \A u \in Tasks : Holds(u, b) <=> u = t
  BY <1>1 DEF Holds
<1>5. QED
  BY <1>1, <1>2, <1>3, <1>4 DEF HeldOnce

LEMMA HeldStep == Types /\ HeldOnce /\ [Next]_vars => HeldOnce'
<1> SUFFICES ASSUME Types, HeldOnce, [Next]_vars
             PROVE  HeldOnce'
  OBVIOUS
<1> USE DEF daemon, fields
<1>1. CASE UNCHANGED <<pending, blocks, task>>
  BY <1>1, Aside
<1>2. CASE Connect \/ Change \/ DaemonDies \/ UNCHANGED vars
  BY <1>1, <1>2 DEF Connect, Change, DaemonDies, vars
<1>3. CASE Disconnect
  BY <1>3, HangUpHeld DEF Disconnect
<1>4. ASSUME NEW c \in Conns, ReaderStep(c) \/ Serve(c)
      PROVE  HeldOnce'
  <2>1. CASE Check(c) \/ ReadFails(c) \/ ReadHeader(c) \/ Serve(c)
    BY <1>1, <2>1 DEF Check, ReadFails, ReadHeader, Serve
  <2>2. CASE ReadPayload(c)
    <3>1. task' = task \/ \E t \in EventTasks :
            task[t].pc = "idle" /\ task' = [task EXCEPT ![t].pc = "sample"]
      BY <2>2, Zenon DEF ReadPayload
    <3>2. ASSUME NEW t \in EventTasks, task[t].pc = "idle",
                 task' = [task EXCEPT ![t].pc = "sample"]
          PROVE  \A u \in Tasks : task'[u].pc = "wait" <=> task[u].pc = "wait"
      BY <3>2 DEF Types, Task, Tasks
    <3>3. UNCHANGED <<pending, blocks>>
      BY <2>2 DEF ReadPayload
    <3>4. QED
      BY <3>1, <3>2, <3>3, Aside
  <2>3. CASE Resolve(c) \/ TearDown(c)
    BY <2>3, TakePendingHeld DEF Resolve, TearDown
  <2>4. QED
    BY <1>4, <2>1, <2>2, <2>3 DEF ReaderStep
<1>5. ASSUME NEW t \in Tasks, NEW p \in TaskPlaces \ {"wait"},
             task[t].pc # "wait", UNCHANGED <<pending, blocks>>,
             task'[t].pc = p, \A u \in Tasks \ {t} : task'[u] = task[u]
      PROVE  HeldOnce'
  BY <1>5, Aside
<1>6. ASSUME NEW t \in Tasks, TaskStep(t)
      PROVE  HeldOnce'
  <2>1. ASSUME NEW result, CanAsk(t), Resume(t, result), UNCHANGED <<pending, blocks>>
        PROVE  HeldOnce'
    <3>1. task'[t].pc = "got" /\ \A u \in Tasks \ {t} : task'[u] = task[u]
      BY <2>1 DEF Resume, Got, Types, Task
    <3>2. QED
      BY <1>5, <2>1, <3>1 DEF CanAsk, TaskPlaces
  <2>2. CASE Refused(t)
    BY <2>1, <2>2 DEF Refused
  <2>3. CASE SendFails(t)
    BY <1>1, <2>1, <2>3 DEF SendFails
  <2>4. CASE Sample(t)
    <3>1. task'[t].pc = "ask" /\ \A u \in Tasks \ {t} : task'[u] = task[u]
      BY <2>4 DEF Sample, Types, Task
    <3>2. QED
      BY <1>5, <2>4, <3>1 DEF Sample, TaskPlaces
  <2>5. QED
    BY <1>6, <2>2, <2>3, <2>4, SendHeld, ResumeHeld DEF TaskStep
<1>7. ASSUME NEW pc \in TaskPlaces \ {"wait"}, NEW req, task[Main].pc = "got",
             Then(Main, pc, req), UNCHANGED <<pending, blocks>>
      PROVE  HeldOnce'
  <2>1. Main \in Tasks
    BY DEF Tasks
  <2>2. task'[Main].pc = pc /\ \A u \in Tasks \ {Main} : task'[u] = task[u]
    BY <1>7, <2>1 DEF Then, Types, Task
  <2>3. QED
    BY <1>5, <1>7, <2>1, <2>2
<1>8. CASE Registered \/ GoesOn
  BY <1>1, <1>7, <1>8 DEF Registered, GoesOn, TaskPlaces
<1>9. ASSUME NEW t \in EventTasks, EventTaskEnds(t)
      PROVE  HeldOnce'
  <2>1. t \in Tasks
    BY DEF Tasks
  <2>2. task'[t].pc = "done" /\ \A u \in Tasks \ {t} : task'[u] = task[u]
    BY <1>9, <2>1 DEF EventTaskEnds, Types, Task
  <2>3. QED
    BY <1>5, <1>9, <2>1, <2>2 DEF EventTaskEnds, TaskPlaces
<1>10. QED
  BY <1>2, <1>3, <1>4, <1>6, <1>8, <1>9 DEF Next

\* A continuation is resumed once and not lost (OmabarClient.swift: request,
\* disconnect, handleReply, tearDown).
THEOREM ResumedOnce == Spec => []HeldOnce
<1>1. Init => HeldOnce
  BY ConstantsAssumption DEF Init, HeldOnce, Tasks
<1>2. QED
  BY <1>1, TypesInit, TypesStep, HeldStep, PTL DEF Spec

-----------------------------------------------------------------------------
(* Whose reply it is, on one connection *)

IsReply(p) == p.part = "body" /\ PayloadReply(p.msg)
NoReply(s) == \A i \in DOMAIN s : ~IsReply(s[i])
OneReply(s, t) ==
  \E i \in DOMAIN s :
    /\ IsReply(s[i]) /\ s[i].msg.of = t
    /\ \A j \in DOMAIN s \ {i} : ~IsReply(s[j])

LEMMA ReadPart ==
  ASSUME NEW s \in Seq(StreamPart), s # <<>>, NEW t
  PROVE  /\ NoReply(s) => ~IsReply(Head(s)) /\ NoReply(Tail(s))
         /\ OneReply(s, t) =>
              IF IsReply(Head(s)) THEN Head(s).msg.of = t /\ NoReply(Tail(s))
              ELSE OneReply(Tail(s), t)
<1> DEFINE n == Len(s)
           r == Tail(s)
<1>1. /\ n \in Nat \ {0} /\ DOMAIN s = 1 .. n /\ DOMAIN r = 1 .. n - 1
      /\ Head(s) = s[1] /\ \A i \in 1 .. n - 1 : r[i] = s[i + 1]
  OBVIOUS
<1> HIDE DEF n, r
<1>2. NoReply(s) => ~IsReply(s[1]) /\ NoReply(r)
  BY <1>1 DEF NoReply
<1>3. ASSUME NEW i \in 1 .. n, IsReply(s[i]), s[i].msg.of = t,
             \A j \in (1 .. n) \ {i} : ~IsReply(s[j])
      PROVE  IF IsReply(s[1]) THEN s[1].msg.of = t /\ NoReply(r) ELSE OneReply(r, t)
  <2>1. CASE i = 1
    BY <1>1, <1>3, <2>1 DEF NoReply
  <2>2. CASE i # 1
    <3>1. i - 1 \in 1 .. n - 1 /\ r[i - 1] = s[i] /\ ~IsReply(s[1])
      BY <1>1, <1>3, <2>2
    <3>2. \A j \in (1 .. n - 1) \ {i - 1} : ~IsReply(r[j])
      BY <1>1, <1>3
    <3>3. QED
      BY <1>1, <1>3, <3>1, <3>2 DEF OneReply
  <2>3. QED
    BY <2>1, <2>2
<1>4. OneReply(s, t) =>
        IF IsReply(s[1]) THEN s[1].msg.of = t /\ NoReply(r) ELSE OneReply(r, t)
  BY <1>1, <1>3 DEF OneReply
<1>5. QED
  BY <1>1, <1>2, <1>4 DEF r

LEMMA Concatenation ==
  ASSUME NEW S, NEW a \in Seq(S), NEW b \in Seq(S)
  PROVE  /\ a \o b \in Seq(S) /\ Len(a \o b) = Len(a) + Len(b)
         /\ \A i \in 1 .. Len(a) + Len(b) :
              (a \o b)[i] = IF i <= Len(a) THEN a[i] ELSE b[i - Len(a)]
OBVIOUS

LEMMA FrameIn ==
  ASSUME NEW s \in Seq(StreamPart), NEW t, NEW m \in Message
  PROVE  /\ ~PayloadReply(m) /\ NoReply(s) => NoReply(s \o Frame(m))
         /\ ~PayloadReply(m) /\ OneReply(s, t) => OneReply(s \o Frame(m), t)
         /\ PayloadReply(m) /\ m.of = t /\ NoReply(s) => OneReply(s \o Frame(m), t)
<1> DEFINE n == Len(s)
           f == Frame(m)
           r == s \o f
<1>1. /\ f \in Seq(StreamPart) /\ Len(f) = 2
      /\ f[1] = Part("len", m) /\ f[2] = Part("body", m)
  BY FrameTyped DEF Frame
<1>2. ~IsReply(f[1]) /\ (IsReply(f[2]) <=> PayloadReply(m)) /\ f[2].msg = m
  BY <1>1 DEF IsReply, Part
<1> HIDE DEF f
<1>3. /\ n \in Nat /\ DOMAIN s = 1 .. n /\ DOMAIN r = 1 .. n + 2
      /\ \A i \in 1 .. n : r[i] = s[i]
      /\ r[n + 1] = f[1] /\ r[n + 2] = f[2]
  <2>1. n \in Nat /\ DOMAIN s = 1 .. n
    OBVIOUS
  <2>2. r \in Seq(StreamPart) /\ Len(r) = n + 2
    <3>1. r \in Seq(StreamPart) /\ Len(r) = Len(s) + Len(f)
      BY <1>1, Concatenation, Zenon
    <3>2. QED
      BY <1>1, <3>1
  <2>3. DOMAIN r = 1 .. n + 2
    BY <2>2
  <2>4. \A i \in 1 .. n + 2 : r[i] = IF i <= n THEN s[i] ELSE f[i - n]
    BY <1>1, Concatenation
  <2> HIDE DEF r, n
  <2>5. \A i \in 1 .. n : r[i] = s[i]
    BY <2>1, <2>4
  <2>6. r[n + 1] = f[1] /\ r[n + 2] = f[2]
    BY <2>1, <2>4
  <2>7. QED
    BY <2>1, <2>3, <2>5, <2>6
<1> HIDE DEF n, r
<1>4. \A i \in 1 .. n + 2 : i \in 1 .. n \/ i = n + 1 \/ i = n + 2
  BY <1>3
<1>5. ~PayloadReply(m) /\ NoReply(s) => NoReply(r)
  BY <1>2, <1>3, <1>4 DEF NoReply
<1>6. ASSUME ~PayloadReply(m), OneReply(s, t)
      PROVE  OneReply(r, t)
  <2>1. PICK i \in 1 .. n : /\ IsReply(s[i]) /\ s[i].msg.of = t
                            /\ \A j \in (1 .. n) \ {i} : ~IsReply(s[j])
    BY <1>3, <1>6 DEF OneReply
  <2>2. i \in 1 .. n + 2 /\ IsReply(r[i]) /\ r[i].msg.of = t
    BY <1>3, <2>1
  <2>3. \A j \in (1 .. n + 2) \ {i} : ~IsReply(r[j])
    BY <1>2, <1>3, <1>4, <1>6, <2>1
  <2>4. QED
    BY <1>3, <2>2, <2>3 DEF OneReply
<1>7. ASSUME PayloadReply(m), m.of = t, NoReply(s)
      PROVE  OneReply(r, t)
  <2>1. n + 2 \in 1 .. n + 2 /\ IsReply(r[n + 2]) /\ r[n + 2].msg.of = t
    BY <1>2, <1>3, <1>7
  <2>2. \A j \in (1 .. n + 2) \ {n + 2} : ~IsReply(r[j])
    BY <1>2, <1>3, <1>4, <1>7 DEF NoReply
  <2>3. QED
    BY <1>3, <2>1, <2>2 DEF OneReply
<1>8. QED
  BY <1>5, <1>6, <1>7 DEF r, f

\* Nothing of a request is under way; at most one message of the request of t
\* is, in one of three places.
Quiet == conn[1].out = <<>> /\ NoReply(conn[1].in) /\ reader[1].pc # "reply"

Underway(t) ==
  \/ /\ Len(conn[1].out) = 1 /\ conn[1].out[1].by = t
     /\ NoReply(conn[1].in) /\ reader[1].pc # "reply"
  \/ /\ conn[1].out = <<>>
     /\ OneReply(conn[1].in, t) /\ reader[1].pc # "reply"
  \/ /\ conn[1].out = <<>> /\ NoReply(conn[1].in)
     /\ reader[1].pc = "reply" => reader[1].msg.of = t

\* While the client's first connection is its only one.
Linked == sock \in {0, 1} /\ (sock = 0 => pending = None)
Readers == \A c \in Conns : reader[c].on \in {0, 1} /\ (c # 1 => reader[c].pc = "off")
BlocksOwn == \A b \in blocks : b[2] \in {b[1]} \cup Failures
InFlight ==
  reader[1].pc # "off" /\ sock # 0 => IF pending = None THEN Quiet ELSE Underway(pending)

First == Linked /\ Readers /\ BlocksOwn /\ OwnReply /\ InFlight

LEMMA FirstInit == Init => First
<1> SUFFICES ASSUME Init
             PROVE  First
  OBVIOUS
<1>1. 1 \in Conns
  BY ConstantsAssumption DEF Conns
<1>2. conn[1] = NewConn /\ \A c \in Conns : reader[c].on = 0 /\ (c # 1 => reader[c].pc = "off")
  BY <1>1 DEF Init, NoReader
<1>3. reader[1].pc = "check"
  BY <1>1 DEF Init, NoReader
<1>4. Quiet
  BY <1>2, <1>3 DEF Quiet, NewConn, NoReply
<1>5. OwnReply /\ BlocksOwn
  BY DEF Init, OwnReply, BlocksOwn
<1>6. Linked /\ Readers
  BY <1>2 DEF Init, Linked, Readers
<1>7. QED
  BY <1>4, <1>5, <1>6 DEF Init, First, InFlight

\* As long as there is one connection nothing connects.
LEMMA StillFirst ==
  ASSUME Types, [Next]_vars, made' = 1
  PROVE  made = 1 /\ ~Connect
<1>1. ~Connect
  BY DEF Connect, Types, Conns
<1>2. made' = made
  BY <1>1 DEF Next, vars, Disconnect, ReaderStep, Check, ReadFails, ReadHeader, ReadPayload,
    Resolve, TearDown, TakePending, Serve, TaskStep, Refused, Send, SendFails, Sample,
    ResumeBlock, Registered, GoesOn, EventTaskEnds, Change, DaemonDies
<1>3. QED
  BY <1>1, <1>2

LEMMA LinkedStep ==
  ASSUME Types, First, [Next]_vars, ~Connect
  PROVE  Linked'
<1> USE DEF Linked, First, fields
<1>1. CASE UNCHANGED sock /\ pending' \in {pending, None}
  BY <1>1
<1>2. CASE Disconnect
  BY <1>2 DEF Disconnect, HangUp
<1>3. ASSUME NEW c \in Conns, ReaderStep(c) \/ Serve(c)
      PROVE  Linked'
  BY <1>1, <1>3 DEF ReaderStep, Check, ReadFails, ReadHeader, ReadPayload,
    Resolve, TearDown, TakePending, Serve
<1>4. ASSUME NEW t \in Tasks, TaskStep(t)
      PROVE  Linked'
  <2>1. CASE Send(t)
    BY <2>1 DEF Send, Free, Types
  <2>2. QED
    BY <1>1, <1>4, <2>1 DEF TaskStep, Refused, SendFails, Sample, ResumeBlock
<1>5. CASE Registered \/ GoesOn \/ Change \/ DaemonDies \/ UNCHANGED vars
  BY <1>1, <1>5 DEF Registered, GoesOn, Change, DaemonDies, vars
<1>6. ASSUME NEW t \in EventTasks, EventTaskEnds(t)
      PROVE  Linked'
  BY <1>1, <1>6 DEF EventTaskEnds
<1>7. QED
  BY <1>2, <1>3, <1>4, <1>5, <1>6 DEF Next

\* The reader that steps is the first one.
LEMMA FirstReader ==
  ASSUME Readers, NEW c \in Conns, ReaderStep(c)
  PROVE  c = 1
BY DEF Readers, ReaderStep, Check, ReadFails, ReadHeader, ReadPayload, CanRead, Resolve,
  TearDown, Reads

LEMMA ReadersStep ==
  ASSUME Types, First, [Next]_vars, ~Connect
  PROVE  Readers'
<1> USE DEF First
<1>1. CASE UNCHANGED reader
  BY <1>1 DEF Readers
<1>2. ASSUME NEW c \in Conns, ReaderStep(c)
      PROVE  Readers'
  <2>1. c = 1
    BY <1>2, FirstReader
  <2>2. sock \in {0, 1}
    BY DEF Linked
  <2>3. \A d \in Conns \ {1} : reader'[d] = reader[d]
    BY <1>2, <2>1 DEF ReaderStep, Check, ReadFails, ReadHeader, ReadPayload,
      Resolve, TearDown, TakePending, Types
  <2>4. reader'[1].on \in {0, 1}
    <3>1. reader[1] \in Reader /\ reader[1].on \in {0, 1}
      BY <2>1 DEF Readers, Types
    <3>2. CASE Check(c) \/ ReadHeader(c)
      BY <2>1, <2>2, <3>2 DEF Check, ReadHeader, Types, Reader
    <3>3. CASE ReadFails(c) \/ ReadPayload(c)
      BY <2>1, <3>3 DEF ReadFails, ReadPayload, Types, Reader
    <3>4. CASE Resolve(c) \/ TearDown(c)
      BY <2>1, <3>4 DEF Resolve, TearDown, TakePending, Types, NoReader
    <3>5. QED
      BY <1>2, <3>2, <3>3, <3>4 DEF ReaderStep
  <2>5. QED
    BY <2>3, <2>4 DEF Readers
<1>3. ASSUME NEW c \in Conns, Serve(c)
      PROVE  Readers'
  BY <1>1, <1>3 DEF Serve
<1>4. ASSUME NEW t \in Tasks, TaskStep(t)
      PROVE  Readers'
  BY <1>1, <1>4 DEF TaskStep, Refused, Send, SendFails, Sample, ResumeBlock
<1>5. CASE Disconnect \/ Registered \/ GoesOn \/ Change \/ DaemonDies \/ UNCHANGED vars
  BY <1>1, <1>5 DEF Disconnect, Registered, GoesOn, Change, DaemonDies, vars
<1>6. ASSUME NEW t \in EventTasks, EventTaskEnds(t)
      PROVE  Readers'
  BY <1>1, <1>6 DEF EventTaskEnds
<1>7. QED
  BY <1>2, <1>3, <1>4, <1>5, <1>6 DEF Next

\* What a request returns was meant for it.
LEMMA OwnStep ==
  ASSUME Types, First, [Next]_vars, ~Connect
  PROVE  BlocksOwn' /\ OwnReply'
<1> USE DEF First, fields, daemon
<1>1. CASE UNCHANGED <<blocks, task>>
  BY <1>1 DEF BlocksOwn, OwnReply
<1>2. ASSUME NEW t \in Tasks, NEW r \in {t} \cup Failures, task' = Got(t, r)
      PROVE  OwnReply'
  BY <1>2 DEF OwnReply, Got, Types, Task
<1>3. ASSUME NEW t \in Tasks, task'[t].pc # "got",
             \A u \in Tasks \ {t} : task'[u] = task[u]
      PROVE  OwnReply'
  BY <1>3 DEF OwnReply
<1>4. ASSUME UNCHANGED blocks
      PROVE  BlocksOwn'
  BY <1>4 DEF BlocksOwn
<1>5. CASE Disconnect
  <2>1. task' = task \/ (pending \in Tasks /\ task' = Got(pending, "notConnected"))
    BY <1>5 DEF Disconnect, HangUp, Types
  <2>2. QED
    BY <1>1, <1>2, <1>4, <1>5, <2>1 DEF Disconnect, Failures
<1>6. ASSUME NEW c \in Conns, ReaderStep(c) \/ Serve(c)
      PROVE  BlocksOwn' /\ OwnReply'
  <2>1. CASE Check(c) \/ ReadFails(c) \/ ReadHeader(c) \/ Serve(c)
    BY <1>1, <2>1 DEF Check, ReadFails, ReadHeader, Serve
  <2>2. CASE ReadPayload(c)
    <3>1. task' = task \/ \E t \in EventTasks : task' = [task EXCEPT ![t].pc = "sample"]
      BY <2>2, Zenon DEF ReadPayload
    <3>2. ASSUME NEW t \in EventTasks, task' = [task EXCEPT ![t].pc = "sample"]
          PROVE  OwnReply'
      <4>1. t \in Tasks
        BY DEF Tasks
      <4>2. task'[t].pc = "sample" /\ \A u \in Tasks \ {t} : task'[u] = task[u]
        BY <3>2, <4>1 DEF Types, Task
      <4>3. QED
        BY <1>3, <4>1, <4>2
    <3>3. UNCHANGED blocks
      BY <2>2 DEF ReadPayload
    <3>4. QED
      BY <1>1, <1>4, <3>1, <3>2, <3>3
  <2>3. ASSUME NEW r, NEW pc, TakePending(c, r, pc), pending # None => r \in {pending} \cup Failures
        PROVE  BlocksOwn' /\ OwnReply'
    BY <2>3 DEF TakePending, BlocksOwn, OwnReply
  <2>4. CASE Resolve(c)
    <3>1. c = 1 /\ reader[1].pc = "reply"
      BY <2>4, FirstReader DEF Resolve, Reads, ReaderStep
    <3>2. pending # None => sock # 0
      BY DEF Linked
    <3>3. pending # None => reader[1].msg.of = pending
      BY <3>1, <3>2 DEF InFlight, Underway
    <3>4. QED
      BY <2>3, <2>4, <3>1, <3>3 DEF Resolve
  <2>5. CASE TearDown(c)
    BY <2>3, <2>5 DEF TearDown, Failures
  <2>6. QED
    BY <1>6, <2>1, <2>2, <2>4, <2>5 DEF ReaderStep
<1>7. ASSUME NEW t \in Tasks, TaskStep(t)
      PROVE  BlocksOwn' /\ OwnReply'
  <2>1. CASE Refused(t) \/ SendFails(t)
    <3>1. task' = task \/ \E r \in Failures : task' = Got(t, r)
      BY <2>1, Zenon DEF Refused, SendFails, Resume, Failures
    <3>2. QED
      BY <1>1, <1>2, <1>4, <2>1, <3>1 DEF Refused, SendFails
  <2>2. CASE Send(t) \/ Sample(t)
    <3>1. task'[t].pc # "got" /\ \A u \in Tasks \ {t} : task'[u] = task[u]
      BY <2>2 DEF Send, Sample, Types, Task
    <3>2. QED
      BY <1>3, <1>4, <2>2, <3>1 DEF Send, Sample
  <2>3. CASE ResumeBlock(t)
    <3>1. PICK b \in blocks : Holds(t, b) /\ blocks' = blocks \ {b} /\ Resume(t, b[2])
      BY <2>3 DEF ResumeBlock
    <3>2. b[2] \in {t} \cup Failures
      BY <3>1 DEF BlocksOwn, Holds
    <3>3. QED
      BY <1>2, <3>1, <3>2 DEF Resume, BlocksOwn
  <2>4. QED
    BY <1>7, <2>1, <2>2, <2>3 DEF TaskStep
<1>8. ASSUME NEW pc, pc # "got", NEW req, Then(Main, pc, req)
      PROVE  OwnReply'
  <2>1. Main \in Tasks
    BY DEF Tasks
  <2>2. task'[Main].pc = pc /\ \A u \in Tasks \ {Main} : task'[u] = task[u]
    BY <1>8, <2>1 DEF Then, Types, Task
  <2>3. QED
    BY <1>3, <1>8, <2>1, <2>2
<1>9. CASE Registered \/ GoesOn
  <2>1. UNCHANGED blocks /\ (task' = task \/ \E pc \in {"ask", "sample"} : \E req : Then(Main, pc, req))
    BY <1>9, Zenon DEF Registered, GoesOn
  <2>2. QED
    BY <1>1, <1>4, <1>8, <2>1
<1>10. ASSUME NEW t \in EventTasks, EventTaskEnds(t)
       PROVE  BlocksOwn' /\ OwnReply'
  <2>1. t \in Tasks
    BY DEF Tasks
  <2>2. task'[t].pc = "done" /\ \A u \in Tasks \ {t} : task'[u] = task[u]
    BY <1>10, <2>1 DEF EventTaskEnds, Types, Task
  <2>3. QED
    BY <1>3, <1>4, <1>10, <2>1, <2>2 DEF EventTaskEnds
<1>11. CASE Change \/ DaemonDies \/ UNCHANGED vars
  BY <1>1, <1>11 DEF Change, DaemonDies, vars
<1>12. QED
  BY <1>5, <1>6, <1>7, <1>9, <1>10, <1>11 DEF Next

-----------------------------------------------------------------------------
(* The messages of the request that is outstanding *)

\* Nothing of the first connection or its reader moves.
LEMMA FlightKept ==
  ASSUME InFlight, UNCHANGED <<sock, pending>>,
         conn'[1].out = conn[1].out, conn'[1].in = conn[1].in,
         \/ reader'[1].pc = "off"
         \/ reader[1].pc # "off" /\ reader'[1].pc # "reply" /\ reader[1].pc # "reply"
         \/ reader'[1] = reader[1]
  PROVE  InFlight'
<1>1. CASE reader'[1].pc = "off"
  BY <1>1 DEF InFlight
<1>2. CASE reader[1].pc # "off" /\ reader'[1].pc # "reply" /\ reader[1].pc # "reply"
  BY <1>2 DEF InFlight, Quiet, Underway
<1>3. CASE reader'[1] = reader[1]
  BY <1>3 DEF InFlight, Quiet, Underway
<1>4. QED
  BY <1>1, <1>2, <1>3

\* The first reader takes a part out of the stream.
LEMMA FlightRead ==
  ASSUME Types, InFlight, NEW pc, CanRead(1, pc), Named(1) = 1, pc \notin {"off", "reply"},
         Taken(1), UNCHANGED <<sock, pending>>,
         NEW p, p = Head(conn[1].in),
         reader'[1].pc # "off",
         reader'[1].pc = "reply" => IsReply(p) /\ reader'[1].msg = p.msg
  PROVE  InFlight'
<1>1. 1 \in Conns
  BY ConstantsAssumption DEF Conns
<1> DEFINE s == conn[1].in
<1>2. s \in Seq(StreamPart) /\ s # <<>>
  <2>1. conn[Named(1)].in \in Seq(StreamPart) /\ conn[Named(1)].in # <<>>
    BY <1>1, NamedTyped
  <2>2. QED
    BY <2>1
<1>3. conn'[1].in = Tail(s) /\ conn'[1].out = conn[1].out
  BY <1>1 DEF Taken, Types, Connection
<1>4. reader[1].pc \notin {"off", "reply"}
  BY DEF CanRead, Reads
<1> HIDE DEF s
<1>5. /\ NoReply(s) => ~IsReply(p) /\ NoReply(conn'[1].in)
      /\ \A t : OneReply(s, t) => IF IsReply(p) THEN p.msg.of = t /\ NoReply(conn'[1].in)
                                  ELSE OneReply(conn'[1].in, t)
  BY <1>2, <1>3, ReadPart DEF s
<1>6. Quiet => Quiet'
  BY <1>3, <1>5 DEF Quiet, s
<1>7. ASSUME NEW t, Underway(t)
      PROVE  Underway(t)'
  BY <1>3, <1>4, <1>5, <1>7 DEF Underway, s
<1>8. QED
  BY <1>4, <1>6, <1>7 DEF InFlight

LEMMA ReaderFlight ==
  ASSUME Types, First, NEW c \in Conns, ReaderStep(c)
  PROVE  InFlight'
<1>1. c = 1 /\ 1 \in Conns
  BY FirstReader DEF First
<1>2. reader[1] \in Reader /\ sock \in {0, 1} /\ reader[1].on \in {0, 1} /\ InFlight
  BY <1>1 DEF First, Linked, Readers, Types
<1>3. ASSUME NEW pc, CanRead(1, pc)
      PROVE  Named(1) = 1
  BY <1>2, <1>3 DEF CanRead, Named
<1> USE DEF fields, daemon
<1>4. CASE Check(1) \/ ReadFails(1)
  <2>1. UNCHANGED <<sock, pending, conn>> /\ reader[1].pc \notin {"off", "reply"}
    BY <1>4 DEF Check, ReadFails, Reads
  <2>2. reader'[1].pc # "reply"
    <3>1. CASE Check(1)
      BY <1>1, <3>1 DEF Check, Types, Reader
    <3>2. CASE ReadFails(1)
      BY <1>1, <3>2 DEF ReadFails, Types, Reader
    <3>3. QED
      BY <1>4, <3>1, <3>2
  <2>3. QED
    BY <1>2, <2>1, <2>2, FlightKept
<1>5. CASE ReadHeader(1)
  <2>1. CanRead(1, "header") /\ Taken(1) /\ UNCHANGED <<sock, pending>>
    BY <1>5 DEF ReadHeader
  <2>2. reader'[1].pc \notin {"off", "reply"}
    BY <1>1, <1>5 DEF ReadHeader, Types, Reader
  <2>3. QED
    BY <1>2, <1>3, <2>1, <2>2, FlightRead
<1>6. CASE ReadPayload(1)
  <2> DEFINE p == Head(conn[1].in)
  <2>1. CanRead(1, "payload") /\ Taken(1) /\ UNCHANGED <<sock, pending>>
    BY <1>6 DEF ReadPayload
  <2>2. Named(1) = 1
    BY <1>3, <2>1
  <2>3. /\ reader'[1].pc # "off"
        /\ reader'[1].pc = "reply" => IsReply(p) /\ reader'[1].msg = p.msg
    <3> DEFINE place == IF p.part # "body" THEN "down"
                        ELSE IF PayloadReply(p.msg) THEN "reply" ELSE "check"
    <3>1. reader' = [reader EXCEPT ![1].msg = p.msg, ![1].on = 0, ![1].pc = place]
      BY <1>6, <2>2 DEF ReadPayload
    <3> HIDE DEF p
    <3>2. place # "off" /\ (place = "reply" => IsReply(p))
      BY DEF IsReply
    <3> HIDE DEF place
    <3>3. reader'[1].pc = place /\ reader'[1].msg = p.msg
      BY <1>1, <1>2, <3>1 DEF Types, Reader
    <3>4. QED
      BY <3>2, <3>3
  <2> HIDE DEF p
  <2>4. p = Head(conn[1].in)
    BY DEF p
  <2>5. QED
    BY <1>2, <2>1, <2>2, <2>3, <2>4, FlightRead
<1>7. CASE Resolve(1)
  <2>1. /\ reader[1].pc = "reply" /\ reader'[1].pc = "check" /\ UNCHANGED <<sock, conn>>
        /\ pending' = None
    BY <1>1, <1>7 DEF Resolve, Reads, TakePending, Types, NoReader
  <2>2. sock # 0 => pending # None /\ Underway(pending)
    BY <1>2, <2>1 DEF InFlight, Quiet
  <2>3. sock # 0 => Quiet'
    BY <2>1, <2>2 DEF Quiet, Underway
  <2>4. QED
    BY <2>1, <2>3 DEF InFlight
<1>8. CASE TearDown(1)
  <2>1. reader'[1].pc = "off"
    BY <1>1, <1>8 DEF TearDown, TakePending, Types, NoReader
  <2>2. QED
    BY <2>1 DEF InFlight
<1>9. QED
  BY <1>1, <1>4, <1>5, <1>6, <1>7, <1>8 DEF ReaderStep

LEMMA Single ==
  ASSUME NEW S, NEW s \in Seq(S), Len(s) = 1
  PROVE  Head(s) = s[1] /\ Tail(s) = <<>>
<1>1. Tail(s) \in Seq(S) /\ Len(Tail(s)) = 0
  OBVIOUS
<1>2. Tail(s) # <<>> => Len(Tail(s)) \in Nat \ {0}
  BY <1>1, EmptySeq, Zenon
<1>3. Head(s) = s[1]
  OBVIOUS
<1>4. QED
  BY <1>1, <1>2, <1>3

LEMMA ServeFlight ==
  ASSUME Types, First, NEW c \in Conns, Serve(c)
  PROVE  InFlight'
<1>1. 1 \in Conns /\ InFlight /\ UNCHANGED <<sock, pending, reader>>
  BY ConstantsAssumption DEF Conns, First, Serve, fields
<1>2. CASE c # 1
  <2>1. conn'[1] = conn[1]
    BY <1>1, <1>2 DEF Serve, Types
  <2>2. QED
    BY <1>1, <2>1, FlightKept
<1>3. CASE c = 1
  <2> DEFINE m == Head(conn[1].out)
             t == m.by
             s == conn[1].in
             f == ReplyTo(t)
  <2>1. conn[1].out \in Seq(Order) /\ conn[1].out # <<>> /\ s \in Seq(StreamPart)
    BY <1>1, <1>3 DEF Serve, Types, Connection
  <2>2. /\ conn'[1].out = Tail(conn[1].out)
        /\ conn'[1].in = IF conn[1].open THEN s \o Frame(f) ELSE s
    BY <1>1, <1>3 DEF Serve, Types, Connection
  <2>3. m \in Order
    BY <2>1
  <2>4. f \in Message /\ PayloadReply(f) /\ f.of = t
    BY <2>3 DEF ReplyTo, Message, PayloadReply, Order
  <2>5. Len(conn[1].out) = 1 => conn[1].out[1] = m /\ conn'[1].out = <<>>
    BY <2>1, <2>2, Single
  <2> HIDE DEF m, s, f
  <2>6. NoReply(s) => NoReply(conn'[1].in) \/ OneReply(conn'[1].in, t)
    BY <2>1, <2>2, <2>4, FrameIn
  <2> HIDE DEF t
  <2>7. ASSUME NEW u, Underway(u)
        PROVE  Underway(u)'
    <3>1. Len(conn[1].out) = 1 /\ conn[1].out[1].by = u /\ NoReply(s) /\ reader[1].pc # "reply"
      BY <2>1, <2>7 DEF Underway, s
    <3>2. u = t
      BY <2>5, <3>1 DEF t
    <3>3. QED
      BY <1>1, <2>5, <2>6, <3>1, <3>2 DEF Underway
  <2>8. ~Quiet
    BY <2>1 DEF Quiet
  <2>9. QED
    BY <1>1, <2>7, <2>8 DEF InFlight
<1>4. QED
  BY <1>2, <1>3

LEMMA SendFlight ==
  ASSUME Types, First, NEW t \in Tasks, Send(t)
  PROVE  InFlight'
<1>1. 1 \in Conns /\ InFlight /\ UNCHANGED <<sock, reader>> /\ sock = 1
  BY ConstantsAssumption DEF Conns, First, Send, Free, Types, Linked, daemon
<1>2. pending = None /\ pending' = t /\ t # None
  BY ConstantsAssumption DEF Send, Free
<1> DEFINE o == Asked(t)
           out == conn[1].out
<1>3. conn'[1].out = Append(out, o) /\ conn'[1].in = conn[1].in
  BY <1>1 DEF Send, Types, Connection
<1>4. o.by = t
  BY DEF Asked
<1>5. Quiet => Len(Append(out, o)) = 1 /\ Append(out, o)[1] = o
  BY DEF Quiet
<1> HIDE DEF o, out
<1>6. Quiet => Underway(t)'
  BY <1>1, <1>3, <1>4, <1>5 DEF Quiet, Underway
<1>7. QED
  BY <1>1, <1>2, <1>6 DEF InFlight

LEMMA ChangeFlight ==
  ASSUME Types, First, Change
  PROVE  InFlight'
<1>1. 1 \in Conns /\ InFlight /\ UNCHANGED <<sock, pending, reader>>
  BY ConstantsAssumption DEF Conns, First, Change, fields
<1> DEFINE s == conn[1].in
<1>2. s \in Seq(StreamPart)
  BY <1>1 DEF Types, Connection
<1>3. /\ conn'[1].out = conn[1].out
      /\ conn'[1].in = s \/ conn'[1].in = s \o Frame(EventMsg)
  BY <1>1 DEF Change, Types, Connection
<1>4. ~PayloadReply(EventMsg)
  BY DEF PayloadReply, EventMsg
<1> HIDE DEF s
<1>5. /\ NoReply(s) => NoReply(conn'[1].in)
      /\ \A t : OneReply(s, t) => OneReply(conn'[1].in, t)
  <2>1. /\ NoReply(s) => NoReply(s \o Frame(EventMsg))
        /\ \A t : OneReply(s, t) => OneReply(s \o Frame(EventMsg), t)
    BY <1>2, <1>4, FrameIn, Zero
  <2> HIDE DEF s
  <2>2. QED
    BY <1>3, <2>1, Zenon
<1>6. Quiet => Quiet'
  BY <1>1, <1>3, <1>5 DEF Quiet, s
<1>7. ASSUME NEW t, Underway(t)
      PROVE  Underway(t)'
  BY <1>1, <1>3, <1>5, <1>7 DEF Underway, s
<1>8. QED
  BY <1>1, <1>6, <1>7 DEF InFlight

LEMMA FlightStep ==
  ASSUME Types, First, [Next]_vars, ~Connect
  PROVE  InFlight'
<1>1. InFlight
  BY DEF First
<1> USE DEF fields, daemon
<1>2. CASE UNCHANGED <<sock, pending, conn, reader>>
  BY <1>1, <1>2, FlightKept
<1>3. CASE Disconnect
  BY <1>3 DEF Disconnect, HangUp, InFlight
<1>4. ASSUME NEW t \in Tasks, TaskStep(t)
      PROVE  InFlight'
  BY <1>2, <1>4, SendFlight DEF TaskStep, Refused, SendFails, Sample, ResumeBlock
<1>5. CASE Registered \/ GoesOn \/ DaemonDies \/ UNCHANGED vars
  BY <1>2, <1>5 DEF Registered, GoesOn, DaemonDies, vars
<1>6. ASSUME NEW t \in EventTasks, EventTaskEnds(t)
      PROVE  InFlight'
  BY <1>2, <1>6 DEF EventTaskEnds
<1>7. QED
  BY <1>3, <1>4, <1>5, <1>6, ReaderFlight, ServeFlight, ChangeFlight DEF Next

\* "async/await and resolve when the matching reply arrives"
\* (OmabarClient.swift:58): on one connection, the reply a request returns is
\* its own, whatever events and failures come between.
THEOREM MatchingReply == Spec => []OwnReplyOneConnection
<1> DEFINE FirstInv == made = 1 => First
<1>1. Init => FirstInv
  BY FirstInit
<1>2. Types /\ FirstInv /\ [Next]_vars => FirstInv'
  BY StillFirst, LinkedStep, ReadersStep, OwnStep, FlightStep DEF First
<1>3. FirstInv => OwnReplyOneConnection
  BY DEF First, OwnReplyOneConnection
<1> HIDE DEF FirstInv
<1>4. QED
  BY <1>1, <1>2, <1>3, TypesInit, TypesStep, PTL DEF Spec
=============================================================================
