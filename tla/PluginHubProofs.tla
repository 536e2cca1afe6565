--------------------------- MODULE PluginHubProofs ---------------------------
(***************************************************************************)
(* The plugin table under its unlocked uses, for any number of connections *)
(* and descriptors, whatever names the clients register: the indices that  *)
(* workers and the main thread act on may be stale, and still the table    *)
(* stays within its limit, and a name is listed once unless a worker has   *)
(* removed an entry while another was being appended.  A number is closed  *)
(* under the worker that reads it only by a registration from another      *)
(* number; while none has closed it, a client's replies are the replies to *)
(* its requests, in order and with none left out.                          *)
(***************************************************************************)
EXTENDS PluginHub, WellFoundedInduction, TLAPS

-----------------------------------------------------------------------------
(* The first index of a set *)

LEMMA Minimum ==
  ASSUME NEW S, S \subseteq Nat, S # {}
  PROVE  Min(S) \in S /\ \A y \in S : Min(S) <= y
<1>1. PICK x \in S : \A y \in S : ~ (<<y, x>> \in OpToRel(<, Nat))
  BY NatLessThanWellFounded, WFMin, Zenon
<1>2. \A y \in S : ~ (y < x)
  BY <1>1 DEF OpToRel
<1>3. \A y \in S : x <= y
  BY <1>2
<1>4. QED
  BY <1>3 DEF Min

-----------------------------------------------------------------------------
(* Types, who waits and what the main thread is at *)

\* A message as clients send it.
Sendable ==
  {m \in Message : /\ m.kind = "register" => m.name # Nobody
                   /\ m.kind \in {"subscribe", "trigger"} => m.ev # Nobody}

WorkerPlaces == {"none", "reading", "waiting", "closing", "search", "remove", "done"}
MainPlaces ==
  {"idle", "existing", "takeover", "append", "refind", "mark", "notify", "send", "reply",
   "health", "drop"}
MainStates ==
  [at : MainPlaces, i : Nat, k : Nat, fd : Fds \cup {Free}, ev : Events \cup {Nobody},
   who : Conns \cup {Nobody}, name : Names \cup {Nobody}]

Types ==
  /\ client \in [Conns -> {"away", "queued", "open", "gone"}]
  /\ sent \in [Conns -> Nat] /\ \A c \in Conns : sent[c] <= MaxMsgs[c]
  /\ inbox \in [Conns -> Seq(Sendable)]
  /\ outbox \in [Conns -> Seq({"event", "reply"})]
  /\ file \in [Fds -> Conns \cup {Free}]
  /\ taken \subseteq Fds
  /\ pc \in [Conns -> WorkerPlaces]
  /\ wfd \in [Conns -> Fds \cup {Free}]
  /\ req \in [Conns -> Sendable \cup {Nobody}]
  /\ found \in [Conns -> Nat]
  /\ main \in MainStates
  /\ fired \in 0 .. MaxFired
  /\ asked \in [Conns -> Seq(Conns \X Nat)]
  /\ answered \in [Conns -> Seq(Conns \X Nat)]
  /\ subs \in [Conns -> SUBSET Events]
  /\ alive \in BOOLEAN

TableOK ==
  /\ table \in [1 .. PluginMax -> Plugin]
  /\ count \in 0 .. PluginMax
  /\ raced \in BOOLEAN

\* A worker has a number once it runs, a message while it waits and an index
\* when it has found one; the ones that wait are in the queue once.
Waits ==
  /\ mainq \in Seq(Conns)
  /\ \A i \in DOMAIN mainq : pc[mainq[i]] = "waiting"
  /\ \A i, j \in DOMAIN mainq : mainq[i] = mainq[j] => i = j
  /\ \A c \in Conns :
       /\ pc[c] # "none" => wfd[c] \in Fds
       /\ pc[c] = "waiting" => req[c] \in Sendable
       /\ pc[c] = "remove" => found[c] # 0

\* In plugin_register and plugin_subscribe the main thread has somebody's number,
\* where it is about to write it has a slot, and an event if it is to subscribe.
Calls == {"existing", "takeover", "append", "refind", "mark"}
Fits(m) ==
  /\ m.at \in Calls => m.who # Nobody /\ m.fd \in Fds
  /\ m.at = "reply" => m.who # Nobody
  /\ m.at = "idle" => m.who = Nobody
  /\ m.at \in {"notify", "health", "drop"} => m.i # 0
  /\ m.at = "drop" => m.k # 0
  /\ m.at \in {"existing", "takeover", "append", "mark", "send"} => m.i \in 1 .. PluginMax
  /\ m.at \in {"refind", "mark"} => m.ev \in Events

\* The main thread serves the head of the queue until it has replied; the slot it
\* is about to append to lies beyond the end of the table.
MainOK ==
  /\ Fits(main)
  /\ main.who # Nobody => mainq # <<>> /\ main.who = Head(mainq)
  /\ main.at = "append" => count < main.i

Inv == Types /\ Waits /\ MainOK /\ TableOK

LEMMA Initially == Init => Inv
<1> SUFFICES ASSUME Init
             PROVE  Inv
  OBVIOUS
<1>1. \A S : <<>> \in Seq(S)
  OBVIOUS
<1>2. main \in MainStates
  BY DEF Init, Idle, MainStates, MainPlaces
<1>3. Types
  BY <1>1, <1>2, ConstantsAssumption DEF Init, Types, WorkerPlaces
<1>4. Waits
  BY <1>1 DEF Init, Waits
<1>5. MainOK
  BY DEF Init, MainOK, Fits, Calls, Idle
<1>6. TableOK
  <2>1. Unused \in Plugin
    BY DEF Unused, Plugin
  <2>2. table = [i \in 1 .. PluginMax |-> Unused] /\ count = 0 /\ raced = FALSE
    BY DEF Init
  <2>3. table \in [1 .. PluginMax -> Plugin]
    BY <2>1, <2>2
  <2>4. count \in 0 .. PluginMax
    BY <2>2, ConstantsAssumption
  <2>5. raced \in BOOLEAN
    BY <2>2, Zenon
  <2>6. QED
    BY <2>3, <2>4, <2>5 DEF TableOK
<1>7. QED
  BY <1>3, <1>4, <1>5, <1>6 DEF Inv

LEMMA InvTypes == Inv => TypeOK
<1> SUFFICES ASSUME Inv
             PROVE  TypeOK
  OBVIOUS
<1>1. Sendable \subseteq Message
  BY DEF Sendable
<1>2. \A s \in Seq(Sendable) : s \in Seq(Message)
  BY <1>1
<1>3. inbox \in [Conns -> Seq(Message)]
  BY <1>2 DEF Inv, Types
<1>4. req \in [Conns -> Message \cup {Nobody}]
  BY <1>1 DEF Inv, Types
<1>5. QED
  BY <1>3, <1>4 DEF Inv, Types, Waits, TableOK, TypeOK, WorkerPlaces, MainStates, MainPlaces

\* The one the main thread serves, and its message.
LEMMA Served1 ==
  ASSUME Inv, mainq # <<>>
  PROVE  /\ Head(mainq) \in Conns /\ pc[Head(mainq)] = "waiting"
         /\ wfd[Head(mainq)] \in Fds /\ req[Head(mainq)] \in Sendable
         /\ Tail(mainq) \in Seq(Conns)
         /\ \A i \in DOMAIN Tail(mainq) :
              pc[Tail(mainq)[i]] = "waiting" /\ Tail(mainq)[i] # Head(mainq)
         /\ \A i, j \in DOMAIN Tail(mainq) : Tail(mainq)[i] = Tail(mainq)[j] => i = j
<1> DEFINE q == Tail(mainq)
           n == Len(mainq)
<1>1. /\ mainq \in Seq(Conns) /\ n \in Nat \ {0} /\ DOMAIN mainq = 1 .. n
      /\ Head(mainq) = mainq[1]
  BY DEF Inv, Waits
<1>2. /\ q \in Seq(Conns) /\ DOMAIN q = 1 .. n - 1
      /\ \A i \in 1 .. n - 1 : q[i] = mainq[i + 1]
  BY <1>1
<1> HIDE DEF q, n
<1>3. 1 \in 1 .. n /\ \A i \in 1 .. n - 1 : i + 1 \in 1 .. n /\ i + 1 # 1
  BY <1>1
<1>4. ASSUME NEW i \in 1 .. n - 1
      PROVE  pc[q[i]] = "waiting" /\ q[i] # mainq[1]
  <2>1. q[i] = mainq[i + 1] /\ i + 1 \in DOMAIN mainq /\ 1 \in DOMAIN mainq /\ i + 1 # 1
    BY <1>1, <1>2, <1>3
  <2>2. QED
    BY <2>1, Zenon DEF Inv, Waits
<1>5. ASSUME NEW i \in 1 .. n - 1, NEW j \in 1 .. n - 1, q[i] = q[j]
      PROVE  i = j
  <2>1. /\ q[i] = mainq[i + 1] /\ q[j] = mainq[j + 1]
        /\ i + 1 \in DOMAIN mainq /\ j + 1 \in DOMAIN mainq
    BY <1>1, <1>2, <1>3
  <2>2. \A a, b \in DOMAIN mainq : mainq[a] = mainq[b] => a = b
    BY DEF Inv, Waits
  <2>3. i + 1 = j + 1
    BY <1>5, <2>1, <2>2, Zenon
  <2>4. QED
    BY <1>1, <2>3
<1>6. mainq[1] \in Conns /\ pc[mainq[1]] = "waiting"
  BY <1>1, <1>3 DEF Inv, Waits
<1>7. wfd[mainq[1]] \in Fds /\ req[mainq[1]] \in Sendable
  BY <1>6 DEF Inv, Waits
<1>8. QED
  BY <1>1, <1>2, <1>4, <1>5, <1>6, <1>7 DEF q

-----------------------------------------------------------------------------
(* The clients *)

LEMMA ConnectStep ==
  ASSUME Inv, NEW c \in Conns, Connect(c)
  PROVE  Inv'
<1>1. /\ client' = [client EXCEPT ![c] = "queued"]
      /\ UNCHANGED <<sent, inbox, asked, outbox, answered, file, taken, pc, wfd, req,
                     found, table, count, raced, mainq, main, fired, subs, alive>>
  BY DEF Connect, writes, workers, numbers, plugins
<1>2. Types'
  BY <1>1 DEF Inv, Types
<1>3. QED
  BY <1>1, <1>2 DEF Inv, Waits, MainOK, Fits, TableOK

LEMMA SendStep ==
  ASSUME Inv, NEW c \in Conns, Send(c)
  PROVE  Inv'
<1>1. PICK m \in Request(c) :
        /\ inbox' = [inbox EXCEPT ![c] = Append(@, m)]
        /\ asked' = IF m.kind \in {"malformed", "badframe"}
                      THEN asked ELSE [asked EXCEPT ![c] = Append(@, Id(m))]
  BY Zenon DEF Send
<1>2. /\ sent[c] < MaxMsgs[c] /\ sent' = [sent EXCEPT ![c] = @ + 1]
      /\ UNCHANGED <<client, outbox, answered, file, taken, pc, wfd, req, found, table,
                     count, raced, mainq, main, fired, subs, alive>>
  BY DEF Send, writes, workers, numbers, plugins
<1>3. sent[c] \in Nat /\ MaxMsgs[c] \in Nat
  BY ConstantsAssumption DEF Inv, Types
<1>4. m.kind \in Kinds /\ Id(m) \in Conns \X Nat /\ m \in Sendable
  <2>1. NamesOf[c] \subseteq Names
    BY DEF Names
  <2>2. QED
    BY <1>1, <1>3, <2>1, ConstantsAssumption DEF Request, Sendable, Message, Id
<1>5. inbox' \in [Conns -> Seq(Sendable)]
  <2>1. inbox \in [Conns -> Seq(Sendable)] /\ inbox[c] \in Seq(Sendable)
    BY DEF Inv, Types
  <2>2. Append(inbox[c], m) \in Seq(Sendable)
    BY <1>4, <2>1
  <2>3. QED
    BY <1>1, <2>1, <2>2
<1>6. asked' \in [Conns -> Seq(Conns \X Nat)]
  <2>1. asked \in [Conns -> Seq(Conns \X Nat)] /\ asked[c] \in Seq(Conns \X Nat)
    BY DEF Inv, Types
  <2>2. Append(asked[c], Id(m)) \in Seq(Conns \X Nat)
    BY <1>4, <2>1
  <2>3. [asked EXCEPT ![c] = Append(@, Id(m))] \in [Conns -> Seq(Conns \X Nat)]
    BY <2>1, <2>2
  <2>4. QED
    BY <1>1, <2>1, <2>3
<1>7. sent' \in [Conns -> Nat] /\ \A d \in Conns : sent'[d] <= MaxMsgs[d]
  BY <1>2, <1>3 DEF Inv, Types
<1>8. Types'
  BY <1>2, <1>5, <1>6, <1>7 DEF Inv, Types
<1>9. QED
  BY <1>2, <1>8 DEF Inv, Waits, MainOK, Fits, TableOK

LEMMA ReceiveStep ==
  ASSUME Inv, NEW c \in Conns, Receive(c) \/ Leave(c)
  PROVE  Inv'
<1>1. UNCHANGED <<sent, inbox, asked, answered, file, taken, pc, wfd, req, found, table,
                  count, raced, mainq, main, fired, subs, alive>>
  BY DEF Receive, Leave, clients, workers, numbers, plugins
<1>2. outbox \in [Conns -> Seq({"event", "reply"})] /\ outbox[c] \in Seq({"event", "reply"})
  BY DEF Inv, Types
<1>3. client' \in [Conns -> {"away", "queued", "open", "gone"}]
  BY DEF Receive, Leave, clients, Inv, Types
<1>4. outbox' \in [Conns -> Seq({"event", "reply"})]
  <2>1. CASE Receive(c)
    <3>1. outbox[c] # <<>> /\ outbox' = [outbox EXCEPT ![c] = Tail(@)]
      BY <2>1 DEF Receive
    <3>2. Tail(outbox[c]) \in Seq({"event", "reply"})
      BY <1>2, <3>1
    <3>3. QED
      BY <1>2, <3>1, <3>2
  <2>2. CASE Leave(c)
    <3>1. <<>> \in Seq({"event", "reply"})
      OBVIOUS
    <3>2. QED
      BY <1>2, <2>2, <3>1 DEF Leave
  <2>3. QED
    BY <2>1, <2>2
<1>5. Types'
  BY <1>1, <1>3, <1>4 DEF Inv, Types
<1>6. QED
  BY <1>1, <1>5 DEF Inv, Waits, MainOK, Fits, TableOK

-----------------------------------------------------------------------------
(* The workers *)

LEMMA AcceptStep ==
  ASSUME Inv, NEW c \in Conns, Accept(c)
  PROVE  Inv'
<1>1. PICK f \in Fds : /\ file' = [file EXCEPT ![f] = c]
                       /\ wfd' = [wfd EXCEPT ![c] = f]
  BY Zenon DEF Accept
<1>2. /\ pc[c] = "none" /\ pc' = [pc EXCEPT ![c] = "reading"]
      /\ client' = [client EXCEPT ![c] = IF @ = "gone" THEN "gone" ELSE "open"]
      /\ UNCHANGED <<sent, inbox, asked, outbox, answered, taken, req, found, table, count,
                     raced, mainq, main, fired, subs, alive>>
  BY DEF Accept, writes, plugins
<1>3. Types'
  BY <1>1, <1>2 DEF Inv, Types, WorkerPlaces
<1>4. Waits'
  BY <1>1, <1>2 DEF Inv, Types, Waits
<1>5. MainOK' /\ TableOK'
  BY <1>2 DEF Inv, MainOK, Fits, TableOK
<1>6. QED
  BY <1>3, <1>4, <1>5 DEF Inv

\* A worker that leaves its place for one where it neither waits nor removes.
LEMMA MovedOn ==
  ASSUME Inv, NEW c \in Conns, pc[c] # "none", pc[c] # "waiting",
         NEW place \in {"closing", "search", "done"}, pc' = [pc EXCEPT ![c] = place],
         UNCHANGED <<wfd, mainq>>,
         \A d \in Conns : d # c => found'[d] = found[d] /\ req'[d] = req[d]
  PROVE  Waits'
<1>1. /\ mainq \in Seq(Conns)
      /\ \A i \in DOMAIN mainq : pc[mainq[i]] = "waiting"
      /\ \A i, j \in DOMAIN mainq : mainq[i] = mainq[j] => i = j
      /\ \A d \in Conns : /\ pc[d] # "none" => wfd[d] \in Fds
                          /\ pc[d] = "waiting" => req[d] \in Sendable
                          /\ pc[d] = "remove" => found[d] # 0
  BY DEF Inv, Waits
<1>2. mainq' = mainq /\ wfd' = wfd /\ pc \in [Conns -> WorkerPlaces]
  BY DEF Inv, Types
<1>3. \A i \in DOMAIN mainq : mainq[i] \in Conns /\ mainq[i] # c
  BY <1>1
<1>4. \A i \in DOMAIN mainq : pc'[mainq[i]] = "waiting"
  BY <1>1, <1>2, <1>3
<1>5. \A d \in Conns : d # c => pc'[d] = pc[d]
  BY <1>2
<1>6. pc'[c] = place /\ wfd[c] \in Fds
  BY <1>1, <1>2
<1>7. ASSUME NEW d \in Conns
      PROVE  /\ pc'[d] # "none" => wfd'[d] \in Fds
             /\ pc'[d] = "waiting" => req'[d] \in Sendable
             /\ pc'[d] = "remove" => found'[d] # 0
  <2>1. CASE d = c
    BY <1>2, <1>6, <2>1
  <2>2. CASE d # c
    BY <1>1, <1>2, <1>5, <2>2
  <2>3. QED
    BY <2>1, <2>2
<1>8. QED
  BY <1>1, <1>2, <1>4, <1>7 DEF Waits

\* A worker whose message waits for the main thread.
LEMMA PostedOK ==
  ASSUME Inv, NEW c \in Conns, pc[c] = "reading", Posted(c), req'[c] \in Sendable,
         \A d \in Conns : d # c => req'[d] = req[d], UNCHANGED <<wfd, found>>
  PROVE  /\ Waits'
         /\ mainq # <<>> => Head(mainq') = Head(mainq) /\ mainq' # <<>>
<1> DEFINE n == Len(mainq)
<1>1. /\ mainq \in Seq(Conns) /\ n \in Nat /\ DOMAIN mainq = 1 .. n
  BY DEF Inv, Waits
<1>2. /\ mainq' \in Seq(Conns) /\ DOMAIN mainq' = 1 .. n + 1
      /\ mainq'[n + 1] = c /\ \A i \in 1 .. n : mainq'[i] = mainq[i]
  BY <1>1 DEF Posted
<1>3. \A i \in 1 .. n : mainq[i] \in Conns /\ pc[mainq[i]] = "waiting"
  BY <1>1 DEF Inv, Waits
<1>4. \A i, j \in 1 .. n : mainq[i] = mainq[j] => i = j
  BY <1>1 DEF Inv, Waits
<1>5. mainq # <<>> => Head(mainq') = Head(mainq) /\ mainq' # <<>>
  BY <1>1 DEF Posted
<1>6. pc' = [pc EXCEPT ![c] = "waiting"] /\ pc \in [Conns -> WorkerPlaces]
  BY DEF Posted, Inv, Types
<1> HIDE DEF n
<1>7. \A i \in 1 .. n + 1 : i \in 1 .. n \/ i = n + 1
  BY <1>1
<1>8. \A i \in DOMAIN mainq' : pc'[mainq'[i]] = "waiting"
  BY <1>2, <1>3, <1>6, <1>7
<1>9. \A i, j \in DOMAIN mainq' : mainq'[i] = mainq'[j] => i = j
  BY <1>2, <1>3, <1>4, <1>7
<1>10. \A d \in Conns : /\ pc'[d] # "none" => wfd'[d] \in Fds
                        /\ pc'[d] = "waiting" => req'[d] \in Sendable
                        /\ pc'[d] = "remove" => found'[d] # 0
  BY <1>6 DEF Inv, Waits
<1>11. QED
  BY <1>2, <1>5, <1>8, <1>9, <1>10 DEF Waits

LEMMA ReadStep ==
  ASSUME Inv, NEW c \in Conns, Read(c)
  PROVE  Inv'
<1>1. PICK d \in Conns :
        /\ inbox[d] # <<>> /\ inbox' = [inbox EXCEPT ![d] = Tail(@)]
        /\ req' = [req EXCEPT ![c] = Head(inbox[d])]
        /\ IF Head(inbox[d]).kind = "badframe"
             THEN /\ pc' = [pc EXCEPT ![c] = "closing"]
                  /\ UNCHANGED mainq
             ELSE Posted(c)
  BY Zenon DEF Read
<1>2. /\ pc[c] = "reading"
      /\ UNCHANGED <<client, sent, asked, outbox, answered, file, taken, wfd, found, table,
                     count, raced, main, fired, subs, alive>>
  BY DEF Read, writes, numbers, plugins
<1>3. inbox \in [Conns -> Seq(Sendable)] /\ inbox[d] \in Seq(Sendable)
  BY DEF Inv, Types
<1>4. Head(inbox[d]) \in Sendable /\ Tail(inbox[d]) \in Seq(Sendable)
  BY <1>1, <1>3
<1>5. /\ inbox' \in [Conns -> Seq(Sendable)] /\ req' \in [Conns -> Sendable \cup {Nobody}]
      /\ req'[c] \in Sendable /\ \A e \in Conns : e # c => req'[e] = req[e]
  BY <1>1, <1>3, <1>4 DEF Inv, Types
<1>6. CASE Head(inbox[d]).kind = "badframe"
  <2>1. pc' = [pc EXCEPT ![c] = "closing"] /\ mainq' = mainq
    BY <1>1, <1>6
  <2>2. Types'
    BY <1>2, <1>5, <2>1 DEF Inv, Types, WorkerPlaces
  <2>3. Waits'
    BY <1>2, <1>5, <2>1, MovedOn
  <2>4. QED
    BY <1>2, <2>1, <2>2, <2>3 DEF Inv, MainOK, Fits, TableOK
<1>7. CASE Head(inbox[d]).kind # "badframe"
  <2>1. Posted(c)
    BY <1>1, <1>7
  <2>2. Types'
    BY <1>2, <1>5, <2>1 DEF Inv, Types, Posted, WorkerPlaces
  <2>3. Waits' /\ (mainq # <<>> => Head(mainq') = Head(mainq) /\ mainq' # <<>>)
    BY <1>2, <1>5, <2>1, PostedOK
  <2>4. QED
    BY <1>2, <2>2, <2>3 DEF Inv, MainOK, Fits, TableOK
<1>8. QED
  BY <1>6, <1>7

LEMMA ReadFailsStep ==
  ASSUME Inv, NEW c \in Conns, ReadFails(c) \/ Close(c)
  PROVE  Inv'
<1>1. /\ pc[c] # "none" /\ pc[c] # "waiting"
      /\ UNCHANGED <<client, sent, inbox, asked, outbox, answered, taken, wfd, req, found,
                     table, count, raced, mainq, main, fired, subs, alive>>
  BY DEF ReadFails, Close, clients, writes, numbers, plugins
<1>2. PICK place \in {"closing", "search"} : pc' = [pc EXCEPT ![c] = place]
  BY DEF ReadFails, Close
<1>3. file' \in [Fds -> Conns \cup {Free}]
  BY DEF ReadFails, Close, numbers, Inv, Types
<1>4. Types'
  BY <1>1, <1>2, <1>3 DEF Inv, Types, WorkerPlaces
<1>5. Waits'
  BY <1>1, <1>2, MovedOn
<1>6. QED
  BY <1>1, <1>4, <1>5 DEF Inv, MainOK, Fits, TableOK

\* The entry a search finds.
LEMMA First ==
  ASSUME Inv, NEW S, S \subseteq 1 .. count, S # {}
  PROVE  Min(S) \in S /\ Min(S) \in 1 .. count /\ Min(S) \in 1 .. PluginMax
<1>1. count \in Nat /\ count <= PluginMax /\ PluginMax \in Nat
  BY ConstantsAssumption DEF Inv, TableOK
<1>2. S \subseteq Nat
  BY <1>1
<1>3. Min(S) \in S
  BY <1>2, Minimum
<1>4. Min(S) \in 1 .. count
  BY <1>3
<1>5. QED
  BY <1>1, <1>3, <1>4

LEMMA SearchStep ==
  ASSUME Inv, NEW c \in Conns, Search(c)
  PROVE  Inv'
<1>1. /\ pc[c] = "search"
      /\ UNCHANGED <<client, sent, inbox, asked, outbox, answered, file, taken, wfd, req,
                     table, count, raced, mainq, main, fired, subs, alive>>
  BY DEF Search, clients, writes, numbers, plugins
<1>2. CASE Holders(wfd[c]) = {}
  <2>1. pc' = [pc EXCEPT ![c] = "done"] /\ found' = found
    BY <1>2 DEF Search
  <2>2. Types'
    BY <1>1, <2>1 DEF Inv, Types, WorkerPlaces
  <2>3. Waits'
    BY <1>1, <2>1, MovedOn
  <2>4. QED
    BY <1>1, <2>2, <2>3 DEF Inv, MainOK, Fits, TableOK
<1>3. CASE Holders(wfd[c]) # {}
  <2> DEFINE k == Min(Holders(wfd[c]))
  <2>1. pc' = [pc EXCEPT ![c] = "remove"] /\ found' = [found EXCEPT ![c] = k]
    BY <1>3 DEF Search
  <2>2. k \in Nat \ {0}
    BY <1>3, First, ConstantsAssumption DEF Holders
  <2> HIDE DEF k
  <2>3. Types'
    BY <1>1, <2>1, <2>2 DEF Inv, Types, WorkerPlaces
  <2>4. Waits'
    BY <1>1, <2>1, <2>2 DEF Inv, Types, Waits
  <2>5. QED
    BY <1>1, <2>3, <2>4 DEF Inv, MainOK, Fits, TableOK
<1>4. QED
  BY <1>2, <1>3

\* A removal keeps the order of the others, and nothing new comes in.
LEMMA Removal ==
  ASSUME Inv, NEW i \in 1 .. count, RemoveEntry(i)
  PROVE  /\ table' \in [1 .. PluginMax -> Plugin]
         /\ count' = count - 1 /\ count' \in 0 .. PluginMax
         /\ \A j \in 1 .. count' : table'[j] = IF i <= j THEN table[j + 1] ELSE table[j]
<1>1. /\ count \in Nat /\ count <= PluginMax /\ PluginMax \in Nat
      /\ table \in [1 .. PluginMax -> Plugin]
  BY ConstantsAssumption DEF Inv, TableOK
<1>2. /\ count' = count - 1
      /\ table' = [j \in 1 .. PluginMax |->
                     IF i <= j /\ j < count THEN table[j + 1] ELSE table[j]]
  BY DEF RemoveEntry
<1>3. \A j \in 1 .. PluginMax : j < count => j + 1 \in 1 .. PluginMax
  BY <1>1
<1>4. table' \in [1 .. PluginMax -> Plugin]
  BY <1>1, <1>2, <1>3
<1>5. \A j \in 1 .. count' : j \in 1 .. PluginMax /\ j < count
  BY <1>1, <1>2
<1>6. QED
  BY <1>1, <1>2, <1>4, <1>5

LEMMA UnregisterStep ==
  ASSUME Inv, NEW c \in Conns, Unregister(c)
  PROVE  Inv'
<1>1. /\ pc[c] = "remove" /\ pc' = [pc EXCEPT ![c] = "done"]
      /\ found' = [found EXCEPT ![c] = 0]
      /\ UNCHANGED <<client, sent, inbox, asked, outbox, answered, file, taken, wfd, req,
                     mainq, main, fired, subs>>
  BY DEF Unregister, clients, writes, numbers
<1>2. alive' \in BOOLEAN
  BY DEF Unregister, Inv, Types
<1>3. Types'
  BY <1>1, <1>2 DEF Inv, Types, WorkerPlaces
<1>4. Waits'
  BY <1>1, MovedOn DEF Inv, Types
<1>5. found[c] \in Nat \ {0} /\ count \in Nat
  BY <1>1, ConstantsAssumption DEF Inv, Types, Waits, TableOK
<1>6. CASE found[c] <= count
  <2>1. RemoveEntry(found[c]) /\ raced' = (raced \/ main.at = "append")
    BY <1>6 DEF Unregister, Removable
  <2>2. PICK i \in 1 .. count : i = found[c]
    BY <1>5, <1>6
  <2>3. RemoveEntry(i)
    BY <2>1, <2>2
  <2>4. /\ table' \in [1 .. PluginMax -> Plugin]
        /\ count' = count - 1 /\ count' \in 0 .. PluginMax
    BY <2>3, Removal
  <2>5. TableOK'
    BY <2>1, <2>4 DEF Inv, TableOK
  <2>6. MainOK'
    <3>1. main \in MainStates /\ MainOK
      BY DEF Inv, Types
    <3>2. main.i \in Nat /\ (main.at = "append" => count' < main.i)
      BY <1>5, <2>4, <3>1 DEF MainOK, MainStates
    <3>3. QED
      BY <1>1, <3>1, <3>2 DEF MainOK, Fits
  <2>7. QED
    BY <1>3, <1>4, <2>5, <2>6 DEF Inv
<1>7. CASE ~ (found[c] <= count)
  <2>1. UNCHANGED <<table, count, raced>>
    BY <1>7 DEF Unregister, Removable, plugins
  <2>2. QED
    BY <1>1, <1>3, <1>4, <2>1 DEF Inv, MainOK, Fits, TableOK
<1>8. QED
  BY <1>6, <1>7

-----------------------------------------------------------------------------
(* The main thread *)

\* The worker that was served goes on reading; the others keep their turn.
LEMMA ServedGoesOn ==
  ASSUME Inv, mainq # <<>>, mainq' = Tail(mainq),
         pc' = [pc EXCEPT ![Head(mainq)] = "reading"], UNCHANGED <<wfd, req, found>>
  PROVE  Waits'
<1> DEFINE q == Tail(mainq)
           a == Head(mainq)
<1>1. /\ a \in Conns /\ pc[a] = "waiting" /\ wfd[a] \in Fds /\ q \in Seq(Conns)
      /\ \A i \in DOMAIN q : pc[q[i]] = "waiting" /\ q[i] # a
      /\ \A i, j \in DOMAIN q : q[i] = q[j] => i = j
  BY Served1
<1>2. \A i \in DOMAIN q : q[i] \in Conns
  BY <1>1
<1>3. mainq' = q /\ pc' = [pc EXCEPT ![a] = "reading"] /\ pc \in [Conns -> WorkerPlaces]
  BY DEF Inv, Types
<1>4. \A c \in Conns : /\ pc[c] # "none" => wfd[c] \in Fds
                       /\ pc[c] = "waiting" => req[c] \in Sendable
                       /\ pc[c] = "remove" => found[c] # 0
  BY DEF Inv, Waits
<1> HIDE DEF q, a
<1>5. \A i \in DOMAIN mainq' : pc'[mainq'[i]] = "waiting"
  BY <1>1, <1>2, <1>3
<1>6. \A c \in Conns : /\ pc'[c] # "none" => wfd'[c] \in Fds
                       /\ pc'[c] = "waiting" => req'[c] \in Sendable
                       /\ pc'[c] = "remove" => found'[c] # 0
  BY <1>1, <1>3, <1>4
<1>7. mainq' \in Seq(Conns)
  BY <1>1, <1>3
<1>8. \A i, j \in DOMAIN mainq' : mainq'[i] = mainq'[j] => i = j
  BY <1>1, <1>3
<1>9. QED
  BY <1>5, <1>6, <1>7, <1>8 DEF Waits

LEMMA MalformedStep ==
  ASSUME Inv, HandleMalformed
  PROVE  Inv'
<1>1. /\ main.at = "idle" /\ mainq # <<>> /\ mainq' = Tail(mainq)
      /\ pc' = [pc EXCEPT ![Head(mainq)] = "reading"]
      /\ UNCHANGED <<client, sent, inbox, asked, outbox, answered, file, taken, wfd, req,
                     found, table, count, raced, main, fired, subs, alive>>
  BY DEF HandleMalformed, Ready, Asker, clients, writes, numbers, plugins
<1>2. Waits'
  BY <1>1, ServedGoesOn
<1>3. Types'
  BY <1>1 DEF Inv, Types, WorkerPlaces
<1>4. main.who = Nobody
  BY <1>1 DEF Inv, MainOK, Fits
<1>5. MainOK' /\ TableOK'
  BY <1>1, <1>4 DEF Inv, MainOK, Fits, TableOK
<1>6. QED
  BY <1>2, <1>3, <1>5 DEF Inv

\* What the main thread goes to when it takes a message up.
LEMMA ReplyState ==
  ASSUME NEW c \in Conns
  PROVE  ReplyTo(c) \in MainStates /\ ReplyTo(c).at = "reply" /\ ReplyTo(c).who = c
BY DEF ReplyTo, Idle, MainStates, MainPlaces

LEMMA NotifyState ==
  ASSUME NEW c \in Conns \cup {Nobody}, NEW e \in Events
  PROVE  /\ Notifying(e, c) \in MainStates /\ Notifying(e, c).at = "notify"
         /\ Notifying(e, c).who = c /\ Notifying(e, c).i = 1
BY DEF Notifying, Idle, MainStates, MainPlaces

\* plugin_register's way: to an entry it has found, to a new slot, or back.
LEMMA CallState ==
  ASSUME NEW who \in Conns, wfd[who] \in Fds, NEW name \in Names,
         NEW ev \in Events \cup {Nobody}
  PROVE  /\ Call(who, name, ev) \in MainStates /\ Call(who, name, ev).who = who
         /\ Call(who, name, ev).fd = wfd[who] /\ Call(who, name, ev).ev = ev
         /\ Call(who, name, ev).name = name
BY ConstantsAssumption DEF Call, Idle, MainStates, MainPlaces

LEMMA AutoNames == \A fd \in Fds : AutoName(fd) \in Names
<1>1. \A fd \in Fds : AutoName(fd) \in {AutoName(f) : f \in Fds}
  OBVIOUS
<1>2. QED
  BY <1>1 DEF Names

LEMMA RegisteredState ==
  ASSUME NEW m \in MainStates, m.who \in Conns, m.fd \in Fds
  PROVE  /\ Registered(m) \in MainStates /\ Registered(m).who = m.who
         /\ Registered(m).at \in {"reply", "refind"} /\ Fits(Registered(m))
<1>1. m.who # Nobody
  BY ConstantsAssumption
<1>2. CASE m.ev = Nobody
  <2>1. Registered(m) = ReplyTo(m.who)
    BY <1>2 DEF Registered
  <2>2. QED
    BY <1>1, <2>1, ReplyState DEF Fits, Calls
<1>3. CASE m.ev # Nobody
  <2> DEFINE r == [m EXCEPT !.at = "refind", !.i = 0]
  <2>1. Registered(m) = r
    BY <1>3 DEF Registered
  <2>2. r \in MainStates
    BY DEF MainStates, MainPlaces
  <2>3. r.at = "refind" /\ r.who = m.who /\ r.fd = m.fd /\ r.ev = m.ev /\ m.ev \in Events
    BY <1>3 DEF MainStates
  <2> HIDE DEF r
  <2>4. Fits(r)
    BY <1>1, <2>3 DEF Fits, Calls
  <2>5. QED
    BY <2>1, <2>2, <2>3, <2>4
<1>4. QED
  BY <1>2, <1>3

\* A place in a call, with the slot it is about to write.
AtSlot(m, at, i) == [m EXCEPT !.at = at, !.i = i]

LEMMA PlaceState ==
  ASSUME NEW m \in MainStates, m.who \in Conns, m.fd \in Fds, NEW i \in 1 .. PluginMax,
         NEW at \in {"existing", "append", "mark"}, at = "mark" => m.ev \in Events
  PROVE  /\ AtSlot(m, at, i) \in MainStates /\ AtSlot(m, at, i).who = m.who
         /\ AtSlot(m, at, i).at = at /\ AtSlot(m, at, i).i = i
         /\ AtSlot(m, at, i).name = m.name /\ Fits(AtSlot(m, at, i))
<1> DEFINE r == AtSlot(m, at, i)
<1>1. r \in MainStates
  <2>1. i \in Nat /\ at \in MainPlaces
    BY ConstantsAssumption DEF MainPlaces
  <2>2. QED
    BY <2>1 DEF MainStates, AtSlot
<1>2. /\ r.at = at /\ r.who = m.who /\ r.fd = m.fd /\ r.ev = m.ev /\ r.i = i
      /\ r.name = m.name
  BY DEF MainStates, AtSlot
<1>3. m.who # Nobody
  BY ConstantsAssumption
<1> HIDE DEF r
<1>4. Fits(r)
  BY <1>2, <1>3 DEF Fits, Calls
<1>5. QED
  BY <1>1, <1>2, <1>4 DEF r

LEMMA RegisteringState ==
  ASSUME Inv, NEW m \in MainStates, m.who \in Conns, m.fd \in Fds
  PROVE  /\ Registering(m) \in MainStates /\ Registering(m).who = m.who
         /\ Fits(Registering(m))
         /\ Registering(m).at = "append" =>
              /\ Registering(m).i = count + 1 /\ Registering(m).name = m.name
              /\ Named(m.name) = {}
<1>1. count \in Nat /\ count <= PluginMax /\ PluginMax \in Nat
  BY ConstantsAssumption DEF Inv, TableOK
<1>2. CASE Named(m.name) # {}
  <2>1. PICK i \in 1 .. PluginMax : i = Min(Named(m.name))
    BY <1>2, First DEF Named
  <2>2. Registering(m) = AtSlot(m, "existing", i)
    BY <1>2, <2>1 DEF Registering, AtSlot
  <2>3. /\ Registering(m) \in MainStates /\ Registering(m).who = m.who
        /\ Registering(m).at = "existing" /\ Fits(Registering(m))
    BY <2>2, PlaceState
  <2>4. QED
    BY <2>3
<1>3. CASE Named(m.name) = {} /\ RoomLeft
  <2>1. count + 1 \in 1 .. PluginMax
    BY <1>1, <1>3 DEF RoomLeft
  <2>2. Registering(m) = AtSlot(m, "append", count + 1)
    BY <1>3 DEF Registering, AtSlot
  <2>3. /\ Registering(m) \in MainStates /\ Registering(m).who = m.who
        /\ Registering(m).i = count + 1 /\ Registering(m).name = m.name
        /\ Fits(Registering(m))
    BY <2>1, <2>2, PlaceState
  <2>4. QED
    BY <1>3, <2>3
<1>4. CASE Named(m.name) = {} /\ ~ RoomLeft
  <2>1. Registering(m) = Registered(m)
    BY <1>4 DEF Registering
  <2>2. QED
    BY <2>1, RegisteredState
<1>5. QED
  BY <1>2, <1>3, <1>4

\* The main thread takes a message up, or goes on with it.
LEMMA KeepsServing ==
  ASSUME mainq # <<>>, mainq' = mainq, count' = count, main'.who = Head(mainq),
         Fits(main'), main'.at = "append" => count < main'.i
  PROVE  MainOK'
BY DEF MainOK, Fits

LEMMA RegisterStep ==
  ASSUME Inv, HandleRegister
  PROVE  Inv'
<1>1. /\ Ready /\ Msg.kind = "register"
      /\ main' = Registering(Call(Asker, Msg.name, Nobody))
      /\ subs' = [subs EXCEPT ![Asker] = {}]
      /\ UNCHANGED <<client, sent, inbox, asked, outbox, answered, file, taken, pc, wfd,
                     req, found, table, count, raced, mainq, fired, alive>>
  BY DEF HandleRegister, clients, writes, workers, numbers, plugins
<1>2. Asker \in Conns /\ wfd[Asker] \in Fds /\ Msg \in Sendable /\ mainq # <<>>
  BY <1>1, Served1, Zenon DEF Ready, Asker, Msg
<1>3. Msg.name \in Names
  BY <1>1, <1>2 DEF Sendable, Message
<1> DEFINE m == Call(Asker, Msg.name, Nobody)
<1>4. m \in MainStates /\ m.who = Asker /\ m.fd \in Fds
  BY <1>2, <1>3, CallState
<1> HIDE DEF m
<1>5. main' = Registering(m)
  BY <1>1 DEF m
<1>6. /\ main' \in MainStates /\ main'.who = Asker /\ Fits(main')
      /\ main'.at = "append" => main'.i = count + 1
  BY <1>2, <1>4, <1>5, RegisteringState
<1>7. count \in Nat
  BY ConstantsAssumption DEF Inv, TableOK
<1>8. subs' \in [Conns -> SUBSET Events]
  BY <1>1 DEF Inv, Types
<1>9. Types'
  BY <1>1, <1>6, <1>8 DEF Inv, Types
<1>10. MainOK'
  BY <1>1, <1>2, <1>6, <1>7, KeepsServing DEF Asker
<1>11. QED
  BY <1>1, <1>9, <1>10 DEF Inv, Waits, TableOK

LEMMA SubscribeStep ==
  ASSUME Inv, HandleSubscribe
  PROVE  Inv'
<1>1. /\ Ready /\ Msg.kind = "subscribe"
      /\ main' = IF Holders(wfd[Asker]) # {}
                  THEN [AutoCall EXCEPT !.at = "mark", !.i = Min(Holders(wfd[Asker]))]
                  ELSE IF RoomLeft THEN Registering(AutoCall) ELSE ReplyTo(Asker)
      /\ subs' = [subs EXCEPT ![Asker] = @ \cup {Msg.ev}]
      /\ UNCHANGED <<client, sent, inbox, asked, outbox, answered, file, taken, pc, wfd,
                     req, found, table, count, raced, mainq, fired, alive>>
  BY DEF HandleSubscribe, clients, writes, workers, numbers, plugins
<1>2. Asker \in Conns /\ wfd[Asker] \in Fds /\ Msg \in Sendable /\ mainq # <<>>
  BY <1>1, Served1, Zenon DEF Ready, Asker, Msg
<1>3. Msg.ev \in Events
  BY <1>1, <1>2 DEF Sendable, Message
<1>4. AutoCall \in MainStates /\ AutoCall.who = Asker /\ AutoCall.fd \in Fds
      /\ AutoCall.ev \in Events
  BY <1>2, <1>3, CallState, AutoNames DEF AutoCall
<1>5. count \in Nat
  BY ConstantsAssumption DEF Inv, TableOK
<1>6. /\ main' \in MainStates /\ main'.who = Asker /\ Fits(main')
      /\ main'.at = "append" => main'.i = count + 1
  <2>1. CASE Holders(wfd[Asker]) # {}
    <3>1. PICK i \in 1 .. PluginMax : i = Min(Holders(wfd[Asker]))
      BY <2>1, First DEF Holders
    <3>2. main' = AtSlot(AutoCall, "mark", i)
      BY <1>1, <2>1, <3>1 DEF AtSlot
    <3>3. /\ main' \in MainStates /\ main'.who = AutoCall.who /\ main'.at = "mark"
          /\ Fits(main')
      BY <1>2, <1>4, <3>2, PlaceState
    <3>4. QED
      BY <1>4, <3>3
  <2>2. CASE Holders(wfd[Asker]) = {} /\ RoomLeft
    BY <1>1, <1>2, <1>4, <2>2, RegisteringState
  <2>3. CASE Holders(wfd[Asker]) = {} /\ ~ RoomLeft
    BY <1>1, <1>2, <2>3, ReplyState, ConstantsAssumption DEF Fits, Calls
  <2>4. QED
    BY <2>1, <2>2, <2>3
<1>7. subs' \in [Conns -> SUBSET Events]
  <2>1. subs \in [Conns -> SUBSET Events] /\ subs[Asker] \cup {Msg.ev} \in SUBSET Events
    BY <1>2, <1>3 DEF Inv, Types
  <2>2. QED
    BY <1>1, <2>1
<1>8. Types'
  BY <1>1, <1>6, <1>7 DEF Inv, Types
<1>9. MainOK'
  BY <1>1, <1>2, <1>5, <1>6, KeepsServing DEF Asker
<1>10. QED
  BY <1>1, <1>8, <1>9 DEF Inv, Waits, TableOK

\* In a call: whom it is for, and the slot or event it works with.
LEMMA InCall ==
  ASSUME Inv, main.at \in Calls
  PROVE  /\ main \in MainStates /\ main.who \in Conns /\ main.fd \in Fds
         /\ mainq # <<>> /\ main.who = Head(mainq)
BY DEF Inv, Types, MainOK, Fits, MainStates

\* The slot's entry with its descriptor, mask or flag written.
LEMMA SlotWritten ==
  ASSUME Inv, NEW i \in 1 .. PluginMax, NEW e \in Plugin, table' = [table EXCEPT ![i] = e],
         count' \in 0 .. PluginMax, raced' = raced
  PROVE  TableOK'
BY DEF Inv, TableOK

LEMMA ExistingStep ==
  ASSUME Inv, RegisterExisting
  PROVE  Inv'
<1>1. /\ main.at = "existing"
      /\ UNCHANGED <<client, sent, inbox, asked, outbox, answered, pc, wfd, req, found,
                     count, raced, mainq, fired, subs, alive>>
  BY DEF RegisterExisting, clients, writes, workers
<1>2. /\ main \in MainStates /\ main.who \in Conns /\ main.fd \in Fds /\ mainq # <<>>
      /\ main.who = Head(mainq) /\ main.i \in 1 .. PluginMax
  BY <1>1, InCall DEF Calls, Inv, MainOK, Fits
<1>3. PICK i \in 1 .. PluginMax : i = main.i
  BY <1>2
<1>4. table \in [1 .. PluginMax -> Plugin] /\ table[i] \in Plugin
  BY DEF Inv, TableOK
<1>5. file' \in [Fds -> Conns \cup {Free}] /\ taken' \subseteq Fds
  <2>1. file \in [Fds -> Conns \cup {Free}] /\ taken \subseteq Fds
    BY DEF Inv, Types
  <2>2. QED
    BY <2>1 DEF RegisterExisting
<1>6. CASE table[i].fd = main.fd
  <2>1. /\ table' = [table EXCEPT ![i].connected = TRUE, ![i].mask = {}]
        /\ main' = Registered(main)
    BY <1>3, <1>6 DEF RegisterExisting
  <2> DEFINE e == [table[i] EXCEPT !.connected = TRUE, !.mask = {}]
  <2>2. e \in Plugin
    BY <1>4 DEF Plugin
  <2>3. table' = [table EXCEPT ![i] = e]
    BY <1>4, <2>1 DEF Plugin
  <2> HIDE DEF e
  <2>4. TableOK'
    BY <1>1, <2>2, <2>3, SlotWritten DEF Inv, TableOK
  <2>5. /\ main' \in MainStates /\ main'.who = main.who
        /\ main'.at \in {"reply", "refind"} /\ Fits(main')
    BY <1>2, <2>1, RegisteredState
  <2>6. MainOK'
    BY <1>1, <1>2, <2>5, KeepsServing
  <2>7. Types'
    BY <1>1, <1>5, <2>5 DEF Inv, Types
  <2>8. QED
    BY <1>1, <2>4, <2>6, <2>7 DEF Inv, Waits
<1>7. CASE table[i].fd # main.fd
  <2>1. table' = table /\ main' = [main EXCEPT !.at = "takeover"]
    BY <1>3, <1>7 DEF RegisterExisting
  <2>2. /\ main' \in MainStates /\ main'.who = main.who /\ main'.at = "takeover"
        /\ main'.i = main.i /\ main'.fd = main.fd
    BY <1>2, <2>1 DEF MainStates, MainPlaces
  <2>3. Fits(main')
    BY <1>2, <2>2, ConstantsAssumption DEF Fits, Calls
  <2>4. MainOK'
    BY <1>1, <1>2, <2>2, <2>3, KeepsServing
  <2>5. Types'
    BY <1>1, <1>5, <2>2 DEF Inv, Types
  <2>6. QED
    BY <1>1, <2>1, <2>4, <2>5 DEF Inv, Waits, TableOK
<1>8. QED
  BY <1>6, <1>7

\* A call writes its slot and returns.
LEMMA WriteStep ==
  ASSUME Inv, RegisterTakeover \/ RegisterAppend
  PROVE  Inv'
<1>1. /\ main.at \in {"takeover", "append"} /\ main' = Registered(main)
      /\ UNCHANGED <<client, sent, inbox, asked, outbox, answered, file, taken, pc, wfd,
                     req, found, raced, mainq, fired, subs, alive>>
  BY DEF RegisterTakeover, RegisterAppend, clients, writes, workers, numbers
<1>2. /\ main \in MainStates /\ main.who \in Conns /\ main.fd \in Fds /\ mainq # <<>>
      /\ main.who = Head(mainq) /\ main.i \in 1 .. PluginMax
  BY <1>1, InCall DEF Calls, Inv, MainOK, Fits
<1>3. PICK i \in 1 .. PluginMax : i = main.i
  BY <1>2
<1>4. table \in [1 .. PluginMax -> Plugin] /\ table[i] \in Plugin /\ count \in 0 .. PluginMax
  BY DEF Inv, TableOK
<1>5. TableOK'
  <2>1. CASE RegisterTakeover
    <3> DEFINE e == [table[i] EXCEPT !.fd = main.fd, !.connected = TRUE, !.mask = {}]
    <3>1. /\ table' = [table EXCEPT ![i].fd = main.fd, ![i].connected = TRUE, ![i].mask = {}]
          /\ count' = count
      BY <1>3, <2>1 DEF RegisterTakeover
    <3>2. e \in Plugin
      BY <1>2, <1>4 DEF Plugin
    <3>3. table' = [table EXCEPT ![i] = e]
      BY <1>4, <3>1 DEF Plugin
    <3> HIDE DEF e
    <3>4. QED
      BY <1>1, <1>4, <3>1, <3>2, <3>3, SlotWritten
  <2>2. CASE RegisterAppend
    <3> DEFINE e == [name |-> main.name, fd |-> main.fd, mask |-> {}, connected |-> TRUE]
    <3>1. main.at = "append" /\ table' = [table EXCEPT ![i] = e] /\ count' = count + 1
      BY <1>3, <2>2 DEF RegisterAppend
    <3>2. e \in Plugin
      BY <1>2 DEF Plugin, MainStates
    <3> HIDE DEF e
    <3>3. count < i
      BY <1>3, <3>1 DEF Inv, MainOK
    <3>4. count' \in 0 .. PluginMax
      BY <1>4, <3>1, <3>3, ConstantsAssumption
    <3>5. QED
      BY <1>1, <3>1, <3>2, <3>4, SlotWritten
  <2>3. QED
    BY <2>1, <2>2 DEF RegisterTakeover, RegisterAppend
<1>6. /\ main' \in MainStates /\ main'.who = main.who
      /\ main'.at \in {"reply", "refind"} /\ Fits(main')
  BY <1>1, <1>2, RegisteredState
<1>7. MainOK'
  BY <1>1, <1>2, <1>6 DEF MainOK, Fits
<1>8. Types'
  BY <1>1, <1>6 DEF Inv, Types
<1>9. QED
  BY <1>1, <1>5, <1>7, <1>8 DEF Inv, Waits

LEMMA FindAgainStep ==
  ASSUME Inv, SubscribeFindAgain
  PROVE  Inv'
<1>1. /\ main.at = "refind"
      /\ main' = IF Holders(main.fd) = {} THEN ReplyTo(main.who)
                  ELSE [main EXCEPT !.at = "mark", !.i = Min(Holders(main.fd))]
      /\ UNCHANGED <<client, sent, inbox, asked, outbox, answered, file, taken, pc, wfd,
                     req, found, table, count, raced, mainq, fired, subs, alive>>
  BY DEF SubscribeFindAgain, clients, writes, workers, numbers, plugins
<1>2. /\ main \in MainStates /\ main.who \in Conns /\ main.fd \in Fds /\ mainq # <<>>
      /\ main.who = Head(mainq) /\ main.ev \in Events
  BY <1>1, InCall DEF Calls, Inv, MainOK, Fits
<1>3. /\ main' \in MainStates /\ main'.who = main.who /\ main'.at \in {"reply", "mark"}
      /\ Fits(main')
  <2>1. CASE Holders(main.fd) = {}
    BY <1>1, <1>2, <2>1, ReplyState, ConstantsAssumption DEF Fits, Calls
  <2>2. CASE Holders(main.fd) # {}
    <3>1. PICK i \in 1 .. PluginMax : i = Min(Holders(main.fd))
      BY <2>2, First DEF Holders
    <3>2. main' = AtSlot(main, "mark", i)
      BY <1>1, <2>2, <3>1 DEF AtSlot
    <3>3. QED
      BY <1>2, <3>2, PlaceState
  <2>3. QED
    BY <2>1, <2>2
<1>4. MainOK'
  BY <1>1, <1>2, <1>3, KeepsServing
<1>5. Types'
  BY <1>1, <1>3 DEF Inv, Types
<1>6. QED
  BY <1>1, <1>4, <1>5 DEF Inv, Waits, TableOK

LEMMA MarkStep ==
  ASSUME Inv, SubscribeMark
  PROVE  Inv'
<1>1. /\ main.at = "mark" /\ main' = ReplyTo(main.who)
      /\ UNCHANGED <<client, sent, inbox, asked, outbox, answered, file, taken, pc, wfd,
                     req, found, count, raced, mainq, fired, subs, alive>>
  BY DEF SubscribeMark, clients, writes, workers, numbers
<1>2. /\ main \in MainStates /\ main.who \in Conns /\ mainq # <<>> /\ main.who = Head(mainq)
      /\ main.ev \in Events /\ main.i \in 1 .. PluginMax
  BY <1>1, InCall DEF Calls, Inv, MainOK, Fits
<1>3. PICK i \in 1 .. PluginMax : i = main.i
  BY <1>2
<1>4. table \in [1 .. PluginMax -> Plugin] /\ table[i] \in Plugin
  BY DEF Inv, TableOK
<1> DEFINE e == [table[i] EXCEPT !.mask = @ \cup {main.ev}, !.connected = TRUE]
<1>5. e \in Plugin
  BY <1>2, <1>4 DEF Plugin
<1>6. table' = [table EXCEPT ![i] = e]
  BY <1>3, <1>4 DEF SubscribeMark, Plugin
<1> HIDE DEF e
<1>7. TableOK'
  BY <1>1, <1>5, <1>6, SlotWritten DEF Inv, TableOK
<1>8. main' \in MainStates /\ main'.who = main.who /\ main'.at = "reply" /\ Fits(main')
  BY <1>1, <1>2, ReplyState, ConstantsAssumption DEF Fits, Calls
<1>9. MainOK'
  BY <1>1, <1>2, <1>8, KeepsServing
<1>10. Types'
  BY <1>1, <1>8 DEF Inv, Types
<1>11. QED
  BY <1>1, <1>7, <1>9, <1>10 DEF Inv, Waits

LEMMA QueryStep ==
  ASSUME Inv, HandleQuery \/ HandleTrigger
  PROVE  Inv'
<1>1. /\ Ready
      /\ UNCHANGED <<client, sent, inbox, asked, outbox, answered, file, taken, pc, wfd,
                     req, found, table, count, raced, mainq, fired, subs, alive>>
  BY DEF HandleQuery, HandleTrigger, clients, writes, workers, numbers, plugins
<1>0. Asker \in Conns /\ Asker = Head(mainq) /\ Msg \in Sendable
  BY <1>1, Served1, Zenon DEF Ready, Asker, Msg
<1>2. /\ main' \in MainStates /\ main'.who = Head(mainq)
      /\ main'.at = "reply" \/ (main'.at = "notify" /\ main'.i = 1)
  <2>1. CASE HandleQuery
    <3>1. main' = ReplyTo(Asker)
      BY <2>1 DEF HandleQuery
    <3>2. QED
      BY <1>0, <3>1, ReplyState
  <2>2. CASE HandleTrigger
    <3>1. Msg.kind = "trigger" /\ main' = Notifying(Msg.ev, Asker)
      BY <2>2 DEF HandleTrigger
    <3>2. Msg.ev \in Events
      BY <1>0, <3>1 DEF Sendable, Message
    <3>3. QED
      BY <1>0, <3>1, <3>2, NotifyState
  <2>3. QED
    BY <2>1, <2>2
<1>3. Types'
  BY <1>1, <1>2 DEF Inv, Types
<1>4. mainq # <<>>
  BY <1>1 DEF Ready
<1>5. MainOK'
  BY <1>0, <1>1, <1>2, <1>4, ConstantsAssumption DEF MainOK, Fits, Calls
<1>6. QED
  BY <1>1, <1>3, <1>5 DEF Inv, Waits, TableOK

LEMMA EventStep ==
  ASSUME Inv, SystemEvent \/ HealthTick
  PROVE  Inv'
<1>1. UNCHANGED <<client, sent, inbox, asked, outbox, answered, file, taken, pc, wfd, req,
                  found, table, count, raced, mainq, subs, alive>>
  BY DEF SystemEvent, HealthTick, clients, writes, workers, numbers, plugins
<1>2. fired' \in 0 .. MaxFired
  BY ConstantsAssumption DEF SystemEvent, HealthTick, Inv, Types
<1>3. /\ main' \in MainStates /\ main'.who = Nobody /\ main'.i = 1
      /\ main'.at \in {"notify", "health"}
  <2>1. CASE SystemEvent
    <3>1. PICK e \in Events : main' = Notifying(e, Nobody)
      BY <2>1, Zenon DEF SystemEvent
    <3>2. QED
      BY <3>1, NotifyState
  <2>2. CASE HealthTick
    BY <2>2 DEF HealthTick, Idle, MainStates, MainPlaces
  <2>3. QED
    BY <2>1, <2>2
<1>4. Types'
  BY <1>1, <1>2, <1>3 DEF Inv, Types
<1>5. MainOK'
  BY <1>3 DEF MainOK, Fits, Calls
<1>6. QED
  BY <1>1, <1>4, <1>5 DEF Inv, Waits, TableOK

LEMMA NextState ==
  ASSUME NEW m \in MainStates, NEW fd \in Fds \cup {Free}
  PROVE  /\ [m EXCEPT !.at = "send", !.fd = fd] \in MainStates
         /\ [m EXCEPT !.i = @ + 1] \in MainStates
         /\ [m EXCEPT !.at = "notify", !.i = @ + 1, !.fd = fd] \in MainStates
         /\ m.i + 1 \in Nat \ {0}
<1>1. m.i \in Nat /\ m.i + 1 \in Nat \ {0}
  BY DEF MainStates
<1> DEFINE j == m.i + 1
<1> HIDE DEF j
<1>2. j \in Nat
  BY <1>1 DEF j
<1>3. /\ [m EXCEPT !.at = "send", !.fd = fd] \in MainStates
      /\ [m EXCEPT !.i = j] \in MainStates
      /\ [m EXCEPT !.at = "notify", !.i = j, !.fd = fd] \in MainStates
  BY <1>2 DEF MainStates, MainPlaces
<1>4. QED
  BY <1>1, <1>3 DEF j

LEMMA NotifyStep ==
  ASSUME Inv, NotifyNext
  PROVE  Inv'
<1>1. /\ main.at = "notify"
      /\ UNCHANGED <<client, sent, inbox, asked, outbox, answered, file, taken, pc, wfd,
                     req, found, table, count, raced, mainq, fired, subs, alive>>
  BY DEF NotifyNext, clients, writes, workers, numbers, plugins
<1>2. /\ main \in MainStates /\ main.i # 0
      /\ table \in [1 .. PluginMax -> Plugin] /\ count \in 0 .. PluginMax
      /\ main.who # Nobody => mainq # <<>> /\ main.who = Head(mainq)
  BY <1>1 DEF Inv, Types, MainOK, Fits, TableOK
<1>3. CASE main.i > count
  <2>1. main' = IF main.who = Nobody THEN Idle ELSE ReplyTo(main.who)
    BY <1>3 DEF NotifyNext
  <2>2. CASE main.who = Nobody
    <3>1. main' \in MainStates /\ main'.at = "idle" /\ main'.who = Nobody
      BY <2>1, <2>2 DEF Idle, MainStates, MainPlaces
    <3>2. Types'
      BY <1>1, <3>1 DEF Inv, Types
    <3>3. MainOK'
      BY <3>1 DEF MainOK, Fits, Calls
    <3>4. QED
      BY <1>1, <3>2, <3>3 DEF Inv, Waits, TableOK
  <2>3. CASE main.who # Nobody
    <3>1. main.who \in Conns
      BY <1>2, <2>3 DEF MainStates
    <3>2. main' \in MainStates /\ main'.at = "reply" /\ main'.who = main.who
      BY <2>1, <2>3, <3>1, ReplyState
    <3>3. Types'
      BY <1>1, <3>2 DEF Inv, Types
    <3>4. MainOK'
      BY <1>1, <1>2, <2>3, <3>2 DEF MainOK, Fits, Calls
    <3>5. QED
      BY <1>1, <3>3, <3>4 DEF Inv, Waits, TableOK
  <2>4. QED
    BY <2>2, <2>3
<1>4. CASE ~ (main.i > count)
  <2>1. main.i \in 1 .. PluginMax /\ main.i \in Nat
    BY <1>2, <1>4, ConstantsAssumption DEF MainStates
  <2>2. PICK fd \in Fds \cup {Free} : fd = table[main.i].fd
    BY <1>2, <2>1 DEF Plugin
  <2>3. \/ main' = [main EXCEPT !.at = "send", !.fd = fd]
        \/ main' = [main EXCEPT !.i = @ + 1]
    BY <1>4, <2>2 DEF NotifyNext
  <2>4. /\ main' \in MainStates /\ main'.who = main.who /\ main'.i # 0
        /\ main'.at = "notify" \/ (main'.at = "send" /\ main'.i = main.i)
    <3>1. CASE main' = [main EXCEPT !.at = "send", !.fd = fd]
      <4>1. main' \in MainStates
        BY <1>2, <3>1, NextState
      <4>2. QED
        BY <1>2, <3>1, <4>1 DEF MainStates
    <3>2. CASE main' = [main EXCEPT !.i = @ + 1]
      <4>1. main' \in MainStates /\ main.i + 1 # 0
        BY <1>2, <3>2, NextState
      <4>2. main'.at = main.at /\ main'.who = main.who /\ main'.i = main.i + 1
        BY <1>2, <3>2 DEF MainStates
      <4>3. QED
        BY <1>1, <4>1, <4>2
    <3>3. QED
      BY <2>3, <3>1, <3>2
  <2>5. Types'
    BY <1>1, <2>4 DEF Inv, Types
  <2>6. MainOK'
    BY <1>1, <1>2, <2>1, <2>4 DEF MainOK, Fits, Calls
  <2>7. QED
    BY <1>1, <2>5, <2>6 DEF Inv, Waits, TableOK
<1>5. QED
  BY <1>3, <1>4

\* The next entry's turn, after a write or a failure.
LEMMA NextEntry ==
  ASSUME Inv, main.at = "send",
         main' = [main EXCEPT !.at = "notify", !.i = @ + 1, !.fd = Free], UNCHANGED mainq
  PROVE  main' \in MainStates /\ MainOK'
<1>1. /\ main \in MainStates
      /\ main.who # Nobody => mainq # <<>> /\ main.who = Head(mainq)
  BY DEF Inv, Types, MainOK
<1>2. main' \in MainStates /\ main'.at = "notify" /\ main'.who = main.who /\ main'.i # 0
  <2>1. main' \in MainStates /\ main.i + 1 # 0
    BY <1>1, NextState
  <2>2. main'.at = "notify" /\ main'.who = main.who /\ main'.i = main.i + 1
    BY <1>1 DEF MainStates
  <2>3. QED
    BY <2>1, <2>2
<1>3. QED
  BY <1>1, <1>2 DEF MainOK, Fits, Calls

LEMMA SentStep ==
  ASSUME Inv, NotifySent
  PROVE  Inv'
<1>1. /\ main.at = "send" /\ Takes(main.fd)
      /\ outbox' = [outbox EXCEPT ![file[main.fd]] = Append(@, "event")]
      /\ main' = [main EXCEPT !.at = "notify", !.i = @ + 1, !.fd = Free]
      /\ UNCHANGED <<client, sent, inbox, asked, answered, file, taken, pc, wfd, req,
                     found, table, count, raced, mainq, fired, subs, alive>>
  BY DEF NotifySent, clients, workers, numbers, plugins
<1>2. main' \in MainStates /\ MainOK'
  BY <1>1, NextEntry
<1>3. PICK d \in Conns : file[main.fd] = d
  BY <1>1 DEF Takes
<1>4. outbox \in [Conns -> Seq({"event", "reply"})] /\ outbox[d] \in Seq({"event", "reply"})
  BY DEF Inv, Types
<1>5. Append(outbox[d], "event") \in Seq({"event", "reply"})
  BY <1>4
<1>6. outbox' \in [Conns -> Seq({"event", "reply"})]
  BY <1>1, <1>3, <1>4, <1>5
<1>7. Types'
  BY <1>1, <1>2, <1>6 DEF Inv, Types
<1>8. QED
  BY <1>1, <1>2, <1>7 DEF Inv, Waits, TableOK

LEMMA FailedStep ==
  ASSUME Inv, NotifyFailed
  PROVE  Inv'
<1>1. /\ main.at = "send"
      /\ main' = [main EXCEPT !.at = "notify", !.i = @ + 1, !.fd = Free]
      /\ UNCHANGED <<client, sent, inbox, asked, outbox, answered, file, taken, pc, wfd,
                     req, found, count, raced, mainq, fired, subs, alive>>
  BY DEF NotifyFailed, clients, writes, workers, numbers
<1>2. main' \in MainStates /\ MainOK'
  BY <1>1, NextEntry
<1>3. PICK i \in 1 .. PluginMax : i = main.i
  BY <1>1 DEF Inv, MainOK, Fits
<1>4. table \in [1 .. PluginMax -> Plugin] /\ table[i] \in Plugin
  BY DEF Inv, TableOK
<1> DEFINE e == [table[i] EXCEPT !.connected = FALSE]
<1>5. e \in Plugin
  BY <1>4 DEF Plugin
<1>6. table' = [table EXCEPT ![i] = e]
  BY <1>3, <1>4 DEF NotifyFailed, Plugin
<1> HIDE DEF e
<1>7. TableOK'
  BY <1>1, <1>5, <1>6, SlotWritten DEF Inv, TableOK
<1>8. Types'
  BY <1>1, <1>2 DEF Inv, Types
<1>9. QED
  BY <1>1, <1>2, <1>7, <1>8 DEF Inv, Waits

LEMMA ReplyStep ==
  ASSUME Inv, ReplySent \/ ReplyFailed
  PROVE  Inv'
<1>1. /\ main.at = "reply" /\ main' = Idle /\ mainq' = Tail(mainq)
      /\ pc' = [pc EXCEPT ![main.who] = "reading"]
      /\ UNCHANGED <<client, sent, inbox, asked, file, taken, wfd, req, found, table,
                     count, raced, fired, subs, alive>>
  BY DEF ReplySent, ReplyFailed, Return, clients, numbers, plugins
<1>2. mainq # <<>> /\ main.who = Head(mainq)
  BY <1>1 DEF Inv, MainOK, Fits
<1>3. main' \in MainStates /\ MainOK'
  BY <1>1 DEF Idle, MainStates, MainPlaces, MainOK, Fits, Calls
<1>4. Waits'
  BY <1>1, <1>2, ServedGoesOn
<1>5. /\ outbox' \in [Conns -> Seq({"event", "reply"})]
      /\ answered' \in [Conns -> Seq(Conns \X Nat)]
  <2>1. CASE ReplySent
    <3>1. Takes(wfd[main.who])
      BY <2>1 DEF ReplySent
    <3>2. PICK d \in Conns : file[wfd[main.who]] = d
      BY <3>1 DEF Takes
    <3>3. /\ outbox' = [outbox EXCEPT ![d] = Append(@, "reply")]
          /\ answered' = [answered EXCEPT ![d] = Append(@, Id(req[main.who]))]
      BY <2>1, <3>2 DEF ReplySent
    <3>4. main.who \in Conns /\ req[main.who] \in Sendable
      BY <1>2, Served1
    <3>5. Id(req[main.who]) \in Conns \X Nat
      BY <3>4 DEF Sendable, Message, Id
    <3>6. /\ outbox \in [Conns -> Seq({"event", "reply"})]
          /\ outbox[d] \in Seq({"event", "reply"})
          /\ answered \in [Conns -> Seq(Conns \X Nat)] /\ answered[d] \in Seq(Conns \X Nat)
      BY DEF Inv, Types
    <3>7. Append(outbox[d], "reply") \in Seq({"event", "reply"})
      BY <3>6
    <3>8. Append(answered[d], Id(req[main.who])) \in Seq(Conns \X Nat)
      BY <3>5, <3>6
    <3>9. QED
      BY <3>3, <3>6, <3>7, <3>8
  <2>2. CASE ReplyFailed
    BY <2>2 DEF ReplyFailed, writes, Inv, Types
  <2>3. QED
    BY <2>1, <2>2
<1>6. Types'
  BY <1>1, <1>2, <1>3, <1>5 DEF Inv, Types, WorkerPlaces
<1>7. QED
  BY <1>1, <1>3, <1>4, <1>6 DEF Inv, TableOK

\* The health check moves on, returns, or finds the first entry of a descriptor.
LEMMA HealthStep ==
  ASSUME Inv, HealthNext
  PROVE  Inv'
<1>1. /\ main.at = "health"
      /\ UNCHANGED <<client, sent, inbox, asked, outbox, answered, file, taken, pc, wfd,
                     req, found, table, count, raced, mainq, fired, subs, alive>>
  BY DEF HealthNext, clients, writes, workers, numbers, plugins
<1>2. /\ main \in MainStates /\ main.i # 0
      /\ main.who # Nobody => mainq # <<>> /\ main.who = Head(mainq)
      /\ count \in Nat
  BY <1>1, ConstantsAssumption DEF Inv, Types, MainOK, Fits, TableOK
<1>3. main' \in MainStates /\ MainOK'
  <2>1. CASE main.i > count
    BY <2>1 DEF HealthNext, Idle, MainStates, MainPlaces, MainOK, Fits, Calls
  <2>2. CASE ~ (main.i > count)
    <3>1. main.i \in 1 .. count
      BY <1>2, <2>2 DEF MainStates
    <3>2. /\ Holders(table[main.i].fd) # {} /\ Holders(table[main.i].fd) \subseteq 1 .. count
      BY <3>1 DEF Holders
    <3>3. PICK k \in Nat : k = Min(Holders(table[main.i].fd)) /\ k # 0
      BY <1>2, <3>2, First
    <3>4. \/ main' = [main EXCEPT !.at = "drop", !.k = k]
          \/ main' = [main EXCEPT !.i = @ + 1]
      BY <2>2, <3>3 DEF HealthNext
    <3>5. /\ main' \in MainStates /\ main'.who = main.who /\ main'.i # 0
          /\ main'.at = "health" \/ (main'.at = "drop" /\ main'.k = k)
      <4>1. CASE main' = [main EXCEPT !.at = "drop", !.k = k]
        BY <1>2, <4>1 DEF MainStates, MainPlaces
      <4>2. CASE main' = [main EXCEPT !.i = @ + 1]
        BY <1>1, <1>2, <4>2 DEF MainStates
      <4>3. QED
        BY <3>4, <4>1, <4>2
    <3>6. QED
      BY <1>1, <1>2, <3>3, <3>5 DEF MainOK, Fits, Calls
  <2>3. QED
    BY <2>1, <2>2
<1>4. Types'
  BY <1>1, <1>3 DEF Inv, Types
<1>5. QED
  BY <1>1, <1>3, <1>4 DEF Inv, Waits, TableOK

LEMMA DropStep ==
  ASSUME Inv, HealthDrop
  PROVE  Inv'
<1>1. /\ main.at = "drop" /\ main' = [main EXCEPT !.at = "health", !.k = 0]
      /\ UNCHANGED <<client, sent, inbox, asked, outbox, answered, file, taken, pc, wfd,
                     req, found, raced, mainq, fired, subs>>
  BY DEF HealthDrop, clients, writes, workers, numbers
<1>2. /\ main \in MainStates /\ main.i # 0 /\ main.k \in Nat \ {0}
      /\ main.who # Nobody => mainq # <<>> /\ main.who = Head(mainq)
      /\ count \in Nat
  BY <1>1, ConstantsAssumption DEF Inv, Types, MainOK, Fits, TableOK, MainStates
<1>3. /\ main' \in MainStates /\ main'.at = "health" /\ main'.who = main.who
      /\ main'.i = main.i
  BY <1>1, <1>2 DEF MainStates, MainPlaces
<1>4. MainOK'
  BY <1>1, <1>2, <1>3 DEF MainOK, Fits, Calls
<1>5. TableOK'
  <2>1. CASE Removable(main.k)
    <3>1. RemoveEntry(main.k) /\ main.k \in 1 .. count
      BY <1>2, <2>1 DEF HealthDrop, Removable
    <3>2. QED
      BY <1>1, <3>1, Removal DEF Inv, TableOK
  <2>2. CASE ~ Removable(main.k)
    BY <1>1, <2>2 DEF HealthDrop, Inv, TableOK
  <2>3. QED
    BY <2>1, <2>2
<1>6. Types'
  BY <1>1, <1>3 DEF HealthDrop, Inv, Types
<1>7. QED
  BY <1>1, <1>4, <1>5, <1>6 DEF Inv, Waits

-----------------------------------------------------------------------------
(* The invariant and the types *)

LEMMA Step == Inv /\ [Next]_vars => Inv'
<1> SUFFICES ASSUME Inv, [Next]_vars
             PROVE  Inv'
  OBVIOUS
<1>1. CASE UNCHANGED vars
  <2>1. UNCHANGED <<client, sent, inbox, asked, outbox, answered, file, taken, pc, wfd,
                    req, found, table, count, raced, mainq, main, fired, subs, alive>>
    BY <1>1 DEF vars, clients, writes, workers, numbers, plugins
  <2>2. QED
    BY <2>1 DEF Inv, Types, Waits, MainOK, Fits, TableOK
<1>2. CASE \E c \in Conns : Connect(c) \/ Send(c) \/ Receive(c) \/ Leave(c) \/ Worker(c)
  BY <1>2, ConnectStep, SendStep, ReceiveStep, AcceptStep, ReadStep, ReadFailsStep,
     SearchStep, UnregisterStep, Zenon DEF Worker
<1>3. CASE Handle
  BY <1>3, MalformedStep, RegisterStep, SubscribeStep, QueryStep, Zenon DEF Handle
<1>4. CASE SystemEvent \/ HealthTick
  BY <1>4, EventStep, Zenon
<1>5. CASE Proceed
  BY <1>5, ExistingStep, WriteStep, FindAgainStep, MarkStep, NotifyStep, SentStep, FailedStep,
     ReplyStep, HealthStep, DropStep, Zenon DEF Proceed
<1>6. QED
  BY <1>1, <1>2, <1>3, <1>4, <1>5, Zenon DEF Next

LEMMA Always == Spec => []Inv
BY Initially, Step, PTL DEF Spec

\* Every variable keeps its type and the table its limit (PLUGIN_MAX), whatever
\* index a worker found in plugin_unregister_by_fd before the table changed, whatever
\* workers remove inside plugin_register and plugin_subscribe, and for any number of
\* connections, descriptors and messages.
THEOREM TypeCorrect == Spec => []TypeOK
BY Always, InvTypes, PTL

-----------------------------------------------------------------------------
(* A name is listed once *)

Distinct == \A i, j \in 1 .. count : table[i].name = table[j].name => i = j

\* The slot a registration is about to append to is the next one, and the name it
\* has looked for is still nobody's.
SlotNext == main.at = "append" => main.i = count + 1 /\ Named(main.name) = {}

NamesInv == raced \/ (Distinct /\ SlotNext)

LEMMA NamesInitially == Init => NamesInv
BY DEF Init, NamesInv, Distinct, SlotNext, Idle

\* A step that leaves the names where they are and appends nothing.
LEMMA NamesFrame ==
  ASSUME NamesInv, UNCHANGED <<count, raced>>,
         \A k \in 1 .. count : table'[k].name = table[k].name,
         main' = main \/ main'.at # "append"
  PROVE  NamesInv'
<1>1. CASE raced
  BY <1>1 DEF NamesInv
<1>2. CASE ~ raced
  <2>1. Distinct /\ SlotNext
    BY <1>2 DEF NamesInv
  <2>2. Distinct'
    BY <2>1 DEF Distinct
  <2>3. SlotNext'
    BY <2>1 DEF SlotNext, Named
  <2>4. QED
    BY <2>2, <2>3 DEF NamesInv
<1>3. QED
  BY <1>1, <1>2

\* An entry is written, but for its name.
LEMMA NameStays ==
  ASSUME Inv, NamesInv, UNCHANGED <<count, raced>>, NEW i \in 1 .. PluginMax, NEW e \in Plugin,
         e.name = table[i].name, table' = [table EXCEPT ![i] = e], main'.at # "append"
  PROVE  NamesInv'
<1>1. \A k \in 1 .. count : k \in 1 .. PluginMax
  BY ConstantsAssumption DEF Inv, TableOK
<1>2. \A k \in 1 .. count : table'[k].name = table[k].name
  BY <1>1 DEF Inv, TableOK
<1>3. QED
  BY <1>2, NamesFrame

LEMMA NamesClients ==
  ASSUME NamesInv,
         NEW c \in Conns, Connect(c) \/ Send(c) \/ Receive(c) \/ Leave(c)
  PROVE  NamesInv'
BY NamesFrame DEF Connect, Send, Receive, Leave, plugins

LEMMA NamesWorkers ==
  ASSUME NamesInv,
         NEW c \in Conns, Accept(c) \/ Read(c) \/ ReadFails(c) \/ Close(c) \/ Search(c)
  PROVE  NamesInv'
BY NamesFrame DEF Accept, Read, ReadFails, Close, Search, plugins

\* A removal keeps the rest apart.
LEMMA NamesRemoval ==
  ASSUME Inv, NamesInv, NEW i \in 1 .. count, RemoveEntry(i), main'.at # "append",
         raced' = raced
  PROVE  NamesInv'
<1>1. CASE raced
  BY <1>1 DEF NamesInv
<1>2. CASE ~ raced
  <2>1. Distinct
    BY <1>2 DEF NamesInv
  <2>2. /\ count' = count - 1 /\ count \in Nat
        /\ \A j \in 1 .. count' : table'[j] = IF i <= j THEN table[j + 1] ELSE table[j]
    BY Removal, ConstantsAssumption DEF Inv, TableOK
  <2>3. ASSUME NEW a \in 1 .. count', NEW b \in 1 .. count', table'[a].name = table'[b].name
        PROVE  a = b
    <3>1. PICK x \in 1 .. count :
            table'[a] = table[x] /\ x = IF i <= a THEN a + 1 ELSE a
      BY <2>2
    <3>2. PICK y \in 1 .. count :
            table'[b] = table[y] /\ y = IF i <= b THEN b + 1 ELSE b
      BY <2>2
    <3>3. x = y
      BY <2>1, <2>3, <3>1, <3>2 DEF Distinct
    <3>4. QED
      BY <2>2, <3>1, <3>2, <3>3
  <2>4. Distinct'
    BY <2>3 DEF Distinct
  <2>5. SlotNext'
    BY DEF SlotNext
  <2>6. QED
    BY <2>4, <2>5 DEF NamesInv
<1>3. QED
  BY <1>1, <1>2

LEMMA NamesUnregister ==
  ASSUME Inv, NamesInv, NEW c \in Conns, Unregister(c)
  PROVE  NamesInv'
<1>1. main' = main /\ pc[c] = "remove"
  BY DEF Unregister
<1>2. CASE Removable(found[c])
  <2>1. RemoveEntry(found[c]) /\ raced' = (raced \/ main.at = "append")
    BY <1>2 DEF Unregister
  <2>2. CASE main.at = "append"
    BY <2>1, <2>2 DEF NamesInv
  <2>3. CASE main.at # "append"
    <3>1. raced \in BOOLEAN /\ found[c] \in Nat \ {0} /\ count \in Nat /\ found[c] <= count
      BY <1>1, <1>2, ConstantsAssumption DEF Inv, Types, Waits, TableOK, Removable
    <3>2. raced' = raced
      BY <2>1, <2>3, <3>1, Zenon
    <3>3. PICK i \in 1 .. count : i = found[c]
      BY <3>1
    <3>4. RemoveEntry(i)
      BY <2>1, <3>3
    <3>5. QED
      BY <1>1, <2>3, <3>2, <3>4, NamesRemoval
  <2>4. QED
    BY <2>2, <2>3
<1>3. CASE ~ Removable(found[c])
  BY <1>1, <1>3, NamesFrame DEF Unregister, plugins
<1>4. QED
  BY <1>2, <1>3

\* plugin_register has looked through the whole table.
LEMMA NamesRegistering ==
  ASSUME Inv, NamesInv, NEW m \in MainStates, m.who \in Conns, m.fd \in Fds,
         main' = Registering(m), UNCHANGED <<table, count, raced>>
  PROVE  NamesInv'
<1>1. CASE raced
  BY <1>1 DEF NamesInv
<1>2. CASE ~ raced
  <2>1. Distinct'
    BY <1>2 DEF NamesInv, Distinct
  <2>2. main'.at = "append" =>
          main'.i = count + 1 /\ main'.name = m.name /\ Named(m.name) = {}
    BY RegisteringState
  <2>3. SlotNext'
    BY <2>2 DEF SlotNext, Named
  <2>4. QED
    BY <2>1, <2>3 DEF NamesInv
<1>3. QED
  BY <1>1, <1>2

LEMMA NamesRegister ==
  ASSUME Inv, NamesInv, HandleRegister
  PROVE  NamesInv'
<1>1. /\ Ready /\ Msg.kind = "register"
      /\ main' = Registering(Call(Asker, Msg.name, Nobody))
      /\ UNCHANGED <<table, count, raced>>
  BY DEF HandleRegister, plugins
<1>2. Asker \in Conns /\ wfd[Asker] \in Fds /\ Msg \in Sendable
  BY <1>1, Served1, Zenon DEF Ready, Asker, Msg
<1>3. Msg.name \in Names
  BY <1>1, <1>2 DEF Sendable, Message
<1> DEFINE m == Call(Asker, Msg.name, Nobody)
<1>4. m \in MainStates /\ m.who \in Conns /\ m.fd \in Fds
  BY <1>2, <1>3, CallState
<1> HIDE DEF m
<1>5. main' = Registering(m)
  BY <1>1 DEF m
<1>6. QED
  BY <1>1, <1>4, <1>5, NamesRegistering

LEMMA NamesSubscribe ==
  ASSUME Inv, NamesInv, HandleSubscribe
  PROVE  NamesInv'
<1>1. /\ Ready /\ Msg.kind = "subscribe"
      /\ main' = IF Holders(wfd[Asker]) # {}
                  THEN [AutoCall EXCEPT !.at = "mark", !.i = Min(Holders(wfd[Asker]))]
                  ELSE IF RoomLeft THEN Registering(AutoCall) ELSE ReplyTo(Asker)
      /\ UNCHANGED <<table, count, raced>>
  BY DEF HandleSubscribe, plugins
<1>2. Asker \in Conns /\ wfd[Asker] \in Fds /\ Msg \in Sendable
  BY <1>1, Served1, Zenon DEF Ready, Asker, Msg
<1>3. Msg.ev \in Events
  BY <1>1, <1>2 DEF Sendable, Message
<1>4. AutoCall \in MainStates /\ AutoCall.who \in Conns /\ AutoCall.fd \in Fds
  BY <1>2, <1>3, CallState, AutoNames DEF AutoCall
<1>5. CASE Holders(wfd[Asker]) # {}
  <2>1. main'.at = "mark"
    BY <1>1, <1>4, <1>5 DEF MainStates
  <2>2. QED
    BY <1>1, <2>1, NamesFrame
<1>6. CASE Holders(wfd[Asker]) = {} /\ RoomLeft
  BY <1>1, <1>4, <1>6, NamesRegistering
<1>7. CASE Holders(wfd[Asker]) = {} /\ ~ RoomLeft
  <2>1. main' = ReplyTo(Asker)
    BY <1>1, <1>7
  <2>2. main'.at = "reply"
    BY <1>2, <2>1, ReplyState
  <2>3. QED
    BY <1>1, <2>2, NamesFrame
<1>8. QED
  BY <1>5, <1>6, <1>7

LEMMA NamesExisting ==
  ASSUME Inv, NamesInv, RegisterExisting
  PROVE  NamesInv'
<1>1. main.at = "existing" /\ UNCHANGED <<count, raced>>
  BY DEF RegisterExisting
<1>2. main \in MainStates /\ main.who \in Conns /\ main.fd \in Fds /\ main.i \in 1 .. PluginMax
  BY <1>1, InCall DEF Calls, Inv, MainOK, Fits
<1>3. PICK i \in 1 .. PluginMax : i = main.i
  BY <1>2
<1>4. table \in [1 .. PluginMax -> Plugin] /\ table[i] \in Plugin
  BY DEF Inv, TableOK
<1>5. CASE table[i].fd = main.fd
  <2>1. /\ table' = [table EXCEPT ![i].connected = TRUE, ![i].mask = {}]
        /\ main' = Registered(main)
    BY <1>3, <1>5 DEF RegisterExisting
  <2> DEFINE e == [table[i] EXCEPT !.connected = TRUE, !.mask = {}]
  <2>2. e \in Plugin /\ e.name = table[i].name
    BY <1>4 DEF Plugin
  <2>3. table' = [table EXCEPT ![i] = e]
    BY <1>4, <2>1 DEF Plugin
  <2> HIDE DEF e
  <2>4. main'.at # "append"
    BY <1>2, <2>1, RegisteredState
  <2>5. QED
    BY <1>1, <2>2, <2>3, <2>4, NameStays
<1>6. CASE table[i].fd # main.fd
  <2>1. table' = table /\ main' = [main EXCEPT !.at = "takeover"]
    BY <1>3, <1>6 DEF RegisterExisting
  <2>2. main'.at # "append"
    BY <1>2, <2>1 DEF MainStates
  <2>3. QED
    BY <1>1, <2>1, <2>2, NamesFrame
<1>7. QED
  BY <1>5, <1>6

LEMMA NamesTakeover ==
  ASSUME Inv, NamesInv, RegisterTakeover
  PROVE  NamesInv'
<1>1. main.at = "takeover" /\ main' = Registered(main) /\ UNCHANGED <<count, raced>>
  BY DEF RegisterTakeover
<1>2. main \in MainStates /\ main.who \in Conns /\ main.fd \in Fds /\ main.i \in 1 .. PluginMax
  BY <1>1, InCall DEF Calls, Inv, MainOK, Fits
<1>3. PICK i \in 1 .. PluginMax : i = main.i
  BY <1>2
<1>4. table \in [1 .. PluginMax -> Plugin] /\ table[i] \in Plugin
  BY DEF Inv, TableOK
<1> DEFINE e == [table[i] EXCEPT !.fd = main.fd, !.connected = TRUE, !.mask = {}]
<1>5. e \in Plugin /\ e.name = table[i].name
  BY <1>2, <1>4 DEF Plugin
<1>6. table' = [table EXCEPT ![i] = e]
  BY <1>3, <1>4 DEF RegisterTakeover, Plugin
<1> HIDE DEF e
<1>7. main'.at # "append"
  BY <1>1, <1>2, RegisteredState
<1>8. QED
  BY <1>1, <1>5, <1>6, <1>7, NameStays

\* The new entry: nobody else has its name.
LEMMA NamesAppend ==
  ASSUME Inv, NamesInv, RegisterAppend
  PROVE  NamesInv'
<1>1. /\ main.at = "append" /\ main' = Registered(main) /\ count' = count + 1 /\ raced' = raced
      /\ table' = [table EXCEPT ![main.i] =
                     [name |-> main.name, fd |-> main.fd, mask |-> {}, connected |-> TRUE]]
  BY DEF RegisterAppend
<1>2. main \in MainStates /\ main.who \in Conns /\ main.fd \in Fds
  BY <1>1, InCall DEF Calls
<1>3. main'.at # "append"
  BY <1>1, <1>2, RegisteredState
<1>4. CASE raced
  BY <1>1, <1>4 DEF NamesInv
<1>5. CASE ~ raced
  <2>1. Distinct /\ main.i = count + 1 /\ Named(main.name) = {}
    BY <1>1, <1>5 DEF NamesInv, SlotNext
  <2>2. /\ count \in Nat /\ count + 1 \in 1 .. PluginMax
        /\ table \in [1 .. PluginMax -> Plugin] /\ PluginMax \in Nat
    BY <1>1, <2>1, ConstantsAssumption DEF Inv, TableOK, MainOK, Fits
  <2>3. \A k \in 1 .. count : k \in 1 .. PluginMax /\ k # count + 1
    BY <2>2
  <2>4. \A k \in 1 .. count : table'[k] = table[k]
    BY <1>1, <2>1, <2>2, <2>3
  <2>5. table'[count + 1].name = main.name
    BY <1>1, <2>1, <2>2
  <2>6. \A k \in 1 .. count : table[k].name # main.name
    BY <2>1 DEF Named
  <2>7. \A k \in 1 .. count' : k \in 1 .. count \/ k = count + 1
    BY <1>1, <2>2
  <2>8. Distinct'
    BY <2>1, <2>4, <2>5, <2>6, <2>7 DEF Distinct
  <2>9. QED
    BY <1>3, <2>8 DEF NamesInv, SlotNext
<1>6. QED
  BY <1>4, <1>5

LEMMA NamesMark ==
  ASSUME Inv, NamesInv, SubscribeMark \/ NotifyFailed
  PROVE  NamesInv'
<1>1. main.at \in {"mark", "send"} /\ UNCHANGED <<count, raced>>
  BY DEF SubscribeMark, NotifyFailed
<1>2. PICK i \in 1 .. PluginMax : i = main.i
  BY <1>1 DEF Inv, MainOK, Fits
<1>3. table \in [1 .. PluginMax -> Plugin] /\ table[i] \in Plugin /\ main \in MainStates
  BY DEF Inv, Types, TableOK
<1>4. CASE SubscribeMark
  <2> DEFINE e == [table[i] EXCEPT !.mask = @ \cup {main.ev}, !.connected = TRUE]
  <2>1. main.ev \in Events /\ main.who \in Conns
    BY <1>4, InCall DEF SubscribeMark, Calls, Inv, MainOK, Fits
  <2>2. e \in Plugin /\ e.name = table[i].name
    BY <1>3, <2>1 DEF Plugin
  <2>3. table' = [table EXCEPT ![i] = e]
    BY <1>2, <1>3, <1>4 DEF SubscribeMark, Plugin
  <2> HIDE DEF e
  <2>4. main'.at # "append"
    BY <1>4, <2>1, ReplyState DEF SubscribeMark
  <2>5. QED
    BY <1>1, <2>2, <2>3, <2>4, NameStays
<1>5. CASE NotifyFailed
  <2> DEFINE e == [table[i] EXCEPT !.connected = FALSE]
  <2>1. e \in Plugin /\ e.name = table[i].name
    BY <1>3 DEF Plugin
  <2>2. table' = [table EXCEPT ![i] = e]
    BY <1>2, <1>3, <1>5 DEF NotifyFailed, Plugin
  <2> HIDE DEF e
  <2>3. main'.at # "append"
    BY <1>3, <1>5 DEF NotifyFailed, MainStates
  <2>4. QED
    BY <1>1, <2>1, <2>2, <2>3, NameStays
<1>6. QED
  BY <1>4, <1>5

\* The other steps of the main thread write no entry.
LEMMA NamesOthers ==
  ASSUME Inv, NamesInv,
         \/ HandleMalformed \/ HandleQuery \/ HandleTrigger \/ SystemEvent \/ HealthTick
         \/ SubscribeFindAgain \/ NotifyNext \/ NotifySent \/ ReplySent \/ ReplyFailed
         \/ HealthNext
  PROVE  NamesInv'
<1>1. UNCHANGED <<table, count, raced>>
  BY DEF HandleMalformed, HandleQuery, HandleTrigger, SystemEvent, HealthTick,
         SubscribeFindAgain, NotifyNext, NotifySent, ReplySent, ReplyFailed, Return,
         HealthNext, plugins
<1>2. main \in MainStates
  BY DEF Inv, Types
<1>3. main' = main \/ main'.at # "append"
  <2>1. CASE SubscribeFindAgain
    <3>1. \/ main' = ReplyTo(main.who)
          \/ main' = [main EXCEPT !.at = "mark", !.i = Min(Holders(main.fd))]
      BY <2>1 DEF SubscribeFindAgain
    <3>2. CASE main' = ReplyTo(main.who)
      BY <3>2 DEF ReplyTo, Idle
    <3>3. CASE main' = [main EXCEPT !.at = "mark", !.i = Min(Holders(main.fd))]
      BY <1>2, <3>3 DEF MainStates
    <3>4. QED
      BY <3>1, <3>2, <3>3
  <2>2. CASE NotifyNext
    <3>1. \/ main' = Idle \/ main' = ReplyTo(main.who)
          \/ main' = [main EXCEPT !.at = "send", !.fd = table[main.i].fd]
          \/ main.at = "notify" /\ main' = [main EXCEPT !.i = @ + 1]
      BY <2>2, Zenon DEF NotifyNext
    <3>2. Idle.at # "append" /\ ReplyTo(main.who).at # "append"
      BY DEF ReplyTo, Idle
    <3>3. CASE main' = [main EXCEPT !.at = "send", !.fd = table[main.i].fd]
      BY <1>2, <3>3 DEF MainStates
    <3>4. CASE main.at = "notify" /\ main' = [main EXCEPT !.i = @ + 1]
      BY <1>2, <3>4 DEF MainStates
    <3>5. QED
      BY <3>1, <3>2, <3>3, <3>4
  <2>3. CASE NotifySent
    BY <1>2, <2>3 DEF NotifySent, MainStates
  <2>4. CASE HandleMalformed \/ HandleQuery \/ HandleTrigger \/ SystemEvent \/ HealthTick
    BY <2>4 DEF HandleMalformed, HandleQuery, HandleTrigger, SystemEvent, HealthTick, ReplyTo,
                Notifying, Idle
  <2>5. CASE ReplySent \/ ReplyFailed
    <3>1. main' = Idle
      BY <2>5, Zenon DEF ReplySent, ReplyFailed, Return
    <3>2. QED
      BY <3>1 DEF Idle
  <2>6. CASE HealthNext
    <3>1. \/ main' = Idle
          \/ main' = [main EXCEPT !.at = "drop", !.k = Min(Holders(table[main.i].fd))]
          \/ main.at = "health" /\ main' = [main EXCEPT !.i = @ + 1]
      BY <2>6, Zenon DEF HealthNext
    <3>2. Idle.at # "append"
      BY DEF Idle
    <3>3. CASE main' = [main EXCEPT !.at = "drop", !.k = Min(Holders(table[main.i].fd))]
      BY <1>2, <3>3 DEF MainStates
    <3>4. CASE main.at = "health" /\ main' = [main EXCEPT !.i = @ + 1]
      BY <1>2, <3>4 DEF MainStates
    <3>5. QED
      BY <3>1, <3>2, <3>3, <3>4
  <2>7. QED
    BY <2>1, <2>2, <2>3, <2>4, <2>5, <2>6
<1>4. QED
  BY <1>1, <1>3, NamesFrame

LEMMA NamesDrop ==
  ASSUME Inv, NamesInv, HealthDrop
  PROVE  NamesInv'
<1>1. /\ main.at = "drop" /\ raced' = raced /\ main \in MainStates
      /\ main' = [main EXCEPT !.at = "health", !.k = 0]
  BY DEF HealthDrop, Inv, Types
<1>2. main.at # "append" /\ main'.at # "append" /\ main.k \in Nat \ {0}
  BY <1>1 DEF MainStates, Inv, MainOK, Fits
<1>3. CASE Removable(main.k)
  <2>1. PICK k \in 1 .. count : RemoveEntry(k)
    BY <1>2, <1>3, ConstantsAssumption DEF HealthDrop, Removable, Inv, TableOK
  <2>2. QED
    BY <1>1, <1>2, <2>1, NamesRemoval
<1>4. CASE ~ Removable(main.k)
  BY <1>1, <1>2, <1>4, NamesFrame DEF HealthDrop
<1>5. QED
  BY <1>3, <1>4

LEMMA NamesStep == Inv /\ NamesInv /\ [Next]_vars => NamesInv'
<1> SUFFICES ASSUME Inv, NamesInv, [Next]_vars
             PROVE  NamesInv'
  OBVIOUS
<1>1. CASE UNCHANGED vars
  BY <1>1, NamesFrame DEF vars, plugins
<1>2. CASE \E c \in Conns : Connect(c) \/ Send(c) \/ Receive(c) \/ Leave(c) \/ Worker(c)
  BY <1>2, NamesClients, NamesWorkers, NamesUnregister, Zenon DEF Worker
<1>3. CASE Handle
  BY <1>3, NamesOthers, NamesRegister, NamesSubscribe, Zenon DEF Handle
<1>4. CASE SystemEvent \/ HealthTick
  BY <1>4, NamesOthers, Zenon
<1>5. CASE Proceed
  BY <1>5, NamesExisting, NamesTakeover, NamesAppend, NamesMark, NamesOthers, NamesDrop,
     Zenon DEF Proceed
<1>6. QED
  BY <1>1, <1>2, <1>3, <1>4, <1>5, Zenon DEF Next

\* plugin_find_name finds at most one entry, for clients that register any names
\* they like and take each other's over: removals at stale indices, takeovers and
\* subscriptions list no name twice.  The one thing that does is a worker that
\* removes an entry after plugin_register has taken its slot pointer and before
\* g_count++, and until then the slot is the next one and the name still free.
THEOREM NamesUnique == Spec => []UniqueNames
<1>1. NamesInv => UniqueNames
  BY DEF NamesInv, Distinct, UniqueNames
<1>2. QED
  BY <1>1, Always, NamesInitially, NamesStep, PTL DEF Spec

-----------------------------------------------------------------------------
(* No number is closed under its worker but by a registration *)

Active == {"reading", "waiting", "closing"}

\* An open number is that of a running worker, and a worker that has not closed
\* its number yet still has it, unless a registration has closed it.
Kept ==
  /\ \A f \in Fds : file[f] # Free => wfd[file[f]] = f /\ pc[file[f]] # "none"
  /\ \A c \in Conns : pc[c] \in Active => file[wfd[c]] = c \/ wfd[c] \in taken

LEMMA KeptInitially == Init => Kept
BY DEF Init, Kept, Active

LEMMA KeptFrame ==
  ASSUME Kept, UNCHANGED <<file, taken, wfd>>,
         \A c \in Conns : /\ pc'[c] \in Active => pc[c] \in Active
                          /\ pc[c] # "none" => pc'[c] # "none",
         \A f \in Fds : file[f] # Free => file[f] \in Conns
  PROVE  Kept'
<1>1. \A f \in Fds : file'[f] # Free => wfd'[file'[f]] = f /\ pc'[file'[f]] # "none"
  BY DEF Kept
<1>2. \A c \in Conns : pc'[c] \in Active => file'[wfd'[c]] = c \/ wfd'[c] \in taken'
  BY DEF Kept
<1>3. QED
  BY <1>1, <1>2 DEF Kept

LEMMA KeptAccept ==
  ASSUME Inv, Kept, NEW c \in Conns, Accept(c)
  PROVE  Kept'
<1>1. PICK f \in Fds : /\ file[f] = Free
                       /\ file' = [file EXCEPT ![f] = c]
                       /\ wfd' = [wfd EXCEPT ![c] = f]
  BY DEF Accept
<1>2. /\ pc[c] = "none" /\ pc' = [pc EXCEPT ![c] = "reading"] /\ taken' = taken
      /\ file \in [Fds -> Conns \cup {Free}] /\ wfd \in [Conns -> Fds \cup {Free}]
      /\ pc \in [Conns -> WorkerPlaces]
  BY DEF Accept, Inv, Types
<1>3. ASSUME NEW g \in Fds, file'[g] # Free
      PROVE  wfd'[file'[g]] = g /\ pc'[file'[g]] # "none"
  <2>1. CASE g = f
    BY <1>1, <1>2, <2>1
  <2>2. CASE g # f
    <3>1. file'[g] = file[g] /\ file[g] # Free /\ file[g] \in Conns
      BY <1>1, <1>2, <1>3, <2>2
    <3>2. wfd[file[g]] = g /\ pc[file[g]] # "none"
      BY <3>1 DEF Kept
    <3>3. file[g] # c
      BY <1>2, <3>2
    <3>4. QED
      BY <1>1, <1>2, <3>1, <3>2, <3>3
  <2>3. QED
    BY <2>1, <2>2
<1>4. ASSUME NEW d \in Conns, pc'[d] \in Active
      PROVE  file'[wfd'[d]] = d \/ wfd'[d] \in taken'
  <2>1. CASE d = c
    BY <1>1, <1>2, <2>1
  <2>2. CASE d # c
    <3>1. wfd'[d] = wfd[d] /\ pc'[d] = pc[d]
      BY <1>1, <1>2, <2>2
    <3>2. file[wfd[d]] = d \/ wfd[d] \in taken
      BY <1>4, <3>1 DEF Kept
    <3>3. CASE wfd[d] \in taken
      BY <1>2, <3>1, <3>3
    <3>4. CASE file[wfd[d]] = d
      <4>1. wfd[d] # f /\ wfd[d] \in Fds
        BY <1>1, <1>4, <3>1, <3>4, ConstantsAssumption DEF Inv, Waits, Active
      <4>2. QED
        BY <1>1, <1>2, <3>1, <3>4, <4>1
    <3>5. QED
      BY <3>2, <3>3, <3>4
  <2>3. QED
    BY <2>1, <2>2
<1>5. QED
  BY <1>3, <1>4 DEF Kept

LEMMA KeptClose ==
  ASSUME Inv, Kept, NEW c \in Conns, Close(c)
  PROVE  Kept'
<1>1. /\ pc[c] = "closing" /\ pc' = [pc EXCEPT ![c] = "search"]
      /\ file' = [file EXCEPT ![wfd[c]] = Free] /\ UNCHANGED <<taken, wfd>>
      /\ file \in [Fds -> Conns \cup {Free}] /\ wfd \in [Conns -> Fds \cup {Free}]
      /\ pc \in [Conns -> WorkerPlaces]
  BY DEF Close, Inv, Types
<1>2. wfd[c] \in Fds
  BY <1>1 DEF Inv, Waits
<1>3. ASSUME NEW g \in Fds, file'[g] # Free
      PROVE  wfd'[file'[g]] = g /\ pc'[file'[g]] # "none"
  <2>1. file'[g] = file[g] /\ file[g] \in Conns
    BY <1>1, <1>2, <1>3
  <2>2. wfd[file[g]] = g /\ pc[file[g]] # "none"
    BY <1>3, <2>1 DEF Kept
  <2>3. QED
    BY <1>1, <2>1, <2>2
<1>4. ASSUME NEW d \in Conns, pc'[d] \in Active
      PROVE  file'[wfd'[d]] = d \/ wfd'[d] \in taken'
  <2>1. d # c /\ pc'[d] = pc[d] /\ wfd'[d] = wfd[d]
    BY <1>1, <1>4 DEF Active
  <2>2. file[wfd[d]] = d \/ wfd[d] \in taken
    BY <1>4, <2>1 DEF Kept
  <2>3. file[wfd[c]] = c \/ wfd[c] \in taken
    BY <1>1 DEF Kept, Active
  <2>4. wfd[d] \in Fds
    BY <1>4, <2>1 DEF Inv, Waits, Active
  <2>5. CASE wfd[d] = wfd[c]
    <3>1. wfd[d] \in taken
      BY <2>1, <2>2, <2>3, <2>5
    <3>2. QED
      BY <1>1, <2>1, <3>1
  <2>6. CASE wfd[d] # wfd[c]
    <3>1. file'[wfd[d]] = file[wfd[d]]
      BY <1>1, <2>4, <2>6
    <3>2. QED
      BY <1>1, <2>1, <2>2, <3>1
  <2>7. QED
    BY <2>5, <2>6
<1>5. QED
  BY <1>3, <1>4 DEF Kept

\* A registration remembers the number it closes.
LEMMA KeptExisting ==
  ASSUME Inv, Kept, RegisterExisting
  PROVE  Kept'
<1> DEFINE old == table[main.i].fd
<1>1. /\ file' = [f \in Fds |-> IF f \in Superseded(old, main.fd) THEN Free ELSE file[f]]
      /\ taken' = taken \cup (({old} \ {main.fd}) \cap {f \in Fds : file[f] # Free})
      /\ UNCHANGED <<pc, wfd>>
  BY DEF RegisterExisting, workers
<1>2. file \in [Fds -> Conns \cup {Free}]
  BY DEF Inv, Types
<1> HIDE DEF old
<1>3. ASSUME NEW g \in Fds, file'[g] # Free
      PROVE  wfd'[file'[g]] = g /\ pc'[file'[g]] # "none"
  <2>1. file'[g] = file[g]
    BY <1>1, <1>3
  <2>2. QED
    BY <1>1, <1>3, <2>1 DEF Kept
<1>4. ASSUME NEW d \in Conns, pc'[d] \in Active
      PROVE  file'[wfd'[d]] = d \/ wfd'[d] \in taken'
  <2>1. pc[d] \in Active /\ wfd'[d] = wfd[d]
    BY <1>1, <1>4
  <2>2. wfd[d] \in Fds
    BY <2>1 DEF Inv, Waits, Active
  <2>3. CASE wfd[d] \in taken
    BY <1>1, <2>1, <2>3
  <2>4. CASE file[wfd[d]] = d
    <3>1. file[wfd[d]] # Free
      BY <2>4, ConstantsAssumption
    <3>2. CASE wfd[d] \in Superseded(old, main.fd)
      BY <1>1, <2>1, <2>2, <3>1, <3>2 DEF Superseded
    <3>3. CASE wfd[d] \notin Superseded(old, main.fd)
      BY <1>1, <2>1, <2>2, <2>4, <3>3
    <3>4. QED
      BY <3>2, <3>3
  <2>5. QED
    BY <2>1, <2>3, <2>4 DEF Kept
<1>5. QED
  BY <1>3, <1>4 DEF Kept

LEMMA KeptClients ==
  ASSUME Inv, Kept,
         NEW c \in Conns, Connect(c) \/ Send(c) \/ Receive(c) \/ Leave(c)
  PROVE  Kept'
<1>1. UNCHANGED <<file, taken, wfd, pc>>
  BY DEF Connect, Send, Receive, Leave, numbers, workers
<1>2. QED
  BY <1>1, KeptFrame DEF Inv, Types

LEMMA KeptWorkers ==
  ASSUME Inv, Kept,
         NEW c \in Conns, Read(c) \/ ReadFails(c) \/ Search(c) \/ Unregister(c)
  PROVE  Kept'
<1>1. UNCHANGED <<file, taken, wfd>>
  BY DEF Read, ReadFails, Search, Unregister, numbers
<1>2. /\ pc[c] # "none" /\ pc' = [pc EXCEPT ![c] = pc'[c]] /\ pc'[c] # "none"
      /\ pc'[c] \in Active => pc[c] \in Active
      /\ pc \in [Conns -> WorkerPlaces]
  BY DEF Read, ReadFails, Search, Unregister, Posted, Active, Inv, Types
<1>3. QED
  BY <1>1, <1>2, KeptFrame DEF Inv, Types

\* The main thread closes no other number, and only lets workers go on.
LEMMA KeptMain ==
  ASSUME Inv, Kept,
         \/ Handle \/ SystemEvent \/ HealthTick
         \/ RegisterTakeover \/ RegisterAppend \/ SubscribeFindAgain \/ SubscribeMark
         \/ NotifyNext \/ NotifySent \/ NotifyFailed \/ ReplySent \/ ReplyFailed
         \/ HealthNext \/ HealthDrop
  PROVE  Kept'
<1>1. CASE HandleMalformed \/ ReplySent \/ ReplyFailed
  <2>1. PICK c \in Conns : pc[c] = "waiting" /\ pc' = [pc EXCEPT ![c] = "reading"]
    <3>1. CASE HandleMalformed
      BY <3>1, Served1 DEF HandleMalformed, Ready, Asker
    <3>2. CASE ReplySent \/ ReplyFailed
      <4>1. /\ main.at = "reply" /\ pc' = [pc EXCEPT ![main.who] = "reading"]
        BY <3>2 DEF ReplySent, ReplyFailed, Return
      <4>2. mainq # <<>> /\ main.who = Head(mainq)
        BY <4>1 DEF Inv, MainOK, Fits
      <4>3. QED
        BY <4>1, <4>2, Served1
    <3>3. QED
      BY <1>1, <3>1, <3>2
  <2>2. UNCHANGED <<file, taken, wfd>>
    BY <1>1 DEF HandleMalformed, ReplySent, ReplyFailed, Return, numbers
  <2>3. QED
    BY <2>1, <2>2, KeptFrame DEF Inv, Types, Active
<1>2. CASE ~ (HandleMalformed \/ ReplySent \/ ReplyFailed)
  <2>1. UNCHANGED <<file, taken, wfd, pc>>
    BY <1>2 DEF Handle, HandleRegister, HandleSubscribe, HandleQuery, HandleTrigger,
         SystemEvent, HealthTick, RegisterTakeover, RegisterAppend, SubscribeFindAgain,
         SubscribeMark, NotifyNext, NotifySent, NotifyFailed, HealthNext, HealthDrop, numbers,
         workers
  <2>2. QED
    BY <2>1, KeptFrame DEF Inv, Types
<1>3. QED
  BY <1>1, <1>2

LEMMA KeptStep == Inv /\ Kept /\ [Next]_vars => Kept'
<1> SUFFICES ASSUME Inv, Kept, [Next]_vars
             PROVE  Kept'
  OBVIOUS
<1>1. CASE UNCHANGED vars
  BY <1>1, KeptFrame DEF vars, numbers, workers, Inv, Types
<1>2. CASE \E c \in Conns : Connect(c) \/ Send(c) \/ Receive(c) \/ Leave(c) \/ Worker(c)
  BY <1>2, KeptClients, KeptWorkers, KeptAccept, KeptClose, Zenon DEF Worker
<1>3. CASE Handle \/ SystemEvent \/ HealthTick
  BY <1>3, KeptMain, Zenon
<1>4. CASE Proceed
  BY <1>4, KeptMain, KeptExisting, Zenon DEF Proceed
<1>5. QED
  BY <1>1, <1>2, <1>3, <1>4, Zenon DEF Next

\* Nothing but a registration of a name from another connection takes a number away
\* from the worker that reads it: neither a worker that closes a number it no longer
\* has, nor registering again on the same socket, nor the reuse of a freed number.
\* An open number belongs to the worker that accepted it, so a close of one's own
\* number hits nobody else unless that number was already taken away before.
THEOREM OwnNumbersKept == Spec => []OwnBlock
<1>1. Inv /\ Kept => OwnBlock
  BY DEF Kept, Active, OwnBlock
<1>2. QED
  BY <1>1, Always, KeptInitially, KeptStep, PTL DEF Spec

-----------------------------------------------------------------------------
(* Replies in order: what was asked is answered, waits, or is on its way *)

Answerable(m) == m.kind \notin {"malformed", "badframe"}

\* Client c's books: its messages on the way (q), what it asked (a) and was answered
\* (b), where its worker is (p) with which message (r), how many it sent (n) and
\* what became of it (cl).  The requests not yet answered are the one its worker
\* waits with and those on the way, unless the client is gone.
Ledger(c, q, a, b, p, r, n, cl) ==
  /\ \A i \in DOMAIN a : a[i][1] = c /\ a[i][2] <= n
  /\ \A i, j \in DOMAIN a : i < j => a[i][2] < a[j][2]
  /\ \A i \in DOMAIN q : q[i].n <= n
  /\ \A i, j \in DOMAIN q : i < j => q[i].n < q[j].n
  /\ p = "waiting" => r.n <= n /\ \A i \in DOMAIN q : r.n < q[i].n
  /\ Len(b) <= Len(a) /\ \A i \in DOMAIN b : b[i] = a[i]
  /\ cl # "gone" =>
       /\ \A i \in DOMAIN a : i > Len(b) =>
            \/ p = "waiting" /\ Answerable(r) /\ r.n = a[i][2]
            \/ \E j \in DOMAIN q : Answerable(q[j]) /\ q[j].n = a[i][2]
       /\ \A j \in DOMAIN q : Answerable(q[j]) =>
            \E i \in DOMAIN a : i > Len(b) /\ a[i][2] = q[j].n
       /\ p = "waiting" /\ Answerable(r) =>
            \E i \in DOMAIN a : i > Len(b) /\ a[i][2] = r.n

\* From then on other workers may read what c sends, and c's may read what others do.
Spoilt(c) == pc[c] # "none" /\ wfd[c] \in taken

Ledgers ==
  \A c \in Conns :
    /\ \A i \in DOMAIN inbox[c] : inbox[c][i].from = c
    /\ ~ Spoilt(c) =>
         /\ pc[c] = "waiting" => req[c].from = c
         /\ Ledger(c, inbox[c], asked[c], answered[c], pc[c], req[c], sent[c], client[c])

Lasting == \A c \in Conns : pc[c] # "none" => pc'[c] # "none" /\ wfd'[c] = wfd[c]

\* Only a request that gets a reply keeps the main thread busy for its sender.
ServesAnswerable == main.who # Nobody => Answerable(req[main.who])

Books(q, a, b, p, r, n) ==
  /\ q \in Seq(Sendable) /\ a \in Seq(Conns \X Nat) /\ b \in Seq(Conns \X Nat)
  /\ p = "waiting" => r \in Sendable
  /\ n \in Nat

LEMMA BooksTypes ==
  ASSUME NEW q, NEW a, NEW b, NEW p, NEW r, NEW n, Books(q, a, b, p, r, n)
  PROVE  /\ Len(q) \in Nat /\ DOMAIN q = 1 .. Len(q)
         /\ Len(a) \in Nat /\ DOMAIN a = 1 .. Len(a)
         /\ Len(b) \in Nat /\ DOMAIN b = 1 .. Len(b)
         /\ \A i \in DOMAIN q : q[i] \in Sendable /\ q[i].n \in Nat
         /\ \A i \in DOMAIN a : a[i] \in Conns \X Nat /\ a[i][2] \in Nat
         /\ p = "waiting" => r.n \in Nat
         /\ n \in Nat
<1>1. /\ q \in Seq(Sendable) /\ a \in Seq(Conns \X Nat) /\ b \in Seq(Conns \X Nat)
      /\ p = "waiting" => r \in Sendable
      /\ n \in Nat
  BY DEF Books
<1>2. \A m \in Sendable : m.n \in Nat
  BY DEF Sendable, Message
<1>3. \A x \in Conns \X Nat : x[2] \in Nat
  OBVIOUS
<1>4. /\ Len(q) \in Nat /\ DOMAIN q = 1 .. Len(q)
      /\ Len(a) \in Nat /\ DOMAIN a = 1 .. Len(a)
      /\ Len(b) \in Nat /\ DOMAIN b = 1 .. Len(b)
  BY <1>1
<1>5. (\A i \in DOMAIN q : q[i] \in Sendable) /\ \A i \in DOMAIN a : a[i] \in Conns \X Nat
  BY <1>1
<1>6. QED
  BY <1>1, <1>2, <1>3, <1>4, <1>5

\* The worker takes a message off the way.
LEMMA LedgerRead ==
  ASSUME NEW c, NEW q, NEW a, NEW b, NEW p, NEW r, NEW n, NEW cl,
         Books(q, a, b, p, r, n), Ledger(c, q, a, b, p, r, n, cl),
         q # <<>>, p # "waiting",
         NEW place, place = "waiting" \/ ~ Answerable(Head(q))
  PROVE  Ledger(c, Tail(q), a, b, place, Head(q), n, cl)
<1> DEFINE m == Head(q)
           t == Tail(q)
           k == Len(q)
<1>1. /\ k \in Nat /\ DOMAIN q = 1 .. k /\ \A i \in DOMAIN q : q[i].n \in Nat
  BY BooksTypes
<1>2. /\ m = q[1] /\ 1 \in 1 .. k /\ DOMAIN t = 1 .. k - 1
      /\ \A i \in 1 .. k - 1 : t[i] = q[i + 1]
  BY <1>1 DEF Books
<1> HIDE DEF m, t, k
<1>3. \A i \in 1 .. k - 1 : i + 1 \in 1 .. k /\ 1 < i + 1
  BY <1>1
<1>4. \A j \in 1 .. k : j = 1 \/ (j - 1 \in 1 .. k - 1 /\ (j - 1) + 1 = j)
  BY <1>1
<1>5. \A i, j \in DOMAIN t : i < j => t[i].n < t[j].n
  <2>1. \A i, j \in 1 .. k : i < j => q[i].n < q[j].n
    BY <1>1 DEF Ledger
  <2>2. \A i, j \in 1 .. k - 1 : i < j => i + 1 < j + 1
    BY <1>1
  <2>3. QED
    BY <1>2, <1>3, <2>1, <2>2
<1>6. m.n <= n /\ \A i \in DOMAIN t : m.n < t[i].n /\ t[i].n <= n
  <2>1. \A j \in 1 .. k : q[j].n <= n /\ (1 < j => q[1].n < q[j].n)
    BY <1>1, <1>2 DEF Ledger
  <2>2. q[1].n <= n
    BY <1>2, <2>1
  <2>3. ASSUME NEW i \in 1 .. k - 1
        PROVE  q[1].n < t[i].n /\ t[i].n <= n
    <3>1. i + 1 \in 1 .. k /\ 1 < i + 1 /\ t[i] = q[i + 1]
      BY <1>2, <1>3
    <3>2. QED
      BY <2>1, <3>1
  <2>4. QED
    BY <1>2, <2>2, <2>3
<1>7. ASSUME cl # "gone", NEW i \in DOMAIN a, i > Len(b)
      PROVE  \/ place = "waiting" /\ Answerable(m) /\ m.n = a[i][2]
             \/ \E j \in DOMAIN t : Answerable(t[j]) /\ t[j].n = a[i][2]
  <2>1. PICK j \in 1 .. k : Answerable(q[j]) /\ q[j].n = a[i][2]
    BY <1>1, <1>7 DEF Ledger
  <2>2. CASE j = 1
    BY <1>2, <2>1, <2>2 DEF m
  <2>3. CASE j # 1
    <3>1. j - 1 \in DOMAIN t /\ t[j - 1] = q[j]
      BY <1>2, <1>4, <2>3
    <3>2. QED
      BY <2>1, <3>1
  <2>4. QED
    BY <2>2, <2>3
<1>8. ASSUME cl # "gone", NEW x, x = m \/ (\E j \in DOMAIN t : x = t[j]), Answerable(x)
      PROVE  \E i \in DOMAIN a : i > Len(b) /\ a[i][2] = x.n
  <2>1. PICK j \in 1 .. k : x = q[j]
    BY <1>2, <1>3, <1>8
  <2>2. QED
    BY <1>1, <1>8, <2>1 DEF Ledger
<1>9. QED
  BY <1>5, <1>6, <1>7, <1>8 DEF Ledger, m, t

\* The worker goes on with a message that gets no reply, or with a client that is gone.
LEMMA LedgerSkip ==
  ASSUME NEW c, NEW q, NEW a, NEW b, NEW r, NEW n, NEW cl,
         Ledger(c, q, a, b, "waiting", r, n, cl), ~ Answerable(r) \/ cl = "gone"
  PROVE  Ledger(c, q, a, b, "reading", r, n, cl)
BY DEF Ledger

\* The worker leaves a place, and takes one, where it does not wait.
LEMMA LedgerMove ==
  ASSUME NEW c, NEW q, NEW a, NEW b, NEW p, NEW r, NEW n, NEW cl, NEW place, NEW cm,
         Ledger(c, q, a, b, p, r, n, cl),
         place = "waiting" <=> p = "waiting", cm # "gone" => cl # "gone"
  PROVE  Ledger(c, q, a, b, place, r, n, cm)
BY DEF Ledger

LEMMA LedgerReply ==
  ASSUME NEW c, NEW q, NEW a, NEW b, NEW r, NEW n, NEW cl,
         Books(q, a, b, "waiting", r, n), Ledger(c, q, a, b, "waiting", r, n, cl),
         Answerable(r), cl # "gone"
  PROVE  Ledger(c, q, a, Append(b, <<c, r.n>>), "reading", r, n, cl)
<1> DEFINE k == Len(b) + 1
           z == Append(b, <<c, r.n>>)
<1>1. /\ Len(a) \in Nat /\ DOMAIN a = 1 .. Len(a) /\ Len(b) \in Nat /\ r.n \in Nat
      /\ \A i \in DOMAIN q : q[i].n \in Nat
      /\ \A i \in DOMAIN a : a[i] \in Conns \X Nat /\ a[i][2] \in Nat
  BY BooksTypes
<1>2. /\ Len(z) = k /\ DOMAIN z = 1 .. k /\ z[k] = <<c, r.n>>
      /\ \A i \in 1 .. Len(b) : z[i] = b[i]
  BY DEF Books
<1>3. k \in Nat /\ DOMAIN b = 1 .. Len(b)
  BY DEF Books
<1> HIDE DEF z
<1>4. PICK e \in DOMAIN a : e > Len(b) /\ a[e][2] = r.n
  BY DEF Ledger
<1>5. \A i \in DOMAIN a : i > Len(b) => r.n <= a[i][2]
  <2>1. ASSUME NEW i \in DOMAIN a, i > Len(b)
        PROVE  r.n <= a[i][2]
    <3>1. CASE r.n = a[i][2]
      BY <1>1, <3>1
    <3>2. CASE r.n # a[i][2]
      <4>1. PICK j \in DOMAIN q : q[j].n = a[i][2]
        BY <2>1, <3>2 DEF Ledger
      <4>2. r.n < q[j].n
        BY DEF Ledger
      <4>3. QED
        BY <1>1, <4>1, <4>2
    <3>3. QED
      BY <3>1, <3>2
  <2>2. QED
    BY <2>1
<1>6. k \in DOMAIN a /\ k > Len(b)
  BY <1>1, <1>4
<1>7. a[k][2] = r.n /\ a[k] = <<c, r.n>>
  <2>1. ~ (k < e)
    <3>1. r.n <= a[k][2] /\ (k < e => a[k][2] < a[e][2])
      BY <1>5, <1>6 DEF Ledger
    <3>2. QED
      BY <1>1, <1>4, <1>6, <3>1
  <2>2. k = e
    BY <1>1, <1>4, <2>1
  <2>3. a[k] = <<a[k][1], a[k][2]>> /\ a[k][1] = c
    BY <1>1, <1>6 DEF Ledger
  <2>4. QED
    BY <1>4, <2>2, <2>3
<1> HIDE DEF k
<1>8. k <= Len(a) /\ \A i \in DOMAIN z : z[i] = a[i]
  <2>1. \A i \in 1 .. k : i = k \/ i \in 1 .. Len(b)
    BY <1>1 DEF k
  <2>2. \A i \in 1 .. Len(b) : z[i] = a[i]
    BY <1>2, <1>3 DEF Ledger
  <2>3. z[k] = a[k]
    BY <1>2, <1>7
  <2>4. \A i \in DOMAIN z : z[i] = a[i]
    BY <1>2, <2>1, <2>2, <2>3
  <2>5. k <= Len(a)
    BY <1>1, <1>6
  <2>6. QED
    BY <2>4, <2>5
<1>9. ASSUME NEW i \in DOMAIN a, i > k
      PROVE  \E j \in DOMAIN q : Answerable(q[j]) /\ q[j].n = a[i][2]
  <2>1. i > Len(b)
    BY <1>1, <1>9 DEF k
  <2>2. a[k][2] < a[i][2]
    BY <1>1, <1>3, <1>6, <1>9 DEF Ledger
  <2>3. r.n # a[i][2]
    BY <1>1, <1>7, <2>2
  <2>4. QED
    BY <2>1, <2>3 DEF Ledger
<1>10. ASSUME NEW j \in DOMAIN q, Answerable(q[j])
       PROVE  \E i \in DOMAIN a : i > k /\ a[i][2] = q[j].n
  <2>1. PICK i \in DOMAIN a : i > Len(b) /\ a[i][2] = q[j].n
    BY <1>10 DEF Ledger
  <2>2. r.n < q[j].n
    BY DEF Ledger
  <2>3. i # k
    BY <1>1, <1>7, <2>1, <2>2
  <2>4. QED
    BY <1>1, <2>1, <2>3 DEF k
<1>11. QED
  BY <1>2, <1>8, <1>9, <1>10 DEF Ledger, z

\* The client sends a message; asking is remembered if it gets a reply.
LEMMA LedgerSend ==
  ASSUME NEW c \in Conns, NEW q, NEW a, NEW b, NEW p, NEW r, NEW n, NEW cl,
         Books(q, a, b, p, r, n), Ledger(c, q, a, b, p, r, n, cl),
         NEW m \in Sendable, m.n = n + 1,
         NEW z, z = IF Answerable(m) THEN Append(a, <<c, m.n>>) ELSE a
  PROVE  Ledger(c, Append(q, m), z, b, p, r, n + 1, cl)
<1> DEFINE t == Append(q, m)
           k == Len(q)
           l == Len(a)
<1>1. /\ k \in Nat /\ DOMAIN q = 1 .. k /\ l \in Nat /\ DOMAIN a = 1 .. l
      /\ Len(b) \in Nat /\ DOMAIN b = 1 .. Len(b)
      /\ \A i \in DOMAIN q : q[i].n \in Nat
      /\ \A i \in DOMAIN a : a[i] \in Conns \X Nat /\ a[i][2] \in Nat
      /\ p = "waiting" => r.n \in Nat
      /\ n \in Nat
  BY BooksTypes
<1>2. /\ DOMAIN t = 1 .. k + 1 /\ t[k + 1] = m /\ \A i \in 1 .. k : t[i] = q[i]
  BY DEF Books
<1>3. /\ Answerable(m) =>
           /\ Len(z) = l + 1 /\ DOMAIN z = 1 .. l + 1 /\ z[l + 1] = <<c, n + 1>>
           /\ \A i \in 1 .. l : z[i] = a[i]
      /\ ~ Answerable(m) => z = a
  BY DEF Books
<1> HIDE DEF t, k, l
<1>4. \A i \in 1 .. k + 1 : i = k + 1 \/ i \in 1 .. k
  BY <1>1
<1>5. \A i \in DOMAIN z : i \in 1 .. l \/ (Answerable(m) /\ i = l + 1)
  BY <1>1, <1>3
<1>6. \A i \in DOMAIN a : i \in DOMAIN z /\ z[i] = a[i]
  BY <1>1, <1>3
<1>7. ASSUME NEW i \in DOMAIN z
      PROVE  z[i][1] = c /\ z[i][2] <= n + 1
  <2>1. CASE i \in 1 .. l
    BY <1>1, <1>6, <2>1 DEF Ledger
  <2>2. CASE Answerable(m) /\ i = l + 1
    BY <1>1, <1>3, <2>2
  <2>3. QED
    BY <1>5, <2>1, <2>2
<1>8. ASSUME NEW i \in DOMAIN z, NEW j \in DOMAIN z, i < j
      PROVE  z[i][2] < z[j][2]
  <2>1. i \in 1 .. l
    BY <1>1, <1>5, <1>8
  <2>2. CASE j \in 1 .. l
    BY <1>1, <1>6, <1>8, <2>1, <2>2 DEF Ledger
  <2>3. CASE Answerable(m) /\ j = l + 1
    <3>1. a[i][2] <= n /\ z[i] = a[i] /\ a[i][2] \in Nat
      BY <1>1, <1>6, <2>1 DEF Ledger
    <3>2. z[j][2] = n + 1
      BY <1>3, <2>3
    <3>3. QED
      BY <1>1, <3>1, <3>2
  <2>4. QED
    BY <1>5, <2>2, <2>3
<1>9. \A i \in 1 .. k : q[i].n <= n /\ q[i].n < n + 1
  BY <1>1 DEF Ledger
<1>10. \A i \in DOMAIN t : t[i].n <= n + 1
  BY <1>1, <1>2, <1>4, <1>9
<1>11. \A i, j \in DOMAIN t : i < j => t[i].n < t[j].n
  <2>1. \A i, j \in 1 .. k : i < j => q[i].n < q[j].n
    BY <1>1 DEF Ledger
  <2>2. \A i \in 1 .. k + 1 : ~ (k + 1 < i)
    BY <1>1
  <2>3. QED
    BY <1>2, <1>4, <1>9, <2>1, <2>2
<1>12. p = "waiting" => r.n <= n + 1 /\ \A i \in DOMAIN t : r.n < t[i].n
  <2>1. p = "waiting" => r.n <= n /\ \A i \in 1 .. k : r.n < q[i].n
    BY <1>1 DEF Ledger
  <2>2. p = "waiting" => r.n < n + 1 /\ r.n <= n + 1
    BY <1>1, <2>1
  <2>3. QED
    BY <1>2, <1>4, <2>1, <2>2
<1>13. Len(b) <= Len(a) /\ Len(b) <= Len(z) /\ \A i \in DOMAIN b : b[i] = z[i]
  <2>1. Len(b) <= l /\ \A i \in DOMAIN b : b[i] = a[i]
    BY DEF Ledger, l
  <2>2. l <= Len(z) /\ Len(z) \in Nat
    <3>1. CASE Answerable(m)
      <4>1. Len(z) = l + 1
        BY <1>3, <3>1
      <4>2. QED
        BY <1>1, <4>1
    <3>2. CASE ~ Answerable(m)
      <4>1. Len(z) = l
        BY <1>3, <3>2 DEF l
      <4>2. QED
        BY <1>1, <4>1
    <3>3. QED
      BY <3>1, <3>2
  <2>3. \A i \in DOMAIN b : i \in DOMAIN a
    BY <1>1, <2>1
  <2>4. QED
    BY <1>1, <1>6, <2>1, <2>2, <2>3 DEF l
<1>14. ASSUME cl # "gone", NEW i \in DOMAIN z, i > Len(b)
       PROVE  \/ p = "waiting" /\ Answerable(r) /\ r.n = z[i][2]
              \/ \E j \in DOMAIN t : Answerable(t[j]) /\ t[j].n = z[i][2]
  <2>1. CASE i \in 1 .. l
    <3>1. z[i] = a[i] /\ i \in DOMAIN a
      BY <1>1, <1>6, <2>1
    <3>2. \/ p = "waiting" /\ Answerable(r) /\ r.n = a[i][2]
          \/ \E j \in DOMAIN q : Answerable(q[j]) /\ q[j].n = a[i][2]
      BY <1>14, <3>1 DEF Ledger
    <3>3. \A j \in DOMAIN q : j \in DOMAIN t /\ t[j] = q[j]
      BY <1>1, <1>2
    <3>4. QED
      BY <3>1, <3>2, <3>3
  <2>2. CASE Answerable(m) /\ i = l + 1
    <3>1. z[i][2] = n + 1
      BY <1>3, <2>2
    <3>2. k + 1 \in DOMAIN t
      BY <1>1, <1>2
    <3>3. QED
      BY <1>2, <2>2, <3>1, <3>2
  <2>3. QED
    BY <1>5, <2>1, <2>2
<1>15. ASSUME cl # "gone", NEW j \in DOMAIN t, Answerable(t[j])
       PROVE  \E i \in DOMAIN z : i > Len(b) /\ z[i][2] = t[j].n
  <2>1. CASE j \in 1 .. k
    <3>1. PICK i \in DOMAIN a : i > Len(b) /\ a[i][2] = q[j].n
      BY <1>1, <1>2, <1>15, <2>1 DEF Ledger
    <3>2. QED
      BY <1>2, <1>6, <2>1, <3>1
  <2>2. CASE j = k + 1
    <3>1. Answerable(m) /\ t[j].n = n + 1
      BY <1>2, <1>15, <2>2
    <3>2. l + 1 \in DOMAIN z /\ z[l + 1][2] = n + 1
      BY <1>1, <1>3, <3>1
    <3>3. l + 1 > Len(b)
      BY <1>1, <1>13 DEF l
    <3>4. QED
      BY <3>1, <3>2, <3>3
  <2>3. QED
    BY <1>2, <1>4, <2>1, <2>2
<1>16. ASSUME cl # "gone", p = "waiting", Answerable(r)
       PROVE  \E i \in DOMAIN z : i > Len(b) /\ z[i][2] = r.n
  <2>1. PICK i \in DOMAIN a : i > Len(b) /\ a[i][2] = r.n
    BY <1>16 DEF Ledger
  <2>2. QED
    BY <1>6, <2>1
<1>17. QED
  BY <1>7, <1>8, <1>10, <1>11, <1>12, <1>13, <1>14, <1>15, <1>16 DEF Ledger, t

\* The steps, client by client.
LEMMA LedgerBooks ==
  ASSUME Inv, NEW c \in Conns
  PROVE  Books(inbox[c], asked[c], answered[c], pc[c], req[c], sent[c])
BY DEF Inv, Types, Waits, Books

\* A worker keeps its number, and a number taken stays so.
LEMMA LastsOn == Inv /\ [Next]_vars => Lasting /\ taken \subseteq taken'
<1> SUFFICES ASSUME Inv, [Next]_vars
             PROVE  Lasting /\ taken \subseteq taken'
  OBVIOUS
<1>1. pc \in [Conns -> WorkerPlaces] /\ wfd \in [Conns -> Fds \cup {Free}]
  BY DEF Inv, Types
<1>2. CASE UNCHANGED <<pc, wfd, taken>>
  BY <1>2 DEF Lasting
<1>3. CASE \E c \in Conns : Connect(c) \/ Send(c) \/ Receive(c) \/ Leave(c) \/ Worker(c)
  <2>1. PICK c \in Conns : Connect(c) \/ Send(c) \/ Receive(c) \/ Leave(c) \/ Worker(c)
    BY <1>3
  <2>2. CASE Accept(c)
    <3>1. PICK f \in Fds : wfd' = [wfd EXCEPT ![c] = f]
      BY <2>2 DEF Accept
    <3>2. pc[c] = "none" /\ pc' = [pc EXCEPT ![c] = "reading"] /\ taken' = taken
      BY <2>2 DEF Accept
    <3>3. QED
      BY <1>1, <3>1, <3>2 DEF Lasting
  <2>3. CASE Read(c) \/ ReadFails(c) \/ Close(c) \/ Search(c) \/ Unregister(c)
    <3>1. wfd' = wfd /\ taken' = taken
      BY <2>3 DEF Read, ReadFails, Close, Search, Unregister, numbers
    <3>2. PICK place : pc' = [pc EXCEPT ![c] = place] /\ place # "none"
      BY <2>3 DEF Read, ReadFails, Close, Search, Unregister, Posted
    <3>3. QED
      BY <1>1, <3>1, <3>2 DEF Lasting
  <2>4. CASE Connect(c) \/ Send(c) \/ Receive(c) \/ Leave(c)
    BY <1>2, <2>4 DEF Connect, Send, Receive, Leave, workers, numbers
  <2>5. QED
    BY <2>1, <2>2, <2>3, <2>4 DEF Worker
<1>4. CASE Handle
  BY <1>1, <1>2, <1>4 DEF Handle, HandleMalformed, HandleRegister, HandleSubscribe, HandleQuery,
       HandleTrigger, workers, numbers, Lasting
<1>5. CASE SystemEvent \/ HealthTick
  BY <1>2, <1>5 DEF SystemEvent, HealthTick, workers, numbers
<1>6. CASE Proceed
  <2>1. CASE RegisterExisting
    BY <2>1 DEF RegisterExisting, workers, Lasting
  <2>2. CASE ReplySent \/ ReplyFailed
    BY <1>1, <2>2 DEF ReplySent, ReplyFailed, Return, numbers, Lasting
  <2>3. CASE \/ RegisterTakeover \/ RegisterAppend \/ SubscribeFindAgain \/ SubscribeMark
             \/ NotifyNext \/ NotifySent \/ NotifyFailed \/ HealthNext \/ HealthDrop
    BY <1>2, <2>3 DEF RegisterTakeover, RegisterAppend, SubscribeFindAgain, SubscribeMark,
         NotifyNext, NotifySent, NotifyFailed, HealthNext, HealthDrop, workers, numbers
  <2>4. QED
    BY <1>6, <2>1, <2>2, <2>3 DEF Proceed
<1>7. QED
  BY <1>2, <1>3, <1>4, <1>5, <1>6, Zenon DEF Next, vars, workers, numbers

LEMMA StaysSpoilt ==
  Lasting /\ taken \subseteq taken' => \A c \in Conns : Spoilt(c) => Spoilt(c)'
BY DEF Lasting, Spoilt

\* What a step leaves to show of each client: its mail, and its books unless spoilt.
Fair(c) ==
  /\ \A i \in DOMAIN inbox[c] : inbox[c][i].from = c
  /\ ~ Spoilt(c) =>
       /\ pc[c] = "waiting" => req[c].from = c
       /\ Ledger(c, inbox[c], asked[c], answered[c], pc[c], req[c], sent[c], client[c])

LEMMA LedgersFair == Ledgers <=> \A c \in Conns : Fair(c)
BY DEF Ledgers, Fair

\* A client none of whose books the step touches.
LEMMA FairFrame ==
  ASSUME NEW c \in Conns, Fair(c), Spoilt(c) => Spoilt(c)',
         inbox'[c] = inbox[c], asked'[c] = asked[c], sent'[c] = sent[c], req'[c] = req[c],
         Spoilt(c)' \/ answered'[c] = answered[c],
         pc'[c] = "waiting" <=> pc[c] = "waiting", client'[c] # "gone" => client[c] # "gone"
  PROVE  Fair(c)'
<1>1. ASSUME ~ Spoilt(c)'
      PROVE  Ledger(c, inbox'[c], asked'[c], answered'[c], pc'[c], req'[c], sent'[c],
                    client'[c])
  <2>1. Ledger(c, inbox[c], asked[c], answered[c], pc[c], req[c], sent[c], client[c])
    BY <1>1 DEF Fair
  <2>2. Ledger(c, inbox[c], asked[c], answered[c], pc'[c], req[c], sent[c], client'[c])
    BY <2>1, LedgerMove
  <2>3. QED
    BY <1>1, <2>2
<1>2. QED
  BY <1>1 DEF Fair

\* Steps that move no message and make no worker wait or stop waiting.
LEMMA LedgersFrame ==
  ASSUME Ledgers, \A c \in Conns : Spoilt(c) => Spoilt(c)',
         UNCHANGED <<inbox, asked, answered, req, sent>>,
         \A c \in Conns : /\ pc'[c] = "waiting" <=> pc[c] = "waiting"
                          /\ client'[c] # "gone" => client[c] # "gone"
  PROVE  Ledgers'
<1>1. \A c \in Conns : Fair(c)'
  BY FairFrame, LedgersFair
<1>2. QED
  BY <1>1 DEF Ledgers, Fair

LEMMA LedgersSend ==
  ASSUME Inv, Ledgers, NEW c \in Conns, Send(c)
  PROVE  Ledgers'
<1>1. PICK m \in Request(c) :
        /\ inbox' = [inbox EXCEPT ![c] = Append(@, m)]
        /\ asked' = IF m.kind \in {"malformed", "badframe"}
                      THEN asked ELSE [asked EXCEPT ![c] = Append(@, Id(m))]
  BY Zenon DEF Send
<1>2. /\ sent' = [sent EXCEPT ![c] = @ + 1]
      /\ UNCHANGED <<client, answered, pc, wfd, taken, req>>
  BY DEF Send, writes, workers, numbers
<1>3. /\ sent \in [Conns -> Nat] /\ inbox \in [Conns -> Seq(Sendable)]
      /\ asked \in [Conns -> Seq(Conns \X Nat)]
  BY DEF Inv, Types
<1>4. m \in Sendable /\ m.n = sent[c] + 1 /\ m.from = c
  <2>1. NamesOf[c] \subseteq Names
    BY DEF Names
  <2>2. sent[c] + 1 \in Nat
    BY <1>3
  <2>3. QED
    BY <1>1, <2>1, <2>2, ConstantsAssumption DEF Request, Sendable, Message
<1>5. PICK z : z = IF Answerable(m) THEN Append(asked[c], <<c, m.n>>) ELSE asked[c]
  OBVIOUS
<1>6. /\ inbox'[c] = Append(inbox[c], m) /\ asked'[c] = z /\ sent'[c] = sent[c] + 1
      /\ \A d \in Conns : d # c =>
           inbox'[d] = inbox[d] /\ asked'[d] = asked[d] /\ sent'[d] = sent[d]
  BY <1>1, <1>2, <1>3, <1>4, <1>5 DEF Answerable, Id
<1>7. \A i \in DOMAIN inbox'[c] : inbox'[c][i].from = c
  BY <1>3, <1>4, <1>6 DEF Ledgers
<1>8. ASSUME ~ Spoilt(c)
      PROVE  Ledger(c, Append(inbox[c], m), z, answered[c], pc[c], req[c], sent[c] + 1,
                    client[c])
  BY <1>4, <1>5, <1>8, LedgerBooks, LedgerSend DEF Ledgers
<1>9. ASSUME NEW d \in Conns
      PROVE  Fair(d)'
  <2>1. CASE d = c
    BY <1>2, <1>6, <1>7, <1>8, <2>1 DEF Fair, Ledgers, Spoilt
  <2>2. CASE d # c
    BY <1>2, <1>6, <2>2 DEF Fair, Ledgers, Spoilt
  <2>3. QED
    BY <2>1, <2>2
<1>10. QED
  BY <1>9 DEF Ledgers, Fair

\* What a running worker's number refers to: its own connection, or the number is spoilt
\* for both.
LEMMA WhoseNumber ==
  ASSUME Inv, Kept, NEW c \in Conns, pc[c] \in Active, NEW d \in Conns, file[wfd[c]] = d, d # c
  PROVE  Spoilt(c) /\ Spoilt(d)
<1>1. wfd[c] \in Fds /\ pc[c] # "none" /\ d # Free
  BY ConstantsAssumption DEF Inv, Waits, Active
<1>2. wfd[c] \in taken
  BY DEF Kept
<1>3. wfd[d] = wfd[c] /\ pc[d] # "none"
  BY <1>1 DEF Kept
<1>4. QED
  BY <1>1, <1>2, <1>3 DEF Spoilt

LEMMA LedgersRead ==
  ASSUME Inv, Kept, Ledgers, NEW c \in Conns, Read(c)
  PROVE  Ledgers'
<1>1. PICK d \in Conns :
        /\ file[wfd[c]] = d /\ inbox[d] # <<>>
        /\ inbox' = [inbox EXCEPT ![d] = Tail(@)]
        /\ req' = [req EXCEPT ![c] = Head(inbox[d])]
        /\ IF Head(inbox[d]).kind = "badframe"
             THEN /\ pc' = [pc EXCEPT ![c] = "closing"]
                  /\ UNCHANGED mainq
             ELSE Posted(c)
  BY Zenon DEF Read
<1>2. pc[c] = "reading" /\ UNCHANGED <<client, sent, asked, answered, wfd, taken>>
  BY DEF Read, writes, numbers
<1>3. /\ inbox \in [Conns -> Seq(Sendable)] /\ pc \in [Conns -> WorkerPlaces]
      /\ req \in [Conns -> Sendable \cup {Nobody}]
  BY DEF Inv, Types
<1>4. PICK place \in {"closing", "waiting"} :
        /\ pc' = [pc EXCEPT ![c] = place]
        /\ place = "waiting" \/ ~ Answerable(Head(inbox[d]))
  <2>1. CASE Head(inbox[d]).kind = "badframe"
    BY <1>1, <2>1 DEF Answerable
  <2>2. CASE Head(inbox[d]).kind # "badframe"
    BY <1>1, <2>2 DEF Posted
  <2>3. QED
    BY <2>1, <2>2
<1>5. /\ inbox'[d] = Tail(inbox[d]) /\ pc'[c] = place /\ req'[c] = Head(inbox[d])
      /\ \A e \in Conns : e # c => pc'[e] = pc[e] /\ req'[e] = req[e]
      /\ \A e \in Conns : e # d => inbox'[e] = inbox[e]
  BY <1>1, <1>3, <1>4
<1>6. /\ \A i \in DOMAIN Tail(inbox[d]) : Tail(inbox[d])[i].from = d
      /\ Head(inbox[d]).from = d
  <2>1. PICK q \in Seq(Sendable) : q = inbox[d]
    BY <1>3
  <2>2. q # <<>> /\ \A i \in DOMAIN q : q[i].from = d
    BY <1>1, <2>1 DEF Ledgers
  <2>3. /\ Head(q) = q[1] /\ 1 \in DOMAIN q
        /\ \A i \in DOMAIN Tail(q) : Tail(q)[i] = q[i + 1] /\ i + 1 \in DOMAIN q
    BY <2>2
  <2>4. QED
    BY <2>1, <2>2, <2>3
<1>7. \A e \in Conns : Spoilt(e) => Spoilt(e)'
  BY <1>2, <1>3, <1>4 DEF Spoilt
<1>8. CASE d = c
  <2>1. ASSUME ~ Spoilt(c)
        PROVE  Ledger(c, Tail(inbox[c]), asked[c], answered[c], place, Head(inbox[c]), sent[c],
                      client[c])
    <3>1. Ledger(c, inbox[c], asked[c], answered[c], pc[c], req[c], sent[c], client[c])
      BY <2>1 DEF Ledgers
    <3>2. inbox[c] # <<>> /\ pc[c] # "waiting"
      BY <1>1, <1>2, <1>8
    <3>3. QED
      BY <1>4, <1>8, <3>1, <3>2, LedgerBooks, LedgerRead
  <2>2. ASSUME NEW e \in Conns
        PROVE  Fair(e)'
    <3>1. CASE e = c
      BY <1>2, <1>5, <1>6, <1>7, <1>8, <2>1, <3>1 DEF Fair
    <3>2. CASE e # c
      <4>1. Fair(e)
        BY LedgersFair
      <4>2. QED
        BY <1>2, <1>5, <1>7, <1>8, <3>2, <4>1, FairFrame
    <3>3. QED
      BY <3>1, <3>2
  <2>3. QED
    BY <2>2 DEF Ledgers, Fair
<1>9. CASE d # c
  <2>1. Spoilt(c)' /\ Spoilt(d)'
    BY <1>1, <1>2, <1>7, <1>9, WhoseNumber DEF Active
  <2>2. ASSUME NEW e \in Conns
        PROVE  Fair(e)'
    <3>1. CASE e = c
      BY <1>5, <1>9, <2>1, <3>1 DEF Fair, Ledgers
    <3>2. CASE e = d
      BY <1>5, <1>6, <2>1, <3>2 DEF Fair
    <3>3. CASE e # c /\ e # d
      <4>1. Fair(e)
        BY LedgersFair
      <4>2. QED
        BY <1>2, <1>5, <1>7, <3>3, <4>1, FairFrame
    <3>4. QED
      BY <3>1, <3>2, <3>3
  <2>3. QED
    BY <2>2 DEF Ledgers, Fair
<1>10. QED
  BY <1>8, <1>9

\* The worker that is served goes on; what was written went to its client, unless its
\* number and the one of whoever was written to are spoilt.
LEMMA LedgersServed ==
  ASSUME Inv, Ledgers, NEW c \in Conns, pc[c] = "waiting",
         pc' = [pc EXCEPT ![c] = "reading"],
         UNCHANGED <<inbox, asked, req, sent, client, wfd, taken>>,
         \/ UNCHANGED answered /\ (~ Answerable(req[c]) \/ client[c] = "gone" \/ Spoilt(c))
         \/ /\ answered' = [answered EXCEPT ![c] = Append(@, Id(req[c]))]
            /\ Answerable(req[c]) /\ client[c] # "gone"
         \/ /\ Spoilt(c)
            /\ \A e \in Conns : ~ Spoilt(e) => answered'[e] = answered[e]
  PROVE  Ledgers'
<1>1. pc \in [Conns -> WorkerPlaces] /\ answered \in [Conns -> Seq(Conns \X Nat)]
  BY DEF Inv, Types
<1>2. /\ pc'[c] = "reading"
      /\ \A d \in Conns : d # c => pc'[d] = pc[d]
      /\ \A e \in Conns : Spoilt(e) <=> Spoilt(e)'
  BY <1>1 DEF Spoilt
<1>3. ASSUME ~ Spoilt(c)
      PROVE  Ledger(c, inbox[c], asked[c], answered'[c], "reading", req[c], sent[c], client[c])
  <2>1. Ledger(c, inbox[c], asked[c], answered[c], "waiting", req[c], sent[c], client[c])
    BY <1>3 DEF Ledgers
  <2>2. Books(inbox[c], asked[c], answered[c], "waiting", req[c], sent[c])
    BY LedgerBooks
  <2>3. CASE UNCHANGED answered /\ (~ Answerable(req[c]) \/ client[c] = "gone")
    BY <2>1, <2>3, LedgerSkip
  <2>4. CASE /\ answered' = [answered EXCEPT ![c] = Append(@, Id(req[c]))]
             /\ Answerable(req[c]) /\ client[c] # "gone"
    <3>1. req[c].from = c
      BY <1>3 DEF Ledgers
    <3>2. answered'[c] = Append(answered[c], <<c, req[c].n>>)
      BY <1>1, <2>4, <3>1 DEF Id
    <3>3. Answerable(req[c]) /\ client[c] # "gone"
      BY <2>4
    <3>4. Ledger(c, inbox[c], asked[c], Append(answered[c], <<c, req[c].n>>), "reading", req[c],
                 sent[c], client[c])
      BY <2>1, <2>2, <3>3, LedgerReply
    <3>5. QED
      BY <3>2, <3>4
  <2>5. QED
    BY <1>3, <2>3, <2>4
<1>4. \A e \in Conns : e # c => answered'[e] = answered[e] \/ Spoilt(e)'
  BY <1>1, <1>2
<1>5. ASSUME NEW d \in Conns
      PROVE  Fair(d)'
  <2>1. CASE d = c
    BY <1>2, <1>3, <2>1 DEF Fair, Ledgers
  <2>2. CASE d # c
    <3>1. Fair(d)
      BY LedgersFair
    <3>2. QED
      BY <1>2, <1>4, <2>2, <3>1, FairFrame
  <2>3. QED
    BY <2>1, <2>2
<1>6. QED
  BY <1>5 DEF Ledgers, Fair

LEMMA LedgersReply ==
  ASSUME Inv, Kept, Ledgers, ServesAnswerable, ReplySent \/ ReplyFailed
  PROVE  Ledgers'
<1>1. /\ main.at = "reply" /\ pc' = [pc EXCEPT ![main.who] = "reading"]
      /\ UNCHANGED <<inbox, asked, req, sent, client, wfd, taken>>
  BY DEF ReplySent, ReplyFailed, Return, clients, numbers
<1>2. /\ main.who # Nobody /\ main.who \in Conns /\ pc[main.who] = "waiting"
  <2>1. main.who # Nobody /\ mainq # <<>> /\ main.who = Head(mainq)
    BY <1>1 DEF Inv, MainOK, Fits
  <2>2. QED
    BY <2>1, Served1
<1>3. PICK c \in Conns : c = main.who
  BY <1>2
<1>4. Answerable(req[c]) /\ pc[c] = "waiting" /\ pc[c] \in Active
  BY <1>2, <1>3 DEF ServesAnswerable, Active
<1>5. CASE ReplySent
  <2>1. PICK d \in Conns : file[wfd[c]] = d /\ client[d] = "open"
    BY <1>3, <1>5 DEF ReplySent, Takes
  <2>2. answered' = [answered EXCEPT ![d] = Append(@, Id(req[c]))]
    BY <1>3, <1>5, <2>1 DEF ReplySent
  <2>3. CASE d = c
    BY <1>1, <1>3, <1>4, <2>1, <2>2, <2>3, LedgersServed
  <2>4. CASE d # c
    <3>1. Spoilt(c) /\ Spoilt(d)
      BY <1>4, <2>1, <2>4, WhoseNumber
    <3>2. \A e \in Conns : ~ Spoilt(e) => answered'[e] = answered[e]
      BY <2>2, <3>1 DEF Inv, Types
    <3>3. QED
      BY <1>1, <1>3, <1>4, <3>1, <3>2, LedgersServed
  <2>5. QED
    BY <2>3, <2>4
<1>6. CASE ReplyFailed
  <2>1. UNCHANGED answered
    BY <1>6 DEF ReplyFailed, writes
  <2>2. client[c] = "gone" \/ Spoilt(c)
    <3>1. file[wfd[c]] = c \/ wfd[c] \in taken
      BY <1>4 DEF Kept
    <3>2. CASE wfd[c] \in taken
      BY <1>4, <3>2 DEF Spoilt
    <3>3. CASE file[wfd[c]] = c
      BY <1>3, <1>6, <3>3, ConstantsAssumption DEF ReplyFailed, Fails
    <3>4. QED
      BY <3>1, <3>2, <3>3
  <2>3. QED
    BY <1>1, <1>3, <1>4, <2>1, <2>2, LedgersServed
<1>7. QED
  BY <1>5, <1>6

LEMMA LedgersMalformed ==
  ASSUME Inv, Ledgers, HandleMalformed
  PROVE  Ledgers'
<1>1. /\ Ready /\ Msg.kind = "malformed" /\ pc' = [pc EXCEPT ![Asker] = "reading"]
      /\ UNCHANGED <<inbox, asked, answered, req, sent, client, wfd, taken>>
  BY DEF HandleMalformed, clients, writes, numbers
<1>2. Asker \in Conns /\ pc[Asker] = "waiting" /\ Msg = req[Asker]
  BY <1>1, Served1, Zenon DEF Ready, Asker, Msg
<1>3. ~ Answerable(req[Asker])
  BY <1>1, <1>2 DEF Answerable
<1>4. PICK c \in Conns : c = Asker
  BY <1>2
<1>5. QED
  BY <1>1, <1>2, <1>3, <1>4, LedgersServed

LEMMA LedgersClients ==
  ASSUME Inv, Ledgers, NEW c \in Conns, Connect(c) \/ Receive(c) \/ Leave(c)
  PROVE  Ledgers'
<1>1. /\ UNCHANGED <<inbox, asked, answered, req, sent, pc, wfd, taken>>
      /\ \A d \in Conns : client'[d] # "gone" => client[d] # "gone"
  BY DEF Connect, Receive, Leave, clients, workers, writes, numbers, Inv, Types
<1>2. \A d \in Conns : Spoilt(d) => Spoilt(d)'
  BY <1>1 DEF Spoilt
<1>3. QED
  BY <1>1, <1>2, LedgersFrame

LEMMA LedgersWorkers ==
  ASSUME Inv, Ledgers, \A d \in Conns : Spoilt(d) => Spoilt(d)', NEW c \in Conns,
         Accept(c) \/ ReadFails(c) \/ Close(c) \/ Search(c) \/ Unregister(c)
  PROVE  Ledgers'
<1>1. /\ UNCHANGED <<inbox, asked, answered, req, sent>>
      /\ \A d \in Conns : client'[d] # "gone" => client[d] # "gone"
  BY DEF Accept, ReadFails, Close, Search, Unregister, clients, writes, Inv, Types
<1>2. pc \in [Conns -> WorkerPlaces]
  BY DEF Inv, Types
<1>3. PICK place : pc' = [pc EXCEPT ![c] = place] /\ place # "waiting" /\ pc[c] # "waiting"
  BY DEF Accept, ReadFails, Close, Search, Unregister
<1>4. \A d \in Conns : pc'[d] = "waiting" <=> pc[d] = "waiting"
  BY <1>2, <1>3
<1>5. QED
  BY <1>1, <1>4, LedgersFrame

LEMMA LedgersMain ==
  ASSUME Ledgers, \A d \in Conns : Spoilt(d) => Spoilt(d)',
         \/ HandleRegister \/ HandleSubscribe \/ HandleQuery \/ HandleTrigger
         \/ SystemEvent \/ HealthTick
         \/ RegisterExisting \/ RegisterTakeover \/ RegisterAppend
         \/ SubscribeFindAgain \/ SubscribeMark
         \/ NotifyNext \/ NotifySent \/ NotifyFailed \/ HealthNext \/ HealthDrop
  PROVE  Ledgers'
<1>1. UNCHANGED <<inbox, asked, answered, req, sent, pc, client>>
  BY DEF HandleRegister, HandleSubscribe, HandleQuery, HandleTrigger, SystemEvent, HealthTick,
         RegisterExisting, RegisterTakeover, RegisterAppend, SubscribeFindAgain, SubscribeMark,
         NotifyNext, NotifySent, NotifyFailed, HealthNext, HealthDrop, clients, workers, writes
<1>2. QED
  BY <1>1, LedgersFrame

LEMMA LedgersStep == Inv /\ Kept /\ Ledgers /\ ServesAnswerable /\ [Next]_vars => Ledgers'
<1> SUFFICES ASSUME Inv, Kept, Ledgers, ServesAnswerable, [Next]_vars
             PROVE  Ledgers'
  OBVIOUS
<1>1. \A d \in Conns : Spoilt(d) => Spoilt(d)'
  BY LastsOn, StaysSpoilt
<1>2. CASE UNCHANGED vars
  <2>1. UNCHANGED <<inbox, asked, answered, req, sent, pc, client>>
    BY <1>2 DEF vars, clients, workers, writes
  <2>2. QED
    BY <1>1, <2>1, LedgersFrame
<1>3. CASE \E c \in Conns : Connect(c) \/ Send(c) \/ Receive(c) \/ Leave(c) \/ Worker(c)
  BY <1>1, <1>3, LedgersClients, LedgersSend, LedgersRead, LedgersWorkers, Zenon DEF Worker
<1>4. CASE Handle
  BY <1>1, <1>4, LedgersMalformed, LedgersMain, Zenon DEF Handle
<1>5. CASE SystemEvent \/ HealthTick
  BY <1>1, <1>5, LedgersMain, Zenon
<1>6. CASE Proceed
  BY <1>1, <1>6, LedgersMain, LedgersReply, Zenon DEF Proceed
<1>7. QED
  BY <1>2, <1>3, <1>4, <1>5, <1>6, Zenon DEF Next

\* Whom the main thread serves once it has taken a message up, and in the course of a call.
LEMMA HandledFor ==
  ASSUME Inv, HandleRegister \/ HandleSubscribe \/ HandleQuery \/ HandleTrigger
  PROVE  main'.who = Asker
<1>1. Ready
  BY DEF HandleRegister, HandleSubscribe, HandleQuery, HandleTrigger
<1>2. Asker \in Conns /\ wfd[Asker] \in Fds /\ Msg \in Sendable
  BY <1>1, Served1, Zenon DEF Ready, Asker, Msg
<1>3. CASE HandleRegister
  <2> DEFINE m == Call(Asker, Msg.name, Nobody)
  <2>1. Msg.name \in Names
    BY <1>2, <1>3 DEF HandleRegister, Sendable, Message
  <2>2. m \in MainStates /\ m.who = Asker /\ m.fd \in Fds
    BY <1>2, <2>1, CallState
  <2> HIDE DEF m
  <2>3. main' = Registering(m)
    BY <1>3 DEF HandleRegister, m
  <2>4. QED
    BY <1>2, <2>2, <2>3, RegisteringState
<1>4. CASE HandleSubscribe
  <2>1. Msg.ev \in Events
    BY <1>2, <1>4 DEF HandleSubscribe, Sendable, Message
  <2>2. AutoCall \in MainStates /\ AutoCall.who = Asker /\ AutoCall.fd \in Fds
    BY <1>2, <2>1, CallState, AutoNames DEF AutoCall
  <2>3. \/ main' = [AutoCall EXCEPT !.at = "mark", !.i = Min(Holders(wfd[Asker]))]
        \/ main' = Registering(AutoCall) \/ main' = ReplyTo(Asker)
    BY <1>4 DEF HandleSubscribe
  <2>4. CASE main' = [AutoCall EXCEPT !.at = "mark", !.i = Min(Holders(wfd[Asker]))]
    BY <2>2, <2>4 DEF MainStates
  <2>5. CASE main' = Registering(AutoCall)
    BY <1>2, <2>2, <2>5, RegisteringState
  <2>6. CASE main' = ReplyTo(Asker)
    BY <2>6 DEF ReplyTo, Idle
  <2>7. QED
    BY <2>3, <2>4, <2>5, <2>6
<1>5. CASE HandleQuery \/ HandleTrigger
  BY <1>5 DEF HandleQuery, HandleTrigger, ReplyTo, Notifying, Idle
<1>6. QED
  BY <1>3, <1>4, <1>5

LEMMA CalledFor ==
  ASSUME Inv, \/ RegisterExisting \/ RegisterTakeover \/ RegisterAppend
              \/ SubscribeFindAgain \/ SubscribeMark
  PROVE  main'.who = main.who
<1>1. main.at \in Calls
  BY DEF RegisterExisting, RegisterTakeover, RegisterAppend, SubscribeFindAgain, SubscribeMark,
         Calls
<1>2. main \in MainStates /\ main.who \in Conns /\ main.fd \in Fds
  BY <1>1, InCall
<1>3. \/ main' = Registered(main) \/ main' = ReplyTo(main.who)
      \/ main' = [main EXCEPT !.at = "takeover"]
      \/ main' = [main EXCEPT !.at = "mark", !.i = Min(Holders(main.fd))]
  BY Zenon DEF RegisterExisting, RegisterTakeover, RegisterAppend, SubscribeFindAgain,
               SubscribeMark
<1>4. CASE main' = Registered(main)
  BY <1>2, <1>4, RegisteredState
<1>5. CASE main' = ReplyTo(main.who)
  BY <1>5 DEF ReplyTo, Idle
<1>6. CASE main' = [main EXCEPT !.at = "takeover"]
  BY <1>2, <1>6 DEF MainStates
<1>7. CASE main' = [main EXCEPT !.at = "mark", !.i = Min(Holders(main.fd))]
  BY <1>2, <1>7 DEF MainStates
<1>8. QED
  BY <1>3, <1>4, <1>5, <1>6, <1>7

\* A step that keeps whom the main thread serves, or serves nobody afterwards.
LEMMA ServesFrame ==
  ASSUME ServesAnswerable, UNCHANGED req, main'.who = main.who \/ main'.who = Nobody
  PROVE  ServesAnswerable'
BY DEF ServesAnswerable

LEMMA ServesStep == Inv /\ ServesAnswerable /\ [Next]_vars => ServesAnswerable'
<1> SUFFICES ASSUME Inv, ServesAnswerable, [Next]_vars
             PROVE  ServesAnswerable'
  OBVIOUS
<1>1. CASE UNCHANGED <<req, main>>
  BY <1>1, ServesFrame
<1>2. CASE \E c \in Conns : Connect(c) \/ Send(c) \/ Receive(c) \/ Leave(c) \/ Worker(c)
  <2>1. PICK c \in Conns : Connect(c) \/ Send(c) \/ Receive(c) \/ Leave(c) \/ Worker(c)
    BY <1>2
  <2>2. CASE Read(c)
    <3>1. /\ pc[c] = "reading" /\ main' = main
          /\ \A d \in Conns : d # c => req'[d] = req[d]
      BY <2>2 DEF Read, Inv, Types
    <3>2. main.who # Nobody => main.who \in Conns /\ pc[main.who] = "waiting"
      BY Served1 DEF Inv, MainOK, Fits
    <3>3. QED
      BY <3>1, <3>2 DEF ServesAnswerable
  <2>3. CASE ~ Read(c)
    <3>1. UNCHANGED <<req, main>>
      BY <2>1, <2>3 DEF Connect, Send, Receive, Leave, Worker, Accept, ReadFails, Close,
                        Search, Unregister, workers
    <3>2. QED
      BY <1>1, <3>1
  <2>4. QED
    BY <2>2, <2>3
<1>3. CASE Handle
  <2>1. CASE HandleMalformed
    BY <1>1, <2>1 DEF HandleMalformed
  <2>2. CASE HandleRegister \/ HandleSubscribe \/ HandleQuery \/ HandleTrigger
    <3>1. main'.who = Asker
      BY <2>2, HandledFor
    <3>2. req' = req /\ req[Asker].kind \in {"register", "subscribe", "query", "trigger"}
      BY <2>2 DEF HandleRegister, HandleSubscribe, HandleQuery, HandleTrigger, workers, Msg
    <3>3. QED
      BY <3>1, <3>2 DEF ServesAnswerable, Answerable
  <2>3. QED
    BY <1>3, <2>1, <2>2, Zenon DEF Handle
<1>4. CASE SystemEvent \/ HealthTick
  <2>1. req' = req /\ main'.who = Nobody
    BY <1>4 DEF SystemEvent, HealthTick, Notifying, Idle, workers
  <2>2. QED
    BY <2>1, ServesFrame
<1>5. CASE Proceed
  <2>1. main \in MainStates
    BY DEF Inv, Types
  <2>2. req' = req
    BY <1>5 DEF Proceed, RegisterExisting, RegisterTakeover, RegisterAppend,
                SubscribeFindAgain, SubscribeMark, NotifyNext, NotifySent, NotifyFailed,
                ReplySent, ReplyFailed, Return, HealthNext, HealthDrop, workers
  <2>3. CASE NotifyNext
    <3>1. \/ main' = Idle \/ main' = ReplyTo(main.who)
          \/ main' = [main EXCEPT !.at = "send", !.fd = table[main.i].fd]
          \/ main' = [main EXCEPT !.i = @ + 1]
      BY <2>3, Zenon DEF NotifyNext
    <3>2. main'.who = main.who \/ main'.who = Nobody
      <4>1. CASE main' = Idle
        BY <4>1 DEF Idle
      <4>2. CASE main' = ReplyTo(main.who)
        BY <4>2 DEF ReplyTo, Idle
      <4>3. CASE main' = [main EXCEPT !.at = "send", !.fd = table[main.i].fd]
        BY <2>1, <4>3 DEF MainStates
      <4>4. CASE main' = [main EXCEPT !.i = @ + 1]
        BY <2>1, <4>4 DEF MainStates
      <4>5. QED
        BY <3>1, <4>1, <4>2, <4>3, <4>4
    <3>3. QED
      BY <2>2, <3>2, ServesFrame
  <2>4. CASE NotifySent \/ NotifyFailed
    BY <2>1, <2>2, <2>4, ServesFrame DEF NotifySent, NotifyFailed, MainStates
  <2>5. CASE ReplySent \/ ReplyFailed
    <3>1. main' = Idle
      BY <2>5, Zenon DEF ReplySent, ReplyFailed, Return
    <3>2. QED
      BY <2>2, <3>1, ServesFrame DEF Idle
  <2>6. CASE HealthNext \/ HealthDrop
    <3>1. \/ main' = Idle
          \/ main' = [main EXCEPT !.at = "drop", !.k = Min(Holders(table[main.i].fd))]
          \/ main' = [main EXCEPT !.i = @ + 1]
          \/ main' = [main EXCEPT !.at = "health", !.k = 0]
      BY <2>6, Zenon DEF HealthNext, HealthDrop
    <3>2. Idle.who = Nobody
      BY DEF Idle
    <3>3. ASSUME main' # Idle
          PROVE  main'.who = main.who
      BY <2>1, <3>1, <3>3 DEF MainStates
    <3>4. QED
      BY <2>2, <3>2, <3>3, ServesFrame
  <2>7. CASE \/ RegisterExisting \/ RegisterTakeover \/ RegisterAppend
             \/ SubscribeFindAgain \/ SubscribeMark
    BY <2>2, <2>7, CalledFor, ServesFrame
  <2>8. QED
    BY <1>5, <2>3, <2>4, <2>5, <2>6, <2>7, Zenon DEF Proceed
<1>6. QED
  BY <1>1, <1>2, <1>3, <1>4, <1>5 DEF Next, vars, workers

LEMMA LedgersInOrder ==
  ASSUME Inv, Ledgers
  PROVE  RepliesInOrder
<1>1. ASSUME NEW c \in Conns, wfd[c] \notin taken
      PROVE  IsPrefix(answered[c], asked[c])
  <2>1. PICK a \in Seq(Conns \X Nat), b \in Seq(Conns \X Nat) :
          a = asked[c] /\ b = answered[c]
    BY DEF Inv, Types
  <2>2. Len(b) <= Len(a) /\ \A i \in DOMAIN b : b[i] = a[i]
    BY <1>1, <2>1 DEF Ledgers, Ledger, Spoilt
  <2>3. SubSeq(b, 1, Len(b)) = SubSeq(a, 1, Len(b))
    <3>1. /\ Len(a) \in Nat /\ Len(b) \in Nat /\ DOMAIN b = 1 .. Len(b)
      BY <2>1
    <3>2. \A i \in 1 .. Len(b) : b[i] = a[i]
      BY <2>2, <3>1
    <3>3. /\ SubSeq(b, 1, Len(b)) = [i \in 1 .. Len(b) |-> b[i]]
          /\ SubSeq(a, 1, Len(b)) = [i \in 1 .. Len(b) |-> a[i]]
      BY <2>1, <2>2, <3>1
    <3>4. QED
      BY <3>2, <3>3
  <2>4. QED
    BY <2>1, <2>2, <2>3 DEF IsPrefix
<1>2. QED
  BY <1>1 DEF RepliesInOrder

\* "client_fd is attached for routing responses back" (ipc.h:72-73): while no other
\* connection's registration has closed its number, what a client is written as replies
\* are the replies to its own requests, in the order it made them and with none left
\* out in between, however descriptors are reused and connections come and go, and
\* whatever happens to the clients whose numbers were closed.
THEOREM RepliesOrdered == Spec => []RepliesInOrder
<1>1. Init => Ledgers /\ ServesAnswerable
  BY DEF Init, Ledgers, Ledger, ServesAnswerable, Idle
<1>2. QED
  BY <1>1, KeptStep, LedgersStep, ServesStep, LedgersInOrder, KeptInitially, Always, PTL
     DEF Spec
=============================================================================
