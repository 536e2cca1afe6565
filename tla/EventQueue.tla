----------------------------- MODULE EventQueue -----------------------------
(***************************************************************************)
(* The bounded multi-producer single-consumer event ring of event_loop.c:  *)
(* producer threads claim a position with a compare-and-swap on `head',    *)
(* write the event into slot position % capacity and publish it by bumping *)
(* that slot's sequence counter; one worker thread pops in position order, *)
(* gathers batches and hands each batch to the main dispatch queue, where  *)
(* the handlers run.                                                       *)
(*                                                                         *)
(* Every atomic access of the code is a step of its own.  Accesses are     *)
(* sequentially consistent: the only relaxed loads are those of head and   *)
(* tail in event_loop_claim, a stale head makes the compare-and-swap fail  *)
(* and a stale tail only makes the ring look fuller than it is.            *)
(***************************************************************************)
EXTENDS Integers, Sequences

CONSTANTS
  Producers,      \* the threads that call event_loop_post
  Cap,            \* EVENT_QUEUE_CAPACITY
  BatchSize,      \* EVENT_BATCH
  MaxPosts,       \* bound: calls of event_loop_post per producer
  NoEvent,        \* what the freshly mapped slots hold
  MallocMayFail   \* whether malloc of the next batch may return NULL

Event == Producers \X (1 .. MaxPosts)
Slot == 0 .. Cap - 1

ASSUME ConstantsAssumption ==
  /\ Cap \in Nat \ {0}
  /\ BatchSize \in Nat \ {0}
  /\ MaxPosts \in Nat
  /\ MallocMayFail \in BOOLEAN
  /\ NoEvent \notin Event

VARIABLES
  head, tail,     \* struct event_loop: next position to claim, to consume
  seq, slot,      \* the mapped region: sequence counters and events
  life,           \* "new", "running", "stopping" (running = 0), "gone" (unmapped)
                  \* or "crashed" (the unmapped region was touched)
  pc, lhead,      \* each producer's place in event_loop_post, its local head / pos
  calls,          \* how many times each producer has called event_loop_post
  wpc, batch,     \* the worker's place in event_loop_run, its current batch
  dispatched,     \* events of the blocks waiting on the main dispatch queue
  handled,        \* history: events whose handler has run, in order
  order           \* history: events in the order their positions were claimed

ring == <<head, tail, seq, slot>>
producers == <<pc, lhead, calls>>
worker == <<wpc, batch>>
main == <<dispatched, handled>>
vars == <<ring, life, producers, worker, main, order>>

\* The event a producer is posting: its calls-th one.
Ev(p) == <<p, calls[p]>>
Index(pos) == pos % Cap
Pos(p) == lhead[p]

-----------------------------------------------------------------------------
(* event_loop_init, event_loop_begin, event_loop_destroy *)

Init ==
  /\ head = 0 /\ tail = 0
  /\ seq = [i \in Slot |-> i]
  /\ slot = [i \in Slot |-> NoEvent]
  /\ life = "new"
  /\ pc = [p \in Producers |-> "idle"]
  /\ lhead = [p \in Producers |-> 0]
  /\ calls = [p \in Producers |-> 0]
  /\ wpc = "off" /\ batch = <<>>
  /\ dispatched = <<>> /\ handled = <<>> /\ order = <<>>

Begin ==
  /\ life = "new"
  /\ life' = "running"
  /\ \/ wpc' = "test"
     \/ MallocMayFail /\ wpc' = "exited"      \* if (!batch) return NULL
  /\ UNCHANGED <<ring, producers, batch, main, order>>

Stop ==
  /\ life = "running"
  /\ life' = "stopping"
  /\ UNCHANGED <<ring, producers, worker, main, order>>

\* pthread_join returns once the worker has left its loop; then munmap.
JoinAndUnmap ==
  /\ life = "stopping" /\ wpc = "exited"
  /\ life' = "gone"
  /\ UNCHANGED <<ring, producers, worker, main, order>>

-----------------------------------------------------------------------------
(* event_loop_claim and event_loop_post, run by producer p *)

Call(p) ==
  /\ pc[p] = "idle" /\ calls[p] < MaxPosts /\ life # "gone"
  /\ calls' = [calls EXCEPT ![p] = @ + 1]
  /\ pc' = [pc EXCEPT ![p] = "load"]
  /\ UNCHANGED <<ring, life, lhead, worker, main, order>>

LoadHead(p) ==
  /\ pc[p] = "load"
  /\ lhead' = [lhead EXCEPT ![p] = head]
  /\ pc' = [pc EXCEPT ![p] = "full?"]
  /\ UNCHANGED <<ring, life, calls, worker, main, order>>

\* Mutant: one position too many is claimed.
HasRoomForOneMore(h, t) == t <= h /\ h - t <= Cap

\* head - tail is unsigned: when a stale head lies behind tail the difference
\* wraps to a huge number and the test fails.
HasRoom(h, t) == t <= h /\ h - t < Cap

LoadTail(p) ==
  /\ pc[p] = "full?"
  /\ pc' = [pc EXCEPT ![p] = IF HasRoom(lhead[p], tail) THEN "cas" ELSE "load"]
  /\ UNCHANGED <<ring, life, lhead, calls, worker, main, order>>

\* Mutant: head is stored, not compared and swapped.
ClaimStored(p) ==
  /\ pc[p] = "cas"
  /\ head' = lhead[p] + 1
  /\ order' = Append(order, Ev(p))
  /\ pc' = [pc EXCEPT ![p] = "await"]
  /\ UNCHANGED <<tail, seq, slot, life, lhead, calls, worker, main>>

ClaimWon(p) ==
  /\ pc[p] = "cas" /\ head = lhead[p]
  /\ head' = head + 1
  /\ order' = Append(order, Ev(p))
  /\ pc' = [pc EXCEPT ![p] = "await"]
  /\ UNCHANGED <<tail, seq, slot, life, lhead, calls, worker, main>>

ClaimLost(p) ==
  /\ pc[p] = "cas" /\ head # lhead[p]
  /\ pc' = [pc EXCEPT ![p] = "load"]
  /\ UNCHANGED <<ring, life, lhead, calls, worker, main, order>>

AwaitSlot(p) ==
  /\ pc[p] = "await" /\ life # "gone"
  /\ seq[Index(Pos(p))] = Pos(p)
  /\ pc' = [pc EXCEPT ![p] = "write"]
  /\ UNCHANGED <<ring, life, lhead, calls, worker, main, order>>

Write(p) ==
  /\ pc[p] = "write" /\ life # "gone"
  /\ slot' = [slot EXCEPT ![Index(Pos(p))] = Ev(p)]
  /\ pc' = [pc EXCEPT ![p] = "publish"]
  /\ UNCHANGED <<head, tail, seq, life, lhead, calls, worker, main, order>>

Publish(p) ==
  /\ pc[p] = "publish" /\ life # "gone"
  /\ seq' = [seq EXCEPT ![Index(Pos(p))] = Pos(p) + 1]
  /\ pc' = [pc EXCEPT ![p] = "idle"]
  /\ UNCHANGED <<head, tail, slot, life, lhead, calls, worker, main, order>>

\* A producer caught by the teardown touches the unmapped region: the process
\* dies.
Fault(p) ==
  /\ pc[p] \in {"await", "write", "publish"} /\ life = "gone"
  /\ life' = "crashed"
  /\ UNCHANGED <<ring, producers, worker, main, order>>

-----------------------------------------------------------------------------
(* event_loop_run and event_loop_pop, run by the worker thread *)

TestRunning ==
  /\ wpc = "test"
  /\ wpc' = IF life = "running" THEN "poll" ELSE "exited"
  /\ UNCHANGED <<ring, life, producers, batch, main, order>>

\* Mutant: an off-by-one takes a recycled slot for a published one.
PublishedEarly(pos) == seq[Index(pos)] >= pos

Published(pos) == seq[Index(pos)] = pos + 1

Poll ==
  /\ wpc = "poll" /\ Len(batch) < BatchSize /\ Published(tail)
  /\ wpc' = "copy"
  /\ UNCHANGED <<ring, life, producers, batch, main, order>>

Copy ==
  /\ wpc = "copy"
  /\ batch' = Append(batch, slot[Index(tail)])
  /\ wpc' = "recycle"
  /\ UNCHANGED <<ring, life, producers, main, order>>

\* Mutant: the slot is recycled for the position after its next one.
RecyclePast ==
  /\ wpc = "recycle"
  /\ seq' = [seq EXCEPT ![Index(tail)] = tail + Cap + 1]
  /\ wpc' = "advance"
  /\ UNCHANGED <<head, tail, slot, life, producers, batch, main, order>>

\* Mutant: the slot is never recycled.
RecycleForgotten ==
  /\ wpc = "recycle"
  /\ wpc' = "advance"
  /\ UNCHANGED <<ring, life, producers, batch, main, order>>

Recycle ==
  /\ wpc = "recycle"
  /\ seq' = [seq EXCEPT ![Index(tail)] = tail + Cap]
  /\ wpc' = "advance"
  /\ UNCHANGED <<head, tail, slot, life, producers, batch, main, order>>

Advance ==
  /\ wpc = "advance"
  /\ tail' = tail + 1
  /\ wpc' = "poll"
  /\ UNCHANGED <<head, seq, slot, life, producers, batch, main, order>>

BatchEnds == wpc = "poll" /\ (Len(batch) = BatchSize \/ ~Published(tail))

\* Mutant: a batch overtakes the blocks that wait on the main queue.
DispatchFirst ==
  /\ BatchEnds /\ batch # <<>>
  /\ dispatched' = batch \o dispatched
  /\ batch' = <<>>
  /\ \/ wpc' = "test"
     \/ MallocMayFail /\ wpc' = "exited"
  /\ UNCHANGED <<ring, life, producers, handled, order>>

\* Mutant: only a full batch is dispatched.
DispatchFull ==
  /\ wpc = "poll" /\ Len(batch) = BatchSize
  /\ dispatched' = dispatched \o batch
  /\ batch' = <<>>
  /\ wpc' = "test"
  /\ UNCHANGED <<ring, life, producers, handled, order>>

Dispatch ==
  /\ BatchEnds /\ batch # <<>>
  /\ dispatched' = dispatched \o batch
  /\ batch' = <<>>
  /\ \/ wpc' = "test"
     \/ MallocMayFail /\ wpc' = "exited"      \* if (!batch) break
  /\ UNCHANGED <<ring, life, producers, handled, order>>

Yield ==
  /\ BatchEnds /\ batch = <<>>
  /\ wpc' = "test"
  /\ UNCHANGED <<ring, life, producers, batch, main, order>>

\* The main thread runs the handlers of a dispatched block one by one.
Execute ==
  /\ dispatched # <<>>
  /\ handled' = Append(handled, Head(dispatched))
  /\ dispatched' = Tail(dispatched)
  /\ UNCHANGED <<ring, life, producers, worker, order>>

-----------------------------------------------------------------------------
Post(p) ==
  \/ LoadHead(p) \/ LoadTail(p) \/ ClaimWon(p) \/ ClaimLost(p)
  \/ AwaitSlot(p) \/ Write(p) \/ Publish(p) \/ Fault(p)

Work ==
  TestRunning \/ Poll \/ Copy \/ Recycle \/ Advance \/ Dispatch \/ Yield

Next ==
  /\ life # "crashed"
  /\ \/ Begin \/ Stop \/ JoinAndUnmap
     \/ \E p \in Producers : Call(p) \/ Post(p)
     \/ Work
     \/ Execute

Spec == Init /\ [][Next]_vars

\* A started thread keeps being scheduled, and the main queue is drained.
Fairness ==
  /\ \A p \in Producers : WF_vars(Post(p))
  /\ WF_vars(Work) /\ WF_vars(Execute)

FairSpec == Spec /\ Fairness

-----------------------------------------------------------------------------
(* Properties *)

TypeOK ==
  /\ head \in Nat /\ tail \in Nat
  /\ seq \in [Slot -> Nat]
  /\ slot \in [Slot -> Event \cup {NoEvent}]
  /\ life \in {"new", "running", "stopping", "gone", "crashed"}
  /\ pc \in [Producers -> {"idle", "load", "full?", "cas", "await", "write",
                           "publish"}]
  /\ lhead \in [Producers -> Nat]
  /\ calls \in [Producers -> 0 .. MaxPosts]
  /\ \A p \in Producers : pc[p] # "idle" => calls[p] > 0
  /\ wpc \in {"off", "test", "poll", "copy", "recycle", "advance", "exited"}
  /\ batch \in Seq(Event) /\ dispatched \in Seq(Event)
  /\ handled \in Seq(Event) /\ order \in Seq(Event)

\* Producers that own a claimed, not yet published position.
Holding(p) == pc[p] \in {"await", "write", "publish"}

\* "A producer never touches a slot the consumer has not finished reading, and
\* vice versa" (event_loop.c:24-25): two producers are never at the write of
\* the same slot, and none is while the worker is copying that slot out.
NoSlotRace ==
  \A p \in Producers :
    pc[p] = "write" =>
      /\ \A q \in Producers \ {p} : pc[q] = "write" => Index(Pos(q)) # Index(Pos(p))
      /\ wpc = "copy" => Index(tail) # Index(Pos(p))

\* Events reach the handlers in the order their positions were claimed, each
\* once and none skipped: what has left the ring is exactly the first claimed
\* events (event_loop_pop, event_loop_run).
Popped == IF wpc \in {"recycle", "advance"} THEN tail + 1 ELSE tail

InClaimOrder ==
  (handled \o dispatched) \o batch = SubSeq(order, 1, Popped)

\* The ring implements a bounded first-in first-out queue: EventFifo.
Fifo == INSTANCE EventFifo WITH
          pending <- SubSeq(order, Popped + 1, Len(order)),
          delivered <- (handled \o dispatched) \o batch,
          posted <- [p \in Producers |->
                       IF pc[p] \in {"load", "full?", "cas"}
                         THEN calls[p] - 1 ELSE calls[p]]

FifoSpec == Fifo!Spec

\* The loop is being torn down, or its worker gave up for want of memory: that
\* leaves el->running set and nobody at the other end of the ring.
TornDown == life \in {"stopping", "gone", "crashed"} \/ wpc = "exited"

\* "Events are never dropped" (event_loop.c:34-35): once the loop runs, every event
\* whose post has begun has its handler run, unless the worker stops.
EventuallyHandled ==
  \A p \in Producers : \A n \in 1 .. MaxPosts :
    (calls[p] >= n /\ life = "running")
      ~> (\/ \E i \in DOMAIN handled : handled[i] = <<p, n>>
          \/ TornDown)

\* Back pressure ends: while the worker runs event_loop_post returns.
PostReturns ==
  \A p \in Producers :
    (pc[p] = "load" /\ life = "running") ~> (pc[p] = "idle" \/ TornDown)
-----------------------------------------------------------------------------
(* The inductive invariant behind NoSlotRace, InClaimOrder and FifoSpec *)

\* The window of positions: tail .. head - 1 are claimed, head .. tail+Cap-1 free.
WindowInv ==
  /\ tail <= head /\ head <= tail + Cap
  /\ Len(order) = head

\* What a producer's local copy of head is still worth at its next step.
ClaimInv ==
  \A p \in Producers :
    /\ pc[p] \in {"full?", "cas"} => lhead[p] <= head
    /\ pc[p] = "cas" => lhead[p] < tail + Cap

\* A claimed, unpublished position belongs to one producer, which has its slot
\* to itself until the sequence counter says otherwise.
HoldInv ==
  \A p \in Producers : Holding(p) =>
    /\ tail <= Pos(p) /\ Pos(p) < head
    /\ seq[Index(Pos(p))] = Pos(p)
    /\ order[Pos(p) + 1] = Ev(p)
    /\ pc[p] = "publish" => slot[Index(Pos(p))] = Ev(p)
    /\ \A q \in Producers : Holding(q) /\ Pos(q) = Pos(p) => q = p
    /\ wpc \in {"copy", "recycle", "advance"} => Pos(p) # tail

\* Every other claimed position is published and its slot holds its event.
PublishedInv ==
  \A pos \in tail .. head - 1 :
    \/ \E p \in Producers : Holding(p) /\ Pos(p) = pos
    \/ pos = tail /\ wpc = "advance"
    \/ seq[Index(pos)] = pos + 1 /\ slot[Index(pos)] = order[pos + 1]

\* A free position's slot has been recycled for it.
FreeInv ==
  \A pos \in head .. tail + Cap - 1 : seq[Index(pos)] = pos

\* The worker starts once and only copies and recycles a published slot.
WorkerInv ==
  /\ life = "new" => wpc = "off"
  /\ wpc \in {"copy", "recycle", "advance"} => tail < head
  /\ wpc \in {"copy", "recycle"} =>
       seq[Index(tail)] = tail + 1 /\ slot[Index(tail)] = order[tail + 1]
  /\ wpc = "advance" => seq[Index(tail)] = tail + Cap

IInv ==
  /\ TypeOK
  /\ WindowInv /\ ClaimInv /\ HoldInv /\ PublishedInv /\ FreeInv /\ WorkerInv
  /\ InClaimOrder
=============================================================================
