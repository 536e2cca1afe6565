------------------------------ MODULE EventFifo ------------------------------
(***************************************************************************)
(* What the event ring of event_loop.c promises its callers: a queue of at *)
(* most Cap events that any producer may append to when there is room and  *)
(* that delivers its events first-in first-out, each exactly once.         *)
(***************************************************************************)
EXTENDS Integers, Sequences

CONSTANTS Producers, Cap, MaxPosts

VARIABLES
  pending,     \* events accepted and not yet taken
  delivered,   \* events taken, in the order they were taken
  posted       \* how many events each producer has had accepted

fifo == <<pending, delivered, posted>>

Init ==
  /\ pending = <<>>
  /\ delivered = <<>>
  /\ posted = [p \in Producers |-> 0]

Enqueue(p) ==
  /\ Len(pending) < Cap
  /\ posted[p] < MaxPosts
  /\ posted' = [posted EXCEPT ![p] = @ + 1]
  /\ pending' = Append(pending, <<p, posted[p] + 1>>)
  /\ UNCHANGED delivered

Dequeue ==
  /\ pending # <<>>
  /\ delivered' = Append(delivered, Head(pending))
  /\ pending' = Tail(pending)
  /\ UNCHANGED posted

Next == Dequeue \/ \E p \in Producers : Enqueue(p)

Spec == Init /\ [][Next]_fifo
==============================================================================
