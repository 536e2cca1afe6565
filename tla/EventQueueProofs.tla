-------------------------- MODULE EventQueueProofs --------------------------
(***************************************************************************)
(* Proofs about EventQueue, for any number of producers, any capacity and  *)
(* any batch size: the inductive invariant IInv, what follows from it, and *)
(* that the ring implements the bounded queue EventFifo.                   *)
(***************************************************************************)
EXTENDS EventQueue, SequenceTheorems, TLAPS

(***************************************************************************)
(* Positions that lie less than a capacity apart have different slots, and *)
(* a position has the slot of the one a capacity before it.                *)
(***************************************************************************)
LEMMA ModInjective ==
  ASSUME NEW n \in Nat \ {0}, NEW a \in Nat, NEW b \in Nat,
         a <= b, b < a + n, a % n = b % n
  PROVE  a = b
<1> DEFINE qa == a \div n
           qb == b \div n
<1>1. a = n * qa + (a % n) /\ qa \in Int BY Z3
<1>2. b = n * qb + (b % n) /\ qb \in Int BY Z3
<1>3. b - a = n * (qb - qa) BY <1>1, <1>2, Z3
<1> HIDE DEF qa, qb
<1>4. qb - qa < 1 /\ qb - qa > -1 BY <1>1, <1>2, <1>3, Z3
<1> QED BY <1>1, <1>2, <1>3, <1>4, Z3

LEMMA IndexType == \A pos \in Nat : Index(pos) \in Slot
BY ConstantsAssumption DEF Index, Slot

LEMMA IndexInjective ==
  ASSUME NEW a \in Nat, NEW b \in Nat,
         a < b + Cap, b < a + Cap, Index(a) = Index(b)
  PROVE  a = b
<1>1. CASE a <= b
  BY <1>1, ModInjective, ConstantsAssumption DEF Index
<1>2. CASE b <= a
  BY <1>2, ModInjective, ConstantsAssumption DEF Index
<1> QED BY <1>1, <1>2

LEMMA IndexShift == \A pos \in Nat : Index(pos + Cap) = Index(pos)
<1> SUFFICES ASSUME NEW pos \in Nat PROVE (pos + Cap) % Cap = pos % Cap
  BY DEF Index
<1> DEFINE q == pos \div Cap
           r == pos % Cap
           s == (pos + Cap) \div Cap
           t == (pos + Cap) % Cap
<1>1. pos = Cap * q + r /\ q \in Int /\ r \in 0 .. Cap - 1
  BY ConstantsAssumption, Z3
<1>2. pos + Cap = Cap * s + t /\ s \in Int /\ t \in 0 .. Cap - 1
  BY ConstantsAssumption, Z3
<1> HIDE DEF q, r, s, t
<1>3. t - r = Cap * ((q + 1) - s)
  BY <1>1, <1>2, ConstantsAssumption, Z3
<1>4. (q + 1) - s < 1 /\ (q + 1) - s > -1
  BY <1>1, <1>2, <1>3, ConstantsAssumption, Z3
<1>5. t = r
  BY <1>1, <1>2, <1>3, <1>4, ConstantsAssumption, Z3
<1> QED BY <1>5 DEF t, r

LEMMA IndexSmall == \A pos \in Slot : Index(pos) = pos
BY ConstantsAssumption DEF Index, Slot
-----------------------------------------------------------------------------
LEMMA EvType ==
  ASSUME TypeOK, NEW p \in Producers, pc[p] # "idle"
  PROVE  Ev(p) \in Event
BY ConstantsAssumption DEF TypeOK, Ev, Event

LEMMA InitIInv == Init => IInv
<1> SUFFICES ASSUME Init PROVE IInv
  OBVIOUS
<1> USE ConstantsAssumption
<1>1. TypeOK
  BY EmptySeq DEF Init, TypeOK, Slot
<1>2. WindowInv /\ ClaimInv /\ HoldInv /\ WorkerInv /\ PublishedInv
  BY DEF Init, WindowInv, ClaimInv, HoldInv, WorkerInv, PublishedInv, Holding
<1>3. FreeInv
  BY IndexSmall DEF Init, FreeInv, Slot
<1>4. InClaimOrder
  BY DEF Init, InClaimOrder, Popped
<1> QED BY <1>1, <1>2, <1>3, <1>4 DEF IInv
-----------------------------------------------------------------------------
(* Steps of a producer *)

LEMMA CallStep ==
  ASSUME IInv, NEW p \in Producers, Call(p)
  PROVE  IInv'
<1> USE DEF Call, IInv, ring, worker, main
<1>1. TypeOK'
  BY ConstantsAssumption DEF TypeOK
<1>2. WindowInv' /\ FreeInv' /\ WorkerInv'
  BY DEF WindowInv, FreeInv, WorkerInv, Index
<1>3. ClaimInv'
  BY DEF ClaimInv, TypeOK
<1>4. HoldInv' /\ PublishedInv'
  BY DEF HoldInv, PublishedInv, Holding, Pos, Ev, Index, TypeOK
<1>5. InClaimOrder'
  BY DEF InClaimOrder, Popped
<1> QED BY <1>1, <1>2, <1>3, <1>4, <1>5

LEMMA LoadStep ==
  ASSUME IInv, NEW p \in Producers, LoadHead(p) \/ LoadTail(p) \/ ClaimLost(p)
  PROVE  IInv'
<1> USE DEF LoadHead, LoadTail, ClaimLost, IInv, ring, worker, main
<1>1. TypeOK'
  BY DEF TypeOK
<1>2. WindowInv' /\ FreeInv' /\ WorkerInv'
  BY DEF WindowInv, FreeInv, WorkerInv, Index
<1>3. ClaimInv'
  <2> SUFFICES ASSUME NEW q \in Producers
               PROVE  /\ pc'[q] \in {"full?", "cas"} => lhead'[q] <= head'
                      /\ pc'[q] = "cas" => lhead'[q] < tail' + Cap
    BY DEF ClaimInv
  <2>1. CASE q # p
    BY <2>1 DEF ClaimInv, TypeOK
  <2>2. CASE q = p
    BY <2>2, ConstantsAssumption DEF ClaimInv, TypeOK, HasRoom
  <2> QED BY <2>1, <2>2
<1>4. \A q \in Producers : /\ Holding(q)' <=> Holding(q)
                           /\ Holding(q) => Pos(q)' = Pos(q) /\ pc'[q] = pc[q]
                           /\ Ev(q)' = Ev(q)
  BY DEF Holding, Pos, Ev, TypeOK
<1>5. HoldInv'
  BY <1>4 DEF HoldInv, Index
<1>6. PublishedInv'
  BY <1>4 DEF PublishedInv, Index
<1>7. InClaimOrder'
  BY DEF InClaimOrder, Popped
<1> QED BY <1>1, <1>2, <1>3, <1>5, <1>6, <1>7

(***************************************************************************)
(* The compare-and-swap: the claimed position was free, so its slot is     *)
(* recycled and no other producer holds it.                                *)
(***************************************************************************)
LEMMA ClaimStep ==
  ASSUME IInv, NEW p \in Producers, ClaimWon(p)
  PROVE  IInv'
<1> USE DEF ClaimWon, IInv, worker, main
<1>0. Ev(p) \in Event /\ Ev(p)' = Ev(p)
  BY EvType DEF Ev
<1>1. /\ head' = head + 1 /\ lhead[p] = head /\ head < tail + Cap
      /\ head \in Nat /\ tail \in Nat /\ tail <= head
  BY DEF TypeOK, ClaimInv, WindowInv
<1>2. /\ order' \in Seq(Event) /\ Len(order') = head + 1
      /\ \A i \in 1 .. head : order'[i] = order[i]
      /\ order'[head + 1] = Ev(p)
  BY <1>0, AppendProperties DEF TypeOK, WindowInv
<1>3. TypeOK'
  BY <1>1, <1>2 DEF TypeOK
<1>4. WindowInv' /\ WorkerInv'
  <2>1. WindowInv'
    BY <1>1, <1>2, ConstantsAssumption DEF WindowInv
  <2>2. tail < head => order'[tail + 1] = order[tail + 1]
    BY <1>1, <1>2
  <2>3. wpc' = wpc /\ tail' = tail /\ seq' = seq /\ slot' = slot /\ life' = life
    OBVIOUS
  <2>4. WorkerInv
    OBVIOUS
  <2>5. wpc \in {"copy", "recycle", "advance"} => tail < head'
    BY <1>1, <2>4 DEF WorkerInv
  <2>6. WorkerInv'
    BY <2>2, <2>3, <2>4, <2>5 DEF WorkerInv, Index
  <2> QED BY <2>1, <2>6
<1>5. ClaimInv'
  BY <1>1 DEF ClaimInv, TypeOK
<1>6. FreeInv'
  BY <1>1, ConstantsAssumption DEF FreeInv, Index
<1>7. HoldInv'
  <2> SUFFICES ASSUME NEW q \in Producers, Holding(q)'
               PROVE  /\ tail' <= Pos(q)' /\ Pos(q)' < head'
                      /\ seq'[Index(Pos(q)')] = Pos(q)'
                      /\ order'[Pos(q)' + 1] = Ev(q)'
                      /\ pc'[q] = "publish" => slot'[Index(Pos(q)')] = Ev(q)'
                      /\ \A r \in Producers : Holding(r)' /\ Pos(r)' = Pos(q)' => r = q
                      /\ wpc' \in {"copy", "recycle", "advance"} => Pos(q)' # tail'
    BY DEF HoldInv, Index, Ev, Pos, Holding
  <2>0. \A r \in Producers : Pos(r)' = Pos(r) /\ Ev(r)' = Ev(r) /\ Pos(r) \in Nat
    BY DEF Pos, Ev, TypeOK
  <2>1. \A r \in Producers : r # p => (Holding(r)' <=> Holding(r))
    BY DEF Holding, TypeOK
  <2>2. \A r \in Producers : Holding(r) => Pos(r) < head
    BY DEF HoldInv
  <2>3. CASE q = p
    <3>1. Pos(q) = head
      BY <2>3, <1>1 DEF Pos
    <3>2. seq[Index(head)] = head
      BY <1>1, ConstantsAssumption DEF FreeInv
    <3>3. wpc \in {"copy", "recycle", "advance"} => tail < head
      BY DEF WorkerInv
    <3> QED BY <2>0, <2>1, <2>2, <2>3, <3>1, <3>2, <3>3, <1>1, <1>2 DEF TypeOK
  <2>4. CASE q # p
    <3>1. Holding(q) /\ Pos(q) < head /\ Pos(q) # Pos(p)
      BY <2>1, <2>2, <2>4, <1>1 DEF Pos
    <3>2. pc'[q] = pc[q]
      BY <2>4 DEF TypeOK
    <3>3. order'[Pos(q) + 1] = order[Pos(q) + 1]
      BY <3>1, <1>1, <1>2, <2>0
    <3>4. /\ tail <= Pos(q) /\ seq[Index(Pos(q))] = Pos(q)
          /\ order[Pos(q) + 1] = Ev(q)
          /\ pc[q] = "publish" => slot[Index(Pos(q))] = Ev(q)
          /\ \A r \in Producers : Holding(r) /\ Pos(r) = Pos(q) => r = q
          /\ wpc \in {"copy", "recycle", "advance"} => Pos(q) # tail
      BY <3>1 DEF HoldInv
    <3>5. \A r \in Producers : Holding(r)' /\ Pos(r)' = Pos(q)' => r = q
      BY <2>0, <2>1, <3>1, <3>4
    <3>6. Pos(q)' = Pos(q) /\ Ev(q)' = Ev(q) /\ Pos(q) \in Nat
      BY <2>0
    <3>7. tail' <= Pos(q)' /\ Pos(q)' < head'
      BY <3>1, <3>4, <3>6, <1>1
    <3>8. seq'[Index(Pos(q)')] = Pos(q)' /\ order'[Pos(q)' + 1] = Ev(q)'
      BY <3>3, <3>4, <3>6
    <3>9. pc'[q] = "publish" => slot'[Index(Pos(q)')] = Ev(q)'
      BY <3>2, <3>4, <3>6
    <3> QED BY <3>4, <3>5, <3>6, <3>7, <3>8, <3>9
  <2> QED BY <2>3, <2>4
<1>8. PublishedInv'
  <2> SUFFICES ASSUME NEW pos \in tail' .. head' - 1
               PROVE  \/ \E q \in Producers : Holding(q)' /\ Pos(q)' = pos
                      \/ pos = tail' /\ wpc' = "advance"
                      \/ seq'[Index(pos)] = pos + 1 /\ slot'[Index(pos)] = order'[pos + 1]
    BY DEF PublishedInv, Index
  <2>0. \A r \in Producers : Pos(r)' = Pos(r) /\ (Holding(r) => Holding(r)')
    BY DEF Pos, Holding, TypeOK
  <2>1. CASE pos = head
    BY <2>0, <2>1, <1>1 DEF Pos, Holding, TypeOK
  <2>2. CASE pos # head
    <3>1. pos \in tail .. head - 1 /\ order'[pos + 1] = order[pos + 1]
      BY <2>2, <1>1, <1>2
    <3> QED BY <3>1, <2>0 DEF PublishedInv
  <2> QED BY <2>1, <2>2
<1>9. InClaimOrder'
  <2>1. Popped \in 0 .. head /\ Popped' = Popped
    BY <1>1 DEF Popped, WorkerInv
  <2>2. SubSeq(order', 1, Popped) = SubSeq(order, 1, Popped)
    <3>1. order' = order \o <<Ev(p)>>
      BY <1>0, AppendIsConcat DEF TypeOK
    <3>2. CASE Popped = 0
      BY <3>2
    <3>3. CASE Popped # 0
      <4>1. 1 \in 1 .. Len(order) /\ Popped \in 1 .. Len(order)
        BY <2>1, <3>3 DEF WindowInv
      <4>2. order \in Seq(Event) /\ <<Ev(p)>> \in Seq(Event)
        BY <1>0 DEF TypeOK
      <4> QED BY <4>1, <4>2, <3>1, SubSeqOfConcat1
    <3> QED BY <3>2, <3>3
  <2> QED BY <2>1, <2>2 DEF InClaimOrder, worker, main
<1> QED BY <1>3, <1>4, <1>5, <1>6, <1>7, <1>8, <1>9
\* Within the window of claimable positions a held position has its own slot.
LEMMA HeldSlot ==
  ASSUME IInv, NEW p \in Producers, Holding(p)
  PROVE  /\ Pos(p) \in Nat /\ Index(Pos(p)) \in Slot
         /\ \A pos \in tail .. tail + Cap - 1 :
              pos # Pos(p) => Index(pos) # Index(Pos(p))
<1>1. Pos(p) \in tail .. head - 1 /\ head <= tail + Cap /\ tail \in Nat /\ head \in Nat
  BY DEF IInv, TypeOK, HoldInv, WindowInv, Pos
<1>2. Pos(p) \in Nat /\ Index(Pos(p)) \in Slot
  BY <1>1, IndexType
<1>3. ASSUME NEW pos \in tail .. tail + Cap - 1, Index(pos) = Index(Pos(p))
      PROVE  pos = Pos(p)
  <2>1. pos \in Nat /\ pos < Pos(p) + Cap /\ Pos(p) < pos + Cap
    BY <1>1, ConstantsAssumption
  <2> QED BY <2>1, <1>2, <1>3, IndexInjective
<1> QED BY <1>2, <1>3

LEMMA AwaitStep ==
  ASSUME IInv, NEW p \in Producers, AwaitSlot(p)
  PROVE  IInv'
<1> USE DEF AwaitSlot, IInv, ring, worker, main
<1>1. TypeOK'
  BY DEF TypeOK
<1>2. WindowInv' /\ FreeInv' /\ WorkerInv'
  BY DEF WindowInv, FreeInv, WorkerInv, Index
<1>3. ClaimInv'
  BY DEF ClaimInv, TypeOK
<1>4. \A q \in Producers : /\ Holding(q)' <=> Holding(q)
                           /\ Pos(q)' = Pos(q) /\ Ev(q)' = Ev(q)
                           /\ pc'[q] = "publish" => pc[q] = "publish"
  BY DEF Holding, Pos, Ev, TypeOK
<1>5. HoldInv'
  BY <1>4 DEF HoldInv, Index
<1>6. PublishedInv'
  BY <1>4 DEF PublishedInv, Index
<1>7. InClaimOrder'
  BY DEF InClaimOrder, Popped
<1> QED BY <1>1, <1>2, <1>3, <1>5, <1>6, <1>7

LEMMA WriteStep ==
  ASSUME IInv, NEW p \in Producers, Write(p)
  PROVE  IInv'
<1> USE DEF Write, IInv, worker, main
<1>0. /\ Holding(p) /\ Ev(p) \in Event
      /\ tail \in Nat /\ head \in Nat /\ tail <= head /\ head <= tail + Cap
      /\ Pos(p) \in tail .. head - 1
  BY EvType DEF Holding, TypeOK, WindowInv, HoldInv, Pos
<1>1. /\ slot'[Index(Pos(p))] = Ev(p)
      /\ \A pos \in tail .. tail + Cap - 1 :
           pos # Pos(p) => slot'[Index(pos)] = slot[Index(pos)]
  BY <1>0, HeldSlot DEF TypeOK
<1>2. TypeOK'
  BY <1>0 DEF TypeOK
<1>3. WindowInv' /\ FreeInv'
  BY DEF WindowInv, FreeInv, Index
<1>4. ClaimInv'
  BY DEF ClaimInv, TypeOK
<1>5. WorkerInv'
  <2>1. wpc \in {"copy", "recycle"} => tail # Pos(p) /\ tail \in tail .. tail + Cap - 1
    BY <1>0, ConstantsAssumption DEF HoldInv
  <2> QED BY <1>1, <2>1 DEF WorkerInv, Index
<1>6. \A q \in Producers : /\ Holding(q)' <=> Holding(q)
                           /\ Pos(q)' = Pos(q) /\ Ev(q)' = Ev(q)
                           /\ q # p => pc'[q] = pc[q]
  BY DEF Holding, Pos, Ev, TypeOK
<1>7. HoldInv'
  <2>1. ASSUME NEW q \in Producers, Holding(q), pc'[q] = "publish"
        PROVE  slot'[Index(Pos(q))] = Ev(q)
    <3>1. CASE q = p
      BY <3>1, <1>1
    <3>2. CASE q # p
      <4>1. Pos(q) # Pos(p) /\ Pos(q) \in tail .. tail + Cap - 1
        <5>1. Pos(q) # Pos(p) /\ tail <= Pos(q) /\ Pos(q) < head
          BY <3>2, <2>1, <1>0 DEF HoldInv
        <5>2. Pos(q) \in Nat
          BY DEF TypeOK, Pos
        <5> QED BY <5>1, <5>2, <1>0, ConstantsAssumption
      <4>2. slot[Index(Pos(q))] = Ev(q)
        BY <3>2, <2>1, <1>6 DEF HoldInv
      <4> QED BY <4>1, <4>2, <1>1
    <3> QED BY <3>1, <3>2
  <2> QED BY <2>1, <1>6 DEF HoldInv, Index
<1>8. PublishedInv'
  <2>1. \A pos \in tail .. head - 1 : pos \in tail .. tail + Cap - 1
    BY <1>0, ConstantsAssumption
  <2> QED BY <2>1, <1>0, <1>1, <1>6 DEF PublishedInv, Index
<1>9. InClaimOrder'
  BY DEF InClaimOrder, Popped
<1> QED BY <1>2, <1>3, <1>4, <1>5, <1>7, <1>8, <1>9

LEMMA PublishStep ==
  ASSUME IInv, NEW p \in Producers, Publish(p)
  PROVE  IInv'
<1> USE DEF Publish, IInv, worker, main
<1>0. /\ Holding(p)
      /\ tail \in Nat /\ head \in Nat /\ tail <= head /\ head <= tail + Cap
      /\ Pos(p) \in tail .. head - 1
      /\ slot[Index(Pos(p))] = order[Pos(p) + 1]
  BY DEF Holding, TypeOK, WindowInv, HoldInv, Pos
<1>1. /\ seq'[Index(Pos(p))] = Pos(p) + 1
      /\ \A pos \in tail .. tail + Cap - 1 :
           pos # Pos(p) => seq'[Index(pos)] = seq[Index(pos)]
  BY <1>0, HeldSlot DEF TypeOK
<1>2. TypeOK'
  <2>1. seq' \in [Slot -> Nat]
    BY <1>0, HeldSlot DEF TypeOK
  <2>2. pc' \in [Producers -> {"idle", "load", "full?", "cas", "await", "write",
                               "publish"}]
    BY DEF TypeOK
  <2>3. \A q \in Producers : pc'[q] # "idle" => calls'[q] > 0
    BY DEF TypeOK
  <2> QED BY <2>1, <2>2, <2>3 DEF TypeOK
<1>3. WindowInv'
  BY DEF WindowInv
<1>4. FreeInv'
  <2>1. \A pos \in head .. tail + Cap - 1 : pos \in tail .. tail + Cap - 1 /\ pos # Pos(p)
    BY <1>0, ConstantsAssumption
  <2> QED BY <2>1, <1>1 DEF FreeInv, Index
<1>5. ClaimInv'
  BY DEF ClaimInv, TypeOK
<1>6. WorkerInv'
  <2>1. wpc \in {"copy", "recycle", "advance"} =>
          tail # Pos(p) /\ tail \in tail .. tail + Cap - 1
    BY <1>0, ConstantsAssumption DEF HoldInv
  <2> QED BY <1>1, <2>1 DEF WorkerInv, Index
<1>7. /\ ~Holding(p)'
      /\ \A q \in Producers : /\ Pos(q)' = Pos(q) /\ Ev(q)' = Ev(q)
                              /\ q # p => (Holding(q)' <=> Holding(q)) /\ pc'[q] = pc[q]
  BY DEF Holding, Pos, Ev, TypeOK
<1>8. HoldInv'
  <2>1. ASSUME NEW q \in Producers, Holding(q), q # p
        PROVE  seq'[Index(Pos(q))] = Pos(q)
    <3>1. Pos(q) # Pos(p) /\ Pos(q) \in tail .. tail + Cap - 1
      <4>1. Pos(q) # Pos(p) /\ tail <= Pos(q) /\ Pos(q) < head
        BY <2>1, <1>0 DEF HoldInv
      <4>2. Pos(q) \in Nat
        BY DEF TypeOK, Pos
      <4> QED BY <4>1, <4>2, <1>0, ConstantsAssumption
    <3>2. seq[Index(Pos(q))] = Pos(q)
      BY <2>1 DEF HoldInv
    <3> QED BY <3>1, <3>2, <1>1
  <2> QED BY <2>1, <1>7 DEF HoldInv, Index
<1>9. PublishedInv'
  <2>1. \A pos \in tail .. head - 1 : pos \in tail .. tail + Cap - 1
    BY <1>0, ConstantsAssumption
  <2>2. \A pos \in tail .. head - 1 : pos # Pos(p) =>
          \/ \E q \in Producers : Holding(q)' /\ Pos(q)' = pos
          \/ pos = tail /\ wpc = "advance"
          \/ seq[Index(pos)] = pos + 1 /\ slot[Index(pos)] = order[pos + 1]
    BY <1>7 DEF PublishedInv
  <2> QED BY <2>1, <2>2, <1>0, <1>1 DEF PublishedInv, Index
<1>10. InClaimOrder'
  BY DEF InClaimOrder, Popped
<1> QED BY <1>2, <1>3, <1>4, <1>5, <1>6, <1>8, <1>9, <1>10
-----------------------------------------------------------------------------
(* Steps of the worker and of the main thread *)

LEMMA PoppedType ==
  ASSUME IInv
  PROVE  /\ tail \in Nat /\ head \in Nat /\ tail <= head /\ head <= tail + Cap
         /\ Popped \in 0 .. head /\ Len(order) = head
         /\ Popped >= tail /\ order \in Seq(Event)
BY DEF IInv, TypeOK, WindowInv, WorkerInv, Popped

\* A published tail slot is claimed, unheld, and holds the tail event.
LEMMA PublishedTail ==
  ASSUME IInv, Published(tail), wpc = "poll"
  PROVE  /\ tail < head
         /\ slot[Index(tail)] = order[tail + 1]
         /\ \A p \in Producers : Holding(p) => Pos(p) # tail
<1> USE DEF IInv, Published
<1>1. tail \in Nat /\ head \in Nat /\ tail <= head /\ head <= tail + Cap
  BY PoppedType
<1>2. tail < head
  <2> SUFFICES ASSUME tail = head PROVE FALSE
    BY <1>1
  <2>1. tail \in head .. tail + Cap - 1
    BY <1>1, ConstantsAssumption
  <2>2. seq[Index(tail)] = tail
    BY <2>1 DEF FreeInv
  <2> QED BY <2>2, <1>1
<1>3. ASSUME NEW p \in Producers, Holding(p), Pos(p) = tail
      PROVE  FALSE
  <2>1. seq[Index(tail)] = tail
    BY <1>3 DEF HoldInv
  <2> QED BY <2>1, <1>1
<1>4. slot[Index(tail)] = order[tail + 1]
  <2>1. tail \in tail .. head - 1
    BY <1>1, <1>2
  <2> QED BY <2>1, <1>3 DEF PublishedInv
<1> QED BY <1>2, <1>3, <1>4

LEMMA PollStep ==
  ASSUME IInv, TestRunning \/ Poll \/ Yield
  PROVE  IInv'
<1> USE DEF TestRunning, Poll, Yield, BatchEnds, IInv, ring, producers, main
<1>1. TypeOK'
  BY DEF TypeOK
<1>2. WindowInv' /\ ClaimInv' /\ FreeInv'
  BY DEF WindowInv, ClaimInv, FreeInv, Index
<1>3. HoldInv'
  <2>1. wpc' \in {"copy", "recycle", "advance"} =>
          \A p \in Producers : Holding(p) => Pos(p) # tail
    BY PublishedTail
  <2> QED BY <2>1 DEF HoldInv, Holding, Pos, Ev, Index
<1>4. PublishedInv'
  BY DEF PublishedInv, Holding, Pos, Index
<1>5. WorkerInv'
  BY PublishedTail DEF WorkerInv, Index, Published
<1>6. InClaimOrder'
  BY DEF InClaimOrder, Popped
<1> QED BY <1>1, <1>2, <1>3, <1>4, <1>5, <1>6

\* Appending the next claimed event to a prefix of the claim order extends it.
LEMMA PrefixExtends ==
  ASSUME NEW S, NEW s \in Seq(S), NEW n \in 0 .. Len(s) - 1
  PROVE  SubSeq(s, 1, n + 1) = SubSeq(s, 1, n) \o <<s[n + 1]>>
<1>1. 1 \in 1 .. Len(s) /\ n + 1 \in 1 .. Len(s) /\ (n + 1) - 1 = n
  BY LenProperties
<1> QED BY <1>1, SubSeqRecursiveSecond

LEMMA CopyStep ==
  ASSUME IInv, Copy
  PROVE  IInv'
<1> USE DEF Copy, IInv, ring, producers, main
<1>0. /\ tail \in Nat /\ tail < head /\ slot[Index(tail)] = order[tail + 1]
      /\ Len(order) = head /\ order \in Seq(Event) /\ head \in Nat
      /\ order[tail + 1] \in Event
  <2>1. tail \in Nat /\ tail < head /\ slot[Index(tail)] = order[tail + 1]
        /\ Len(order) = head /\ order \in Seq(Event) /\ head \in Nat
    BY PoppedType DEF WorkerInv
  <2> QED BY <2>1, ElementOfSeq
<1>1. TypeOK'
  BY <1>0, AppendProperties DEF TypeOK
<1>2. WindowInv' /\ ClaimInv' /\ FreeInv'
  BY DEF WindowInv, ClaimInv, FreeInv, Index
<1>3. HoldInv'
  BY DEF HoldInv, Holding, Pos, Ev, Index
<1>4. PublishedInv'
  BY DEF PublishedInv, Holding, Pos, Index
<1>5. WorkerInv'
  BY DEF WorkerInv, Index
<1>6. InClaimOrder'
  <2>1. batch \in Seq(Event) /\ <<order[tail + 1]>> \in Seq(Event)
        /\ handled \o dispatched \in Seq(Event)
    BY <1>0, ConcatProperties DEF TypeOK
  <2>2. batch' = batch \o <<order[tail + 1]>>
    BY <1>0, <2>1, AppendIsConcat
  <2>3. (handled \o dispatched) \o batch' =
          ((handled \o dispatched) \o batch) \o <<order[tail + 1]>>
    BY <2>1, <2>2, ConcatAssociative
  <2>4. (handled \o dispatched) \o batch = SubSeq(order, 1, tail)
    BY DEF InClaimOrder, Popped
  <2>5. SubSeq(order, 1, tail + 1) = SubSeq(order, 1, tail) \o <<order[tail + 1]>>
    <3>1. tail \in 0 .. Len(order) - 1
      BY <1>0
    <3> QED BY <3>1, <1>0, PrefixExtends
  <2> QED BY <2>3, <2>4, <2>5 DEF InClaimOrder, Popped
<1> QED BY <1>1, <1>2, <1>3, <1>4, <1>5, <1>6

\* Within the window the tail has its own slot.
LEMMA TailSlot ==
  ASSUME IInv
  PROVE  /\ Index(tail) \in Slot
         /\ \A pos \in tail .. tail + Cap - 1 :
              pos # tail => Index(pos) # Index(tail)
<1>1. tail \in Nat
  BY PoppedType
<1>2. ASSUME NEW pos \in tail .. tail + Cap - 1, Index(pos) = Index(tail)
      PROVE  pos = tail
  <2>1. pos \in Nat /\ pos < tail + Cap /\ tail < pos + Cap
    BY <1>1, ConstantsAssumption
  <2> QED BY <2>1, <1>1, <1>2, IndexInjective
<1> QED BY <1>1, <1>2, IndexType

LEMMA RecycleStep ==
  ASSUME IInv, Recycle
  PROVE  IInv'
<1> USE DEF Recycle, IInv, producers, main
<1>0. tail \in Nat /\ head \in Nat /\ tail < head /\ head <= tail + Cap
  BY PoppedType DEF WorkerInv
<1>1. /\ seq'[Index(tail)] = tail + Cap
      /\ \A pos \in tail .. tail + Cap - 1 :
           pos # tail => seq'[Index(pos)] = seq[Index(pos)]
  BY TailSlot DEF TypeOK
<1>2. TypeOK'
  BY <1>0, TailSlot, ConstantsAssumption DEF TypeOK
<1>3. WindowInv' /\ ClaimInv'
  BY DEF WindowInv, ClaimInv
<1>4. FreeInv'
  <2>1. \A pos \in head .. tail + Cap - 1 : pos \in tail .. tail + Cap - 1 /\ pos # tail
    BY <1>0, ConstantsAssumption
  <2> QED BY <2>1, <1>1 DEF FreeInv, Index
<1>5. HoldInv'
  <2>1. ASSUME NEW p \in Producers, Holding(p)
        PROVE  seq'[Index(Pos(p))] = Pos(p) /\ Pos(p) # tail
    <3>1. Pos(p) # tail /\ tail <= Pos(p) /\ Pos(p) < head /\ seq[Index(Pos(p))] = Pos(p)
      BY <2>1 DEF HoldInv
    <3>2. Pos(p) \in tail .. tail + Cap - 1
      BY <3>1, <1>0, ConstantsAssumption DEF TypeOK, Pos
    <3> QED BY <3>1, <3>2, <1>1
  <2> QED BY <2>1 DEF HoldInv, Holding, Pos, Ev, Index
<1>6. PublishedInv'
  <2>1. \A pos \in tail .. head - 1 : pos \in tail .. tail + Cap - 1
    BY <1>0, ConstantsAssumption
  <2> QED BY <2>1, <1>1 DEF PublishedInv, Holding, Pos, Index
<1>7. WorkerInv'
  BY <1>0, <1>1 DEF WorkerInv, Index
<1>8. InClaimOrder'
  BY DEF InClaimOrder, Popped
<1> QED BY <1>2, <1>3, <1>4, <1>5, <1>6, <1>7, <1>8

LEMMA AdvanceStep ==
  ASSUME IInv, Advance
  PROVE  IInv'
<1> USE DEF Advance, IInv, producers, main
<1>0. /\ tail \in Nat /\ head \in Nat /\ tail < head /\ head <= tail + Cap
      /\ tail' = tail + 1 /\ seq[Index(tail)] = tail + Cap
  BY PoppedType DEF WorkerInv
<1>1. TypeOK'
  BY <1>0 DEF TypeOK
<1>2. WindowInv'
  BY <1>0, ConstantsAssumption DEF WindowInv
<1>3. ClaimInv'
  BY <1>0, ConstantsAssumption DEF ClaimInv, TypeOK
<1>4. FreeInv'
  <2> SUFFICES ASSUME NEW pos \in head' .. tail' + Cap - 1
               PROVE  seq[Index(pos)] = pos
    BY DEF FreeInv, Index
  <2>1. CASE pos = tail + Cap
    BY <2>1, <1>0, IndexShift
  <2>2. CASE pos # tail + Cap
    <3>1. pos \in head .. tail + Cap - 1
      BY <2>2, <1>0, ConstantsAssumption
    <3> QED BY <3>1 DEF FreeInv
  <2> QED BY <2>1, <2>2
<1>5. HoldInv'
  <2>1. \A p \in Producers : Holding(p) => tail' <= Pos(p)
    BY <1>0 DEF HoldInv, TypeOK, Pos
  <2> QED BY <2>1 DEF HoldInv, Holding, Pos, Ev, Index
<1>6. PublishedInv'
  <2>1. \A pos \in tail' .. head' - 1 : pos \in tail .. head - 1 /\ pos # tail
    BY <1>0
  <2> QED BY <2>1 DEF PublishedInv, Holding, Pos, Index
<1>7. WorkerInv'
  BY DEF WorkerInv
<1>8. InClaimOrder'
  BY DEF InClaimOrder, Popped
<1> QED BY <1>1, <1>2, <1>3, <1>4, <1>5, <1>6, <1>7, <1>8

\* Dispatching the batch and running a handler only move events along.
LEMMA DeliveryStep ==
  ASSUME IInv, Dispatch \/ Execute
  PROVE  IInv' /\ (handled' \o dispatched') \o batch' = (handled \o dispatched) \o batch
<1> USE DEF Dispatch, Execute, BatchEnds, IInv, ring, producers, worker
<1>0. batch \in Seq(Event) /\ dispatched \in Seq(Event) /\ handled \in Seq(Event)
  BY DEF TypeOK
<1>1. /\ batch' \in Seq(Event) /\ dispatched' \in Seq(Event) /\ handled' \in Seq(Event)
      /\ (handled' \o dispatched') \o batch' = (handled \o dispatched) \o batch
  <2>1. CASE Dispatch
    <3>1. dispatched \o batch \in Seq(Event) /\ handled \o (dispatched \o batch) \in Seq(Event)
      BY <1>0, ConcatProperties
    <3>2. (handled \o (dispatched \o batch)) \o <<>> = handled \o (dispatched \o batch)
      BY <3>1, ConcatEmptySeq
    <3>3. handled \o (dispatched \o batch) = (handled \o dispatched) \o batch
      BY <1>0, ConcatAssociative
    <3> QED BY <2>1, <3>1, <3>2, <3>3, <1>0, EmptySeq
  <2>2. CASE Execute
    <3>1. /\ Head(dispatched) \in Event /\ Tail(dispatched) \in Seq(Event)
          /\ dispatched # <<>>
      BY <2>2, <1>0, HeadTailProperties
    <3>2. dispatched = <<Head(dispatched)>> \o Tail(dispatched)
      BY <3>1, <1>0
    <3>3. handled' = handled \o <<Head(dispatched)>> /\ handled' \in Seq(Event)
      BY <2>2, <3>1, <1>0, AppendIsConcat, AppendProperties
    <3>4. <<Head(dispatched)>> \in Seq(Event)
      BY <3>1
    <3>5. handled' \o Tail(dispatched) = handled \o dispatched
      BY <3>1, <3>2, <3>3, <3>4, <1>0, ConcatAssociative
    <3> QED BY <2>2, <3>1, <3>3, <3>5, <1>0
  <2> QED BY <2>1, <2>2
<1>2. TypeOK'
  BY <1>1 DEF TypeOK, main
<1>3. WindowInv' /\ ClaimInv' /\ FreeInv'
  BY DEF WindowInv, ClaimInv, FreeInv, Index
<1>4. HoldInv'
  BY DEF HoldInv, Holding, Pos, Ev, Index
<1>5. PublishedInv'
  BY DEF PublishedInv, Holding, Pos, Index
<1>6. WorkerInv'
  BY DEF WorkerInv, Index
<1>7. InClaimOrder'
  BY <1>1 DEF InClaimOrder, Popped
<1> QED BY <1>1, <1>2, <1>3, <1>4, <1>5, <1>6, <1>7
-----------------------------------------------------------------------------
(* The invariance theorems *)

LEMMA LifeStep ==
  ASSUME IInv, Begin \/ Stop \/ JoinAndUnmap \/ (\E p \in Producers : Fault(p))
               \/ UNCHANGED vars
  PROVE  IInv'
<1> USE DEF Begin, Stop, JoinAndUnmap, Fault, vars, ring, producers, worker, main, IInv
<1>1. TypeOK'
  BY DEF TypeOK
<1>2. WindowInv' /\ ClaimInv' /\ FreeInv'
  BY DEF WindowInv, ClaimInv, FreeInv, Index
<1>3. HoldInv'
  BY DEF HoldInv, Holding, Pos, Ev, Index
<1>4. PublishedInv'
  BY DEF PublishedInv, Holding, Pos, Index, WorkerInv
<1>5. WorkerInv'
  BY DEF WorkerInv, Index
<1>6. InClaimOrder'
  BY DEF InClaimOrder, Popped, WorkerInv
<1> QED BY <1>1, <1>2, <1>3, <1>4, <1>5, <1>6

LEMMA NextIInv == IInv /\ [Next]_vars => IInv'
<1> SUFFICES ASSUME IInv, [Next]_vars PROVE IInv'
  OBVIOUS
<1>1. CASE Begin \/ Stop \/ JoinAndUnmap \/ UNCHANGED vars
  BY <1>1, LifeStep
<1>2. ASSUME NEW p \in Producers, Call(p) \/ Post(p)
      PROVE  IInv'
  BY <1>2, CallStep, LoadStep, ClaimStep, AwaitStep, WriteStep, PublishStep, LifeStep
     DEF Post
<1>3. CASE Work
  BY <1>3, PollStep, CopyStep, RecycleStep, AdvanceStep, DeliveryStep DEF Work
<1>4. CASE Execute
  BY <1>4, DeliveryStep
<1> QED BY <1>1, <1>2, <1>3, <1>4 DEF Next

\* IInv holds in every reachable state of the ring.
THEOREM InductiveInvariant == Spec => []IInv
BY InitIInv, NextIInv, PTL DEF Spec

\* Type correctness of event_loop.c's shared and local state.
THEOREM TypeCorrect == Spec => []TypeOK
<1>1. IInv => TypeOK
  BY DEF IInv
<1> QED BY <1>1, InductiveInvariant, PTL

\* No slot is written by two threads at once or while it is being copied out,
\* whatever the number of producers and the capacity (event_loop.c:24-25).
THEOREM SlotRaceFreedom == Spec => []NoSlotRace
<1>1. ASSUME IInv PROVE NoSlotRace
  <2> SUFFICES ASSUME NEW p \in Producers, pc[p] = "write"
               PROVE  /\ \A q \in Producers \ {p} :
                            pc[q] = "write" => Index(Pos(q)) # Index(Pos(p))
                      /\ wpc = "copy" => Index(tail) # Index(Pos(p))
    BY DEF NoSlotRace
  <2>1. Holding(p) /\ tail \in Nat /\ head \in Nat /\ head <= tail + Cap
    BY <1>1, PoppedType DEF Holding
  <2>2. ASSUME NEW q \in Producers \ {p}, pc[q] = "write"
        PROVE  Index(Pos(q)) # Index(Pos(p))
    <3>1. Pos(q) # Pos(p) /\ tail <= Pos(q) /\ Pos(q) < head /\ Pos(q) \in Nat
      BY <1>1, <2>1, <2>2 DEF IInv, HoldInv, Holding, TypeOK, Pos
    <3>2. Pos(q) \in tail .. tail + Cap - 1
      BY <3>1, <2>1, ConstantsAssumption
    <3> QED BY <1>1, <2>1, <3>1, <3>2, HeldSlot
  <2>3. ASSUME wpc = "copy" PROVE Index(tail) # Index(Pos(p))
    <3>1. Pos(p) # tail /\ tail \in tail .. tail + Cap - 1
      BY <1>1, <2>1, <2>3, ConstantsAssumption DEF IInv, HoldInv
    <3> QED BY <1>1, <2>1, <3>1, HeldSlot
  <2> QED BY <2>2, <2>3
<1> QED BY <1>1, InductiveInvariant, PTL

\* The events that have left the ring are the first claimed ones, in order,
\* each exactly once.
THEOREM ClaimOrder == Spec => []InClaimOrder
<1>1. IInv => InClaimOrder
  BY DEF IInv
<1> QED BY <1>1, InductiveInvariant, PTL

-----------------------------------------------------------------------------
(* The ring implements EventFifo *)

LEMMA SubSeqOfAppend ==
  ASSUME NEW S, NEW s \in Seq(S), NEW e \in S, NEW k \in 0 .. Len(s)
  PROVE  SubSeq(Append(s, e), k + 1, Len(s) + 1) = Append(SubSeq(s, k + 1, Len(s)), e)
<1>1. /\ Append(s, e) \in Seq(S) /\ Len(Append(s, e)) = Len(s) + 1
      /\ \A i \in 1 .. Len(s) : Append(s, e)[i] = s[i]
      /\ Append(s, e)[Len(s) + 1] = e
      /\ Len(s) \in Nat /\ k \in Nat /\ k <= Len(s)
  BY AppendProperties, LenProperties
<1> DEFINE l == SubSeq(Append(s, e), k + 1, Len(s) + 1)
           t == SubSeq(s, k + 1, Len(s))
<1>2. /\ l \in Seq(S) /\ Len(l) = (Len(s) - k) + 1
      /\ \A i \in 1 .. (Len(s) - k) + 1 : l[i] = Append(s, e)[k + i]
  <2>1. \A i \in k + 1 .. Len(s) + 1 : Append(s, e)[i] \in S
    BY <1>1, ElementOfSeq
  <2>2. k + 1 \in Int /\ Len(s) + 1 \in Int
    BY <1>1
  <2> HIDE DEF l
  <2>3. /\ l \in Seq(S)
        /\ Len(l) = IF k + 1 <= Len(s) + 1 THEN (Len(s) + 1) - (k + 1) + 1 ELSE 0
        /\ \A i \in 1 .. (Len(s) + 1) - (k + 1) + 1 : l[i] = Append(s, e)[(k + 1) + i - 1]
    BY <2>1, <2>2, SubSeqProperties DEF l
  <2>4. \A i \in 1 .. (Len(s) - k) + 1 :
          i \in 1 .. (Len(s) + 1) - (k + 1) + 1 /\ (k + 1) + i - 1 = k + i
    BY <1>1
  <2>5. Len(l) = (Len(s) - k) + 1
    BY <2>3, <1>1
  <2> QED BY <2>3, <2>4, <2>5
<1>3. /\ t \in Seq(S) /\ Len(t) = Len(s) - k
      /\ \A i \in 1 .. Len(s) - k : t[i] = s[k + i]
  <2>1. \A i \in k + 1 .. Len(s) : s[i] \in S
    BY <1>1, ElementOfSeq
  <2>2. k + 1 \in Int /\ Len(s) \in Int
    BY <1>1
  <2> HIDE DEF t
  <2>3. /\ t \in Seq(S)
        /\ Len(t) = IF k + 1 <= Len(s) THEN Len(s) - (k + 1) + 1 ELSE 0
        /\ \A i \in 1 .. Len(s) - (k + 1) + 1 : t[i] = s[(k + 1) + i - 1]
    BY <2>1, <2>2, SubSeqProperties DEF t
  <2> QED BY <2>3, <1>1
<1> HIDE DEF l, t
<1>4. /\ Append(t, e) \in Seq(S) /\ Len(Append(t, e)) = (Len(s) - k) + 1
      /\ \A i \in 1 .. Len(s) - k : Append(t, e)[i] = t[i]
      /\ Append(t, e)[(Len(s) - k) + 1] = e
  BY <1>3, AppendProperties
<1>5. \A i \in 1 .. (Len(s) - k) + 1 : l[i] = Append(t, e)[i]
  <2> TAKE i \in 1 .. (Len(s) - k) + 1
  <2>1. CASE i = (Len(s) - k) + 1
    BY <2>1, <1>1, <1>2, <1>4
  <2>2. CASE i # (Len(s) - k) + 1
    <3>1. i \in 1 .. Len(s) - k /\ k + i \in 1 .. Len(s)
      BY <2>2, <1>1
    <3> QED BY <3>1, <1>1, <1>2, <1>3, <1>4
  <2> QED BY <2>1, <2>2
<1>6. l = Append(t, e)
  BY <1>2, <1>4, <1>5, SeqEqual
<1> QED BY <1>6 DEF l, t

\* The abstract state of the refinement mapping.
PendingBar == SubSeq(order, Popped + 1, Len(order))
DeliveredBar == (handled \o dispatched) \o batch
PostedBar == [p \in Producers |->
                IF pc[p] \in {"load", "full?", "cas"} THEN calls[p] - 1 ELSE calls[p]]

LEMMA ClaimEnqueues ==
  ASSUME IInv, NEW p \in Producers, ClaimWon(p)
  PROVE  Fifo!Enqueue(p)
<1> USE DEF ClaimWon
<1>1. /\ head < tail + Cap /\ Popped' = Popped /\ Popped \in 0 .. Len(order)
      /\ Popped >= tail /\ Len(order) = head /\ order \in Seq(Event)
      /\ head \in Nat /\ tail \in Nat
  BY PoppedType DEF IInv, ClaimInv, Popped, worker
<1>2. Ev(p) \in Event
  BY EvType DEF IInv
<1>3. Len(PendingBar) < Cap
  <2>1. \A i \in Popped + 1 .. Len(order) : order[i] \in Event
    BY <1>1, ElementOfSeq
  <2>2. Popped + 1 \in Int /\ Len(order) \in Int
    BY <1>1
  <2>3. Len(PendingBar) =
          IF Popped + 1 <= Len(order) THEN Len(order) - (Popped + 1) + 1 ELSE 0
    BY <2>1, <2>2, SubSeqProperties DEF PendingBar
  <2> QED BY <2>3, <1>1, ConstantsAssumption
<1>4. PendingBar' = Append(PendingBar, Ev(p))
  <2>1. Len(order') = Len(order) + 1
    BY <1>1, <1>2, AppendProperties
  <2> QED BY <2>1, <1>1, <1>2, SubSeqOfAppend DEF PendingBar
<1>5. /\ PostedBar[p] = calls[p] - 1 /\ PostedBar[p] < MaxPosts
      /\ PostedBar' = [PostedBar EXCEPT ![p] = @ + 1]
      /\ Ev(p) = <<p, PostedBar[p] + 1>>
  <2>1. /\ pc[p] = "cas" /\ pc' = [pc EXCEPT ![p] = "await"] /\ calls' = calls
        /\ calls[p] \in 0 .. MaxPosts /\ DOMAIN pc = Producers
    BY DEF IInv, TypeOK
  <2>2. PostedBar[p] = calls[p] - 1
    BY <2>1 DEF PostedBar
  <2>3. PostedBar[p] < MaxPosts /\ PostedBar[p] + 1 = calls[p]
    <3>1. calls[p] - 1 < MaxPosts /\ (calls[p] - 1) + 1 = calls[p]
      BY <2>1, ConstantsAssumption
    <3> QED BY <2>2, <3>1
  <2>4. ASSUME NEW q \in Producers
        PROVE  PostedBar'[q] = IF q = p THEN PostedBar[p] + 1 ELSE PostedBar[q]
    <3>1. CASE q = p
      BY <3>1, <2>1, <2>3 DEF PostedBar
    <3>2. CASE q # p
      BY <3>2, <2>1 DEF PostedBar
    <3> QED BY <3>1, <3>2
  <2>5. PostedBar' = [PostedBar EXCEPT ![p] = @ + 1]
    BY <2>4 DEF PostedBar
  <2> QED BY <2>2, <2>3, <2>5 DEF Ev
<1>6. DeliveredBar' = DeliveredBar
  BY DEF DeliveredBar, worker, main
<1> QED BY <1>3, <1>4, <1>5, <1>6
        DEF Fifo!Enqueue, PendingBar, PostedBar, DeliveredBar

LEMMA CopyDequeues ==
  ASSUME IInv, Copy
  PROVE  Fifo!Dequeue
<1> USE DEF Copy
<1>1. /\ Popped = tail /\ Popped' = tail + 1 /\ tail \in Nat /\ tail < head
      /\ head = Len(order) /\ head \in Nat /\ order \in Seq(Event)
      /\ slot[Index(tail)] = order[tail + 1]
  BY PoppedType DEF IInv, WorkerInv, Popped, ring
<1>2. order[tail + 1] \in Event
  BY <1>1, ElementOfSeq
<1>3. /\ Head(PendingBar) = order[tail + 1]
      /\ Tail(PendingBar) = SubSeq(order, (tail + 1) + 1, Len(order))
      /\ PendingBar # <<>>
  <2>1. tail + 1 \in 1 .. Len(order) /\ Len(order) \in tail + 1 .. Len(order)
    BY <1>1
  <2>2. /\ Head(PendingBar) = order[tail + 1]
        /\ Tail(PendingBar) = SubSeq(order, (tail + 1) + 1, Len(order))
    BY <2>1, <1>1, HeadTailOfSubSeq DEF PendingBar
  <2>3. \A i \in tail + 1 .. Len(order) : order[i] \in Event
    BY <1>1, ElementOfSeq
  <2>4. Len(PendingBar) = Len(order) - (tail + 1) + 1
    BY <2>1, <2>3, <1>1, SubSeqProperties DEF PendingBar
  <2>5. PendingBar # <<>>
    BY <2>4, <1>1
  <2> QED BY <2>2, <2>5
<1>4. PendingBar' = Tail(PendingBar)
  BY <1>1, <1>3 DEF PendingBar
<1>5. DeliveredBar' = Append(DeliveredBar, order[tail + 1])
  <2>1. batch \in Seq(Event) /\ <<order[tail + 1]>> \in Seq(Event)
        /\ handled \o dispatched \in Seq(Event)
    BY <1>2, ConcatProperties DEF IInv, TypeOK
  <2>2. DeliveredBar \in Seq(Event)
    BY <2>1, ConcatProperties DEF DeliveredBar
  <2>3. batch' = batch \o <<order[tail + 1]>>
    BY <1>1, <1>2, <2>1, AppendIsConcat
  <2>4. DeliveredBar' = DeliveredBar \o <<order[tail + 1]>>
    BY <2>1, <2>3, ConcatAssociative DEF DeliveredBar, main
  <2> QED BY <2>2, <2>4, <1>2, AppendIsConcat
<1>6. PostedBar' = PostedBar
  BY DEF PostedBar, producers
<1> QED BY <1>3, <1>4, <1>5, <1>6
        DEF Fifo!Dequeue, PendingBar, PostedBar, DeliveredBar

\* The ring of event_loop.c implements the bounded FIFO queue: a claim is an
\* enqueue, the worker's copy is a dequeue, every other step changes nothing
\* its callers can see.
THEOREM RingImplementsFifo == Spec => FifoSpec
<1>1. Init => Fifo!Init
  <2> SUFFICES ASSUME Init PROVE Fifo!Init
    OBVIOUS
  <2> QED BY DEF Init, Fifo!Init, Popped
<1>2. IInv /\ [Next]_vars => [Fifo!Next]_(Fifo!fifo)
  <2> SUFFICES ASSUME IInv, [Next]_vars PROVE [Fifo!Next]_(Fifo!fifo)
    OBVIOUS
  <2> USE DEF ring, producers, worker, main
  <2>1. ASSUME NEW p \in Producers, ClaimWon(p) PROVE Fifo!Next
    BY <2>1, ClaimEnqueues DEF Fifo!Next
  <2>2. CASE Copy
    BY <2>2, CopyDequeues DEF Fifo!Next
  <2>3. ASSUME \/ Begin \/ Stop \/ JoinAndUnmap \/ UNCHANGED vars
               \/ TestRunning \/ Poll \/ Recycle \/ Advance \/ Yield
        PROVE  PendingBar' = PendingBar /\ PostedBar' = PostedBar /\ DeliveredBar' = DeliveredBar
    <3>1. Popped' = Popped
      BY <2>3, PoppedType DEF Begin, Stop, JoinAndUnmap, vars, TestRunning, Poll, Recycle,
                              Advance, Yield, BatchEnds, Popped, IInv, WorkerInv
    <3> QED BY <2>3, <3>1 DEF Begin, Stop, JoinAndUnmap, vars, TestRunning, Poll, Recycle,
                              Advance, Yield, BatchEnds, PendingBar, PostedBar, DeliveredBar
  <2>4. ASSUME NEW p \in Producers,
               Call(p) \/ LoadHead(p) \/ LoadTail(p) \/ ClaimLost(p) \/ AwaitSlot(p)
               \/ Write(p) \/ Publish(p) \/ Fault(p)
        PROVE  PendingBar' = PendingBar /\ PostedBar' = PostedBar /\ DeliveredBar' = DeliveredBar
    <3>1. PendingBar' = PendingBar /\ DeliveredBar' = DeliveredBar
      BY <2>4 DEF Call, LoadHead, LoadTail, ClaimLost, AwaitSlot, Write, Publish, Fault,
                  PendingBar, DeliveredBar, Popped
    <3>2. PostedBar' = PostedBar
      BY <2>4 DEF Call, LoadHead, LoadTail, ClaimLost, AwaitSlot, Write, Publish, Fault,
                  PostedBar, IInv, TypeOK
    <3> QED BY <3>1, <3>2
  <2>5. ASSUME Dispatch \/ Execute
        PROVE  PendingBar' = PendingBar /\ PostedBar' = PostedBar /\ DeliveredBar' = DeliveredBar
    <3>1. DeliveredBar' = DeliveredBar
      BY <2>5, DeliveryStep DEF DeliveredBar
    <3>2. PendingBar' = PendingBar /\ PostedBar' = PostedBar
      BY <2>5 DEF Dispatch, Execute, BatchEnds, PendingBar, PostedBar, Popped
    <3> QED BY <3>1, <3>2
  <2>6. PendingBar' = PendingBar /\ PostedBar' = PostedBar /\ DeliveredBar' = DeliveredBar
          => UNCHANGED Fifo!fifo
    BY DEF PendingBar, PostedBar, DeliveredBar, Fifo!fifo
  <2> QED BY <2>1, <2>2, <2>3, <2>4, <2>5, <2>6 DEF Next, Post, Work
<1> QED BY <1>1, <1>2, InductiveInvariant, PTL DEF Spec, FifoSpec, Fifo!Spec
=============================================================================
