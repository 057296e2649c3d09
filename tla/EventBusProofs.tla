---------------------------- MODULE EventBusProofs ----------------------------
(***************************************************************************)
(* The safety properties of the queue and of the event bus, for every      *)
(* number of threads, subscriptions and restarts and every capacity.       *)
(*                                                                         *)
(* The bus: the queue is what order has beyond the tickets taken so far,   *)
(* and the dispatch thread works on the last one taken.  Reached(i) is the *)
(* place in order up to which subscription i has been served: one less     *)
(* than the taken tickets while deliver() still has to call it, all of     *)
(* them otherwise.  log[i] lies below it in order, and a due event below   *)
(* it is in log[i]: from this order and completeness follow.               *)
(*                                                                         *)
(* The queue: a cell's sequence number tells of every cell that it is free *)
(* for one position or holds the item of one, and the threads that are     *)
(* between claim and publication or release are the only exceptions.  This *)
(* is what makes a claim by compare-and-swap a claim of the cell, and from *)
(* it follows, step by step, that the queue the bus is built on is the     *)
(* FIFO of TicketFifo.                                                     *)
(***************************************************************************)
EXTENDS EventBus, MpmcQueue, FiniteSetTheorems, TLAPS

-----------------------------------------------------------------------------
(* The inductive invariant.                                                *)

\* Types of the variables the invariant reads.
Typed ==
    /\ q \in Seq(Ticket)
    /\ hand \in [Consumers -> Items \cup {Nothing}]
    /\ ppc \in [Producers -> {"idle", "enqueue", "signal"}]
    /\ dpc \in {"off", "test", "wait", "drain", "dequeue", "snapshot", "call",
                "exited"}
    /\ spc \in {"idle", "request", "release", "join"}
    /\ running \in BOOLEAN /\ stopReq \in BOOLEAN /\ final \in BOOLEAN
    /\ calm \in BOOLEAN
    /\ fresh \in Seq(Items)
    /\ order \in Seq(Items)
    /\ subs \in Seq([id : SubIds, filter : Filters])
    /\ snap \in Seq([id : SubIds, filter : Filters])
    /\ nextId \in 1 .. MaxSubs + 1
    /\ log \in [SubIds -> Seq(Items)]
    /\ due \in [SubIds -> SUBSET Items]
    /\ cutoff \in [SubIds -> SUBSET Nat]

\* The tickets taken so far.
Taken == Len(order) - Len(q)

\* The dispatch thread has taken an event it has not finished delivering.
Busy == dpc \in {"dequeue", "snapshot", "call"}

\* No event is published twice.
Once ==
    /\ \A j, k \in DOMAIN fresh : fresh[j] = fresh[k] => j = k
    /\ \A j, k \in DOMAIN order : order[j] = order[k] => j = k
    /\ \A j \in DOMAIN fresh, k \in DOMAIN order : fresh[j] # order[k]

QueueIsTail ==
    /\ Len(q) <= Len(order)
    /\ \A k \in DOMAIN q : q[k].item = order[Taken + k]
    /\ Busy => Taken >= 1 /\ hand[Dispatcher] = order[Taken]

OrderInv == Once /\ QueueIsTail

InSnap(i) == \E k \in DOMAIN snap : snap[k].id = i
Subscribed(i) == \E k \in DOMAIN subs : subs[k].id = i

\* The subscriptions and their snapshot: ids are used once, ...
IdsOnce ==
    /\ \A j, k \in DOMAIN subs : subs[j].id = subs[k].id => j = k
    /\ \A j, k \in DOMAIN snap : snap[j].id = snap[k].id => j = k
    /\ \A k \in DOMAIN subs : subs[k].id < nextId
    /\ \A k \in DOMAIN snap : snap[k].id < nextId
    /\ \A j \in DOMAIN snap, k \in DOMAIN subs :
          snap[j].id = subs[k].id => snap[j].filter = subs[k].filter

\* ... those handed out and not removed are subscribed, ...
IdsLive ==
    /\ \A k \in DOMAIN subs : cutoff[subs[k].id] = {}
    /\ \A i \in SubIds : i < nextId /\ cutoff[i] = {} => Subscribed(i)
    /\ \A i \in SubIds : i >= nextId => due[i] = {} /\ cutoff[i] = {}

\* ... and a filter that serves an id accepts the events due to it.
DueAccepted ==
    /\ \A k \in DOMAIN subs : \A e \in due[subs[k].id] :
          Accepts(subs[k].filter, e)
    /\ \A k \in DOMAIN snap : \A e \in due[snap[k].id] :
          Accepts(snap[k].filter, e)

SubsInv == IdsOnce /\ IdsLive /\ DueAccepted

Reached(i) ==
    IF dpc \in {"dequeue", "snapshot"} \/ (dpc = "call" /\ InSnap(i))
    THEN Taken - 1 ELSE Taken

\* The calls of a handler follow the order of claims, up to the place reached.
LogFollows ==
    \A i \in SubIds :
        /\ \A j \in DOMAIN log[i] : \E p \in 1 .. Reached(i) :
              log[i][j] = order[p]
        /\ \A j, k \in DOMAIN log[i], p, r \in DOMAIN order :
              j < k /\ log[i][j] = order[p] /\ log[i][k] = order[r] => p < r

\* Up to that place nothing due is missing.
LogComplete ==
    \A i \in SubIds :
        /\ \A e \in due[i] : \E p \in DOMAIN order : e = order[p]
        /\ cutoff[i] = {} =>
              \A p \in 1 .. Reached(i) : order[p] \in due[i] =>
                  \E j \in DOMAIN log[i] : log[i][j] = order[p]

\* A removed subscription is called again only while a snapshot has it.
LateInv ==
    \A i \in SubIds : \A n \in cutoff[i] :
        /\ Len(log[i]) <= n + 1
        /\ dpc = "call" /\ InSnap(i) => Len(log[i]) <= n

\* A ticket is pending while its publisher is between claim and publication.
PendingInv ==
    /\ \A k \in DOMAIN q : q[k].by = Ready \/ ppc[q[k].by] = "enqueue"
    /\ \A j, k \in DOMAIN q : q[j].by = q[k].by /\ q[j].by # Ready => j = k
    /\ calm => \A p \in Producers : ppc[p] = "idle"

\* start and stop against the dispatch thread.
StopInv ==
    /\ running => spc = "idle" /\ ~stopReq /\ dpc \notin {"off", "exited"}
    /\ ~running /\ spc = "idle" => dpc = "off"
    /\ final => stopReq
    /\ calm /\ dpc \in {"off", "exited"} => q = <<>>

IInv == /\ Typed /\ OrderInv /\ SubsInv /\ LogFollows /\ LogComplete /\ LateInv
        /\ PendingInv /\ StopInv

-----------------------------------------------------------------------------
(* Facts about sequences and the dispatch thread.                          *)

LEMMA DispatcherExists == Dispatcher \in Consumers
<1>1. Cardinality(Consumers) = 1 /\ Cardinality({}) = 0
  BY BusAssumption, FS_EmptySet
<1> QED
  BY <1>1 DEF Dispatcher

LEMMA AppendFacts ==
    ASSUME NEW S, NEW s \in Seq(S), NEW e \in S
    PROVE  /\ Append(s, e) \in Seq(S)
           /\ Len(Append(s, e)) = Len(s) + 1
           /\ DOMAIN Append(s, e) = 1 .. Len(s) + 1
           /\ \A j \in 1 .. Len(s) : Append(s, e)[j] = s[j]
           /\ Append(s, e)[Len(s) + 1] = e
  OBVIOUS

LEMMA TailFacts ==
    ASSUME NEW S, NEW s \in Seq(S), s # <<>>
    PROVE  /\ Tail(s) \in Seq(S)
           /\ Len(s) \in Nat /\ Len(s) >= 1
           /\ Len(Tail(s)) = Len(s) - 1
           /\ Head(s) = s[1] /\ Head(s) \in S
           /\ \A j \in 1 .. Len(s) - 1 : Tail(s)[j] = s[j + 1]
  OBVIOUS

LEMMA WithoutFacts ==
    ASSUME NEW S, NEW s \in Seq(S), NEW k \in DOMAIN s
    PROVE  /\ Without(s, k) \in Seq(S)
           /\ DOMAIN Without(s, k) = 1 .. Len(s) - 1
           /\ \A j \in 1 .. Len(s) - 1 :
                 Without(s, k)[j] = s[IF j < k THEN j ELSE j + 1]
           /\ \A l \in DOMAIN s : l # k =>
                 \E j \in 1 .. Len(s) - 1 : Without(s, k)[j] = s[l]
<1> DEFINE n == Len(s) - 1
           w == [j \in 1 .. n |-> IF j < k THEN s[j] ELSE s[j + 1]]
<1>1. n \in Nat /\ k \in 1 .. n + 1 /\ DOMAIN s = 1 .. n + 1
  OBVIOUS
<1>2. \A j \in 1 .. n + 1 : s[j] \in S
  BY <1>1
<1>3. w \in [1 .. n -> S]
  BY <1>1, <1>2
<1>4. w \in Seq(S)
  BY <1>1, <1>3
<1>5. \A j \in 1 .. n : w[j] = s[IF j < k THEN j ELSE j + 1]
  BY <1>1
<1>6. ASSUME NEW l \in DOMAIN s, l # k
      PROVE  \E j \in 1 .. n : w[j] = s[l]
  <2>1. CASE l < k
    BY <1>1, <1>5, <1>6, <2>1
  <2>2. CASE l > k
    <3>1. l - 1 \in 1 .. n /\ ~(l - 1 < k) /\ (l - 1) + 1 = l
      BY <1>1, <1>6, <2>2
    <3> QED
      BY <1>5, <3>1
  <2> QED
    BY <1>1, <1>6, <2>1, <2>2
<1> QED
  BY <1>1, <1>4, <1>5, <1>6 DEF Without

-----------------------------------------------------------------------------
(* Types.                                                                  *)

LEMMA InitTyped == Init => Typed
<1> SUFFICES ASSUME Init PROVE Typed
  OBVIOUS
<1>1. q \in Seq(Ticket) /\ hand \in [Consumers -> Items \cup {Nothing}]
  BY DEF Init, FifoInit
<1>2. subs \in Seq([id : SubIds, filter : Filters])
      /\ snap \in Seq([id : SubIds, filter : Filters])
  BY DEF Init
<1>3. nextId \in 1 .. MaxSubs + 1 /\ fresh \in Seq(Items) /\ order \in Seq(Items)
  BY BusAssumption DEF Init
<1>4. log \in [SubIds -> Seq(Items)]
  BY DEF Init
<1> QED
  BY <1>1, <1>2, <1>3, <1>4 DEF Init, Typed

LEMMA NextTyped ==
    ASSUME Typed, OrderInv, [Next]_vars
    PROVE  Typed'
<1> USE DEF Typed
<1>1. ASSUME NEW p \in Producers, PublishDrops(p)
      PROVE  Typed'
  BY <1>1, TailFacts DEF PublishDrops, fifoVars, stopVars, dispatchVars, subVars, ghostVars
<1>2. ASSUME NEW p \in Producers, PublishClaims(p)
      PROVE  Typed'
  <2>1. Head(fresh) \in Items /\ fresh' \in Seq(Items)
    BY <1>2, TailFacts DEF PublishClaims
  <2>2. q' \in Seq(Ticket) /\ UNCHANGED hand
    BY <1>2, <2>1 DEF PublishClaims, Claim, Ticket
  <2>3. order' \in Seq(Items)
    BY <1>2, <2>1 DEF PublishClaims
  <2>4. due' \in [SubIds -> SUBSET Items]
    BY <1>2, <2>1 DEF PublishClaims
  <2> QED
    BY <1>2, <2>1, <2>2, <2>3, <2>4 DEF PublishClaims, stopVars, dispatchVars, subVars
<1>3. ASSUME NEW p \in Producers, PublishEnqueues(p)
      PROVE  Typed'
  <2>1. q' \in Seq(Ticket) /\ UNCHANGED hand
    <3>1. PICK i \in DOMAIN q : q' = [q EXCEPT ![i].by = Ready]
      BY <1>3 DEF PublishEnqueues, Finish, Pending
    <3>2. q[i] \in Ticket
      OBVIOUS
    <3>3. [q[i] EXCEPT !.by = Ready] \in Ticket
      BY <3>2 DEF Ticket
    <3> HIDE DEF Ticket, Typed
    <3>4. q \in Seq(Ticket)
      BY DEF Typed
    <3>5. q' \in Seq(Ticket)
      BY <3>1, <3>3, <3>4
    <3> QED
      BY <1>3, <3>5 DEF PublishEnqueues, Finish
  <2> QED
    BY <1>3, <2>1 DEF PublishEnqueues, stopVars, dispatchVars, subVars, ghostVars
<1>4. ASSUME NEW p \in Producers, PublishSignals(p)
      PROVE  Typed'
  BY <1>4 DEF PublishSignals, fifoVars, stopVars, dispatchVars, subVars, ghostVars
<1>5. ASSUME NEW f \in Filters, Subscribe(f)
      PROVE  Typed'
  <2>1. nextId \in SubIds
    BY <1>5, BusAssumption DEF Subscribe, SubIds
  <2>2. subs' \in Seq([id : SubIds, filter : Filters])
    BY <1>5, <2>1 DEF Subscribe
  <2>3. nextId' \in 1 .. MaxSubs + 1
    BY <1>5, <2>1, BusAssumption DEF Subscribe, SubIds
  <2> QED
    BY <1>5, <2>2, <2>3 DEF Subscribe, fifoVars, stopVars, dispatchVars, publishVars, ghostVars
<1>6. ASSUME NEW i \in SubIds, Unsubscribe(i)
      PROVE  Typed'
  <2>1. subs' \in Seq([id : SubIds, filter : Filters])
    BY <1>6, WithoutFacts DEF Unsubscribe
  <2>2. cutoff' \in [SubIds -> SUBSET Nat]
    BY <1>6 DEF Unsubscribe
  <2> QED
    BY <1>6, <2>1, <2>2 DEF Unsubscribe, fifoVars, stopVars, dispatchVars, publishVars
<1>7. CASE DispatchTests
  BY <1>7 DEF DispatchTests, fifoVars, stopVars, subVars, publishVars, ghostVars
<1>8. CASE DispatchWakes \/ DispatchTimesOut \/ DispatchFindsEmpty
  BY <1>8 DEF DispatchWakes, DispatchTimesOut, DispatchFindsEmpty, fifoVars, stopVars,
              subVars, publishVars, ghostVars
<1>9. CASE DispatchTakes
  <2>1. q' \in Seq(Ticket) /\ Head(q) \in Ticket
    BY <1>9, TailFacts DEF DispatchTakes, Take, CanTake
  <2>2. hand' \in [Consumers -> Items \cup {Nothing}]
    BY <1>9, <2>1 DEF DispatchTakes, Take, Ticket
  <2> QED
    BY <1>9, <2>1, <2>2 DEF DispatchTakes, stopVars, subVars, publishVars, ghostVars
<1>10. CASE DispatchReleases
  BY <1>10 DEF DispatchReleases, Release, stopVars, subVars, publishVars, ghostVars
<1>11. CASE DeliverSnapshots
  BY <1>11 DEF DeliverSnapshots, fifoVars, stopVars, subVars, publishVars, ghostVars
<1>12. CASE DeliverCalls
  <2>1. snap' \in Seq([id : SubIds, filter : Filters])
        /\ Head(snap) \in [id : SubIds, filter : Filters]
    BY <1>12, TailFacts DEF DeliverCalls
  <2>2. log' \in [SubIds -> Seq(Items)]
    <3>1. hand[Dispatcher] \in Items
      BY <1>12, DispatcherExists DEF DeliverCalls, OrderInv, QueueIsTail, Busy, Taken
    <3> QED
      BY <1>12, <2>1, <3>1 DEF DeliverCalls
  <2> QED
    BY <1>12, <2>1, <2>2 DEF DeliverCalls, fifoVars, stopVars, subVars, publishVars
<1>13. CASE DeliverEnds
  BY <1>13 DEF DeliverEnds, fifoVars, stopVars, subVars, publishVars, ghostVars
<1>14. CASE Start \/ StopBegins \/ StopRequests \/ StopReleases \/ StopJoins
  BY <1>14 DEF Start, StopBegins, StopRequests, StopReleases, StopJoins, fifoVars,
               dispatchVars, subVars, publishVars, ghostVars
<1>15. CASE UNCHANGED vars
  BY <1>15 DEF vars, fifoVars, stopVars, dispatchVars, subVars, publishVars, ghostVars
<1> QED
  BY <1>1, <1>2, <1>3, <1>4, <1>5, <1>6, <1>7, <1>8, <1>9, <1>10, <1>11, <1>12, <1>13,
     <1>14, <1>15 DEF Next, PublishStep, DispatchStep, StopStep

-----------------------------------------------------------------------------
(* Every event is published once, and the queue is the end of order.       *)

LEMMA InitOrder == Init => OrderInv
<1> SUFFICES ASSUME Init PROVE OrderInv
  OBVIOUS
<1>1. Once
  BY BusAssumption DEF Init, Once
<1>2. QueueIsTail
  BY DEF Init, FifoInit, QueueIsTail, Busy, Taken
<1> QED
  BY <1>1, <1>2 DEF OrderInv

LEMMA OrderStable ==
    ASSUME OrderInv, UNCHANGED <<fresh, order, q, hand>>, Busy' => Busy
    PROVE  OrderInv'
  BY DEF OrderInv, Once, QueueIsTail, Taken

\* The next event leaves fresh.
LEMMA DropsOnce ==
    ASSUME Typed, Once, fresh # <<>>, fresh' = Tail(fresh), UNCHANGED order
    PROVE  Once'
<1>1. /\ DOMAIN fresh = 1 .. Len(fresh) /\ DOMAIN fresh' = 1 .. Len(fresh) - 1
      /\ Len(fresh) \in Nat
      /\ \A j \in 1 .. Len(fresh) - 1 : fresh'[j] = fresh[j + 1]
  BY TailFacts DEF Typed
<1>2. \A j, k \in DOMAIN fresh' : fresh'[j] = fresh'[k] => j = k
  BY <1>1 DEF Once
<1>3. \A j \in DOMAIN fresh', k \in DOMAIN order : fresh'[j] # order[k]
  BY <1>1 DEF Once
<1> QED
  BY <1>2, <1>3 DEF Once

\* The next event moves from fresh to order.
LEMMA ClaimsOnce ==
    ASSUME Typed, Once, fresh # <<>>, fresh' = Tail(fresh),
           order' = Append(order, Head(fresh))
    PROVE  Once' /\ \A k \in DOMAIN order : order[k] # Head(fresh)
<1>1. /\ DOMAIN fresh = 1 .. Len(fresh) /\ DOMAIN fresh' = 1 .. Len(fresh) - 1
      /\ Len(fresh) \in Nat /\ Len(fresh) >= 1
      /\ \A j \in 1 .. Len(fresh) - 1 : fresh'[j] = fresh[j + 1]
      /\ Head(fresh) = fresh[1] /\ Head(fresh) \in Items
  BY TailFacts DEF Typed
<1>2. /\ DOMAIN order = 1 .. Len(order) /\ Len(order) \in Nat
      /\ DOMAIN order' = 1 .. Len(order) + 1
      /\ \A k \in 1 .. Len(order) : order'[k] = order[k]
      /\ order'[Len(order) + 1] = fresh[1]
  BY <1>1, AppendFacts DEF Typed
<1>3. 1 \in DOMAIN fresh
  BY <1>1
<1>4. \A k \in DOMAIN order : order[k] # fresh[1]
  BY <1>3 DEF Once
<1>5. \A j, k \in DOMAIN fresh' : fresh'[j] = fresh'[k] => j = k
  BY <1>1 DEF Once
<1>6. \A j, k \in DOMAIN order' : order'[j] = order'[k] => j = k
  BY <1>2, <1>4 DEF Once
<1>7. ASSUME NEW j \in DOMAIN fresh', NEW k \in DOMAIN order'
      PROVE  fresh'[j] # order'[k]
  <2>1. j + 1 \in DOMAIN fresh /\ fresh'[j] = fresh[j + 1] /\ j + 1 # 1
    BY <1>1
  <2>2. CASE k = Len(order) + 1
    BY <1>2, <1>3, <2>1, <2>2 DEF Once
  <2>3. CASE k \in DOMAIN order
    BY <1>2, <2>1, <2>3 DEF Once
  <2> QED
    BY <1>2, <2>2, <2>3
<1> QED
  BY <1>1, <1>4, <1>5, <1>6, <1>7 DEF Once

LEMMA NextOrder ==
    ASSUME Typed, OrderInv, [Next]_vars
    PROVE  OrderInv'
<1>0. /\ q \in Seq(Ticket) /\ DOMAIN q = 1 .. Len(q) /\ Len(q) \in Nat
      /\ order \in Seq(Items) /\ DOMAIN order = 1 .. Len(order)
      /\ Len(order) \in Nat
      /\ Once /\ QueueIsTail
  BY DEF Typed, OrderInv
<1>1. ASSUME NEW p \in Producers, PublishDrops(p)
      PROVE  OrderInv'
  <2>1. Once'
    BY <1>0, <1>1, DropsOnce DEF PublishDrops, ghostVars
  <2>2. UNCHANGED <<q, order, hand, dpc>>
    BY <1>1 DEF PublishDrops, ghostVars, fifoVars, dispatchVars
  <2> QED
    BY <1>0, <2>1, <2>2 DEF OrderInv, QueueIsTail, Taken, Busy
<1>2. ASSUME NEW p \in Producers, PublishClaims(p)
      PROVE  OrderInv'
  <2>1. Once' /\ Head(fresh) \in Items
    BY <1>0, <1>2, ClaimsOnce, TailFacts DEF PublishClaims, Typed
  <2>2. /\ order' = Append(order, Head(fresh))
        /\ q' = Append(q, [item |-> Head(fresh), by |-> p])
        /\ UNCHANGED <<hand, dpc>>
    BY <1>2 DEF PublishClaims, Claim, dispatchVars
  <2>3. /\ Len(order') = Len(order) + 1
        /\ \A k \in 1 .. Len(order) : order'[k] = order[k]
        /\ order'[Len(order) + 1] = Head(fresh)
    BY <1>0, <2>1, <2>2, AppendFacts
  <2>4. /\ Len(q') = Len(q) + 1 /\ DOMAIN q' = 1 .. Len(q) + 1
        /\ \A k \in 1 .. Len(q) : q'[k] = q[k]
        /\ q'[Len(q) + 1].item = Head(fresh)
    BY <1>0, <2>2
  <2>5. Taken' = Taken /\ Taken \in Nat /\ Taken + Len(q) = Len(order)
    BY <1>0, <2>3, <2>4 DEF Taken, QueueIsTail
  <2>6. ASSUME NEW k \in DOMAIN q' PROVE q'[k].item = order'[Taken' + k]
    <3>1. CASE k \in DOMAIN q
      <4>1. Taken + k \in 1 .. Len(order)
        BY <1>0, <2>5, <3>1
      <4> QED
        BY <1>0, <2>3, <2>4, <2>5, <3>1, <4>1 DEF QueueIsTail
    <3>2. CASE k = Len(q) + 1
      BY <1>0, <2>3, <2>4, <2>5, <3>2
    <3> QED
      BY <1>0, <2>4, <3>1, <3>2
  <2>7. Busy' => Taken' >= 1 /\ hand'[Dispatcher] = order'[Taken']
    <3>1. Taken >= 1 => Taken \in 1 .. Len(order)
      BY <1>0, <2>5
    <3> QED
      BY <1>0, <2>2, <2>3, <2>5, <3>1 DEF QueueIsTail, Busy
  <2>8. Len(q') <= Len(order')
    BY <1>0, <2>3, <2>4 DEF QueueIsTail
  <2> QED
    BY <2>1, <2>6, <2>7, <2>8 DEF OrderInv, QueueIsTail
<1>3. ASSUME NEW p \in Producers, PublishEnqueues(p)
      PROVE  OrderInv'
  <2>1. UNCHANGED <<order, fresh, hand, dpc>>
    BY <1>3 DEF PublishEnqueues, Finish, ghostVars, dispatchVars
  <2>2. PICK i \in DOMAIN q : q' = [q EXCEPT ![i].by = Ready]
    BY <1>3 DEF PublishEnqueues, Finish, Pending
  <2>3. Len(q') = Len(q) /\ DOMAIN q' = DOMAIN q
    BY <1>0, <2>2
  <2>4. \A k \in DOMAIN q : q'[k].item = q[k].item
    <3>1. q[i] \in Ticket
      BY <1>0
    <3>2. [q[i] EXCEPT !.by = Ready].item = q[i].item
      BY <3>1 DEF Ticket
    <3> QED
      BY <1>0, <2>2, <3>2
  <2> QED
    BY <1>0, <2>1, <2>3, <2>4 DEF OrderInv, Once, QueueIsTail, Taken, Busy
<1>4. CASE DispatchTakes
  <2>1. /\ q # <<>> /\ q' = Tail(q) /\ hand' = [hand EXCEPT ![Dispatcher] = Head(q).item]
        /\ UNCHANGED <<order, fresh>>
    BY <1>4 DEF DispatchTakes, Take, CanTake, ghostVars, publishVars
  <2>2. /\ Len(q) >= 1 /\ Len(q') = Len(q) - 1 /\ DOMAIN q' = 1 .. Len(q) - 1
        /\ Head(q) = q[1] /\ \A k \in 1 .. Len(q) - 1 : q'[k] = q[k + 1]
    BY <1>0, <2>1, TailFacts
  <2>3. Taken' = Taken + 1 /\ Taken \in Nat
    BY <1>0, <2>1, <2>2 DEF Taken, QueueIsTail
  <2>4. hand'[Dispatcher] = q[1].item
    BY <2>1, <2>2, DispatcherExists DEF Typed
  <2>5. q[1].item = order[Taken + 1]
    BY <1>0, <2>2 DEF QueueIsTail
  <2>6. ASSUME NEW k \in DOMAIN q' PROVE q'[k].item = order'[Taken' + k]
    <3>1. k + 1 \in DOMAIN q /\ q'[k] = q[k + 1] /\ Taken' + k = Taken + (k + 1)
      BY <1>0, <2>2, <2>3
    <3> QED
      BY <1>0, <2>1, <3>1 DEF QueueIsTail
  <2>7. Len(q') <= Len(order') /\ Taken' >= 1
    BY <1>0, <2>1, <2>2, <2>3 DEF QueueIsTail
  <2>8. hand'[Dispatcher] = order'[Taken']
    BY <2>1, <2>3, <2>4, <2>5
  <2>9. Once'
    BY <1>0, <2>1 DEF Once
  <2> QED
    BY <2>6, <2>7, <2>8, <2>9 DEF OrderInv, QueueIsTail
<1>5. ASSUME NEW p \in Producers, PublishSignals(p)
      PROVE  OrderInv'
  BY <1>5, OrderStable DEF PublishSignals, fifoVars, ghostVars, dispatchVars, Busy
<1>6. ASSUME NEW f \in Filters, Subscribe(f)
      PROVE  OrderInv'
  BY <1>6, OrderStable DEF Subscribe, fifoVars, ghostVars, dispatchVars, publishVars, Busy
<1>7. ASSUME NEW i \in SubIds, Unsubscribe(i)
      PROVE  OrderInv'
  BY <1>7, OrderStable DEF Unsubscribe, fifoVars, dispatchVars, publishVars, Busy
<1>8. CASE DispatchTests \/ DispatchWakes \/ DispatchTimesOut \/ DispatchFindsEmpty
           \/ DispatchReleases \/ DeliverSnapshots \/ DeliverCalls \/ DeliverEnds
  <2>1. UNCHANGED <<fresh, order, q, hand>> /\ (Busy' => Busy)
    BY <1>8 DEF DispatchTests, DispatchWakes, DispatchTimesOut, DispatchFindsEmpty,
                DispatchReleases, Release, DeliverSnapshots, DeliverCalls, DeliverEnds,
                fifoVars, ghostVars, publishVars, Busy
  <2> QED
    BY <2>1, OrderStable
<1>9. CASE Start \/ StopBegins \/ StopRequests \/ StopReleases \/ StopJoins
           \/ UNCHANGED vars
  <2>1. UNCHANGED <<fresh, order, q, hand>> /\ (Busy' => Busy)
    BY <1>9 DEF Start, StopBegins, StopRequests, StopReleases, StopJoins, vars,
                fifoVars, ghostVars, publishVars, dispatchVars, Busy
  <2> QED
    BY <2>1, OrderStable
<1> QED
  BY <1>1, <1>2, <1>3, <1>4, <1>5, <1>6, <1>7, <1>8, <1>9
  DEF Next, PublishStep, DispatchStep, StopStep

-----------------------------------------------------------------------------
(* The subscriptions and their snapshot.                                   *)

LEMMA InitSubs == Init => SubsInv
  BY BusAssumption DEF Init, SubsInv, IdsOnce, IdsLive, DueAccepted, SubIds, Subscribed

LEMMA SubsStable ==
    ASSUME SubsInv, UNCHANGED <<subs, snap, nextId, cutoff, due>>
    PROVE  SubsInv'
  BY DEF SubsInv, IdsOnce, IdsLive, DueAccepted, Subscribed

LEMMA NextSubs ==
    ASSUME Typed, SubsInv, [Next]_vars
    PROVE  SubsInv'
<1> DEFINE Sub == [id : SubIds, filter : Filters]
<1>11. subs \in Seq(Sub) /\ snap \in Seq(Sub)
  BY DEF Typed
<1>12. \A s \in Sub : s.id \in SubIds
  OBVIOUS
<1> HIDE DEF Sub
<1>0. /\ DOMAIN subs = 1 .. Len(subs) /\ Len(subs) \in Nat
      /\ DOMAIN snap = 1 .. Len(snap) /\ Len(snap) \in Nat
      /\ \A k \in DOMAIN subs : subs[k].id \in SubIds
      /\ \A k \in DOMAIN snap : snap[k].id \in SubIds
      /\ due \in [SubIds -> SUBSET Items] /\ cutoff \in [SubIds -> SUBSET Nat]
  BY <1>11, <1>12 DEF Typed
<1>9. nextId \in Nat /\ SubIds \subseteq Nat /\ (nextId <= MaxSubs => nextId \in SubIds)
  BY BusAssumption DEF Typed, SubIds
<1>10. IdsOnce /\ IdsLive /\ DueAccepted
  BY DEF SubsInv
<1>1. ASSUME NEW p \in Producers, PublishClaims(p)
      PROVE  SubsInv'
  <2> DEFINE e == Head(fresh)
  <2>1. /\ UNCHANGED <<subs, snap, nextId, cutoff>>
        /\ due' = [i \in SubIds |->
                  IF \E k \in DOMAIN subs :
                         subs[k].id = i /\ Accepts(subs[k].filter, e)
                  THEN due[i] \cup {e} ELSE due[i]]
    BY <1>1 DEF PublishClaims, dispatchVars, subVars
  <2> HIDE DEF e
  <2>2. \A i \in SubIds : i >= nextId => due'[i] = {}
    BY <1>0, <1>9, <2>1, <1>10 DEF IdsOnce, IdsLive, DueAccepted
  <2>3. ASSUME NEW k \in DOMAIN subs, NEW x \in due'[subs[k].id]
        PROVE  Accepts(subs[k].filter, x)
    <3>1. CASE x \in due[subs[k].id]
      BY <3>1, <1>10 DEF IdsOnce, IdsLive, DueAccepted
    <3>2. CASE x \notin due[subs[k].id]
      <4>1. PICK j \in DOMAIN subs : subs[j].id = subs[k].id /\ Accepts(subs[j].filter, e)
        BY <1>0, <1>9, <2>1, <2>3, <3>2
      <4>2. x = e
        BY <1>0, <1>9, <2>1, <2>3, <3>2
      <4>3. j = k
        BY <4>1, <1>10 DEF IdsOnce, IdsLive, DueAccepted
      <4> QED
        BY <4>1, <4>2, <4>3
    <3> QED
      BY <3>1, <3>2
  <2>4. ASSUME NEW k \in DOMAIN snap, NEW x \in due'[snap[k].id]
        PROVE  Accepts(snap[k].filter, x)
    <3>1. CASE x \in due[snap[k].id]
      BY <3>1, <1>10 DEF IdsOnce, IdsLive, DueAccepted
    <3>2. CASE x \notin due[snap[k].id]
      <4>1. PICK j \in DOMAIN subs : subs[j].id = snap[k].id /\ Accepts(subs[j].filter, e)
        BY <1>0, <1>9, <2>1, <2>4, <3>2
      <4>2. x = e
        BY <1>0, <1>9, <2>1, <2>4, <3>2
      <4>3. snap[k].filter = subs[j].filter
        BY <4>1, <1>10 DEF IdsOnce, IdsLive, DueAccepted
      <4> QED
        BY <4>1, <4>2, <4>3
    <3> QED
      BY <3>1, <3>2
  <2> QED
    BY <2>1, <2>2, <2>3, <2>4, <1>10 DEF SubsInv, IdsOnce, IdsLive, DueAccepted, Subscribed
<1>2. ASSUME NEW f \in Filters, Subscribe(f)
      PROVE  SubsInv'
  <2> DEFINE sub == [id |-> nextId, filter |-> f]
             n == Len(subs)
  <2>1. /\ UNCHANGED <<snap, cutoff, due>>
        /\ nextId' = nextId + 1 /\ nextId \in SubIds
        /\ subs' = Append(subs, sub)
    BY <1>2, <1>9 DEF Subscribe, dispatchVars, ghostVars
  <2>2. sub \in Sub
    BY <2>1 DEF Sub
  <2>3. sub.id = nextId /\ sub.filter = f
    OBVIOUS
  <2> HIDE DEF sub
  <2>4. /\ DOMAIN subs' = 1 .. n + 1 /\ n \in Nat
        /\ \A k \in 1 .. n : subs'[k] = subs[k]
        /\ subs'[n + 1] = sub
    BY <1>0, <1>11, <2>1, <2>2, AppendFacts
  <2> HIDE DEF n
  <2>5. DOMAIN subs = 1 .. n
    BY <1>0 DEF n
  <2>6. \A j, k \in DOMAIN subs' : subs'[j].id = subs'[k].id => j = k
    BY <1>0, <1>9, <2>3, <2>4, <2>5, <1>10 DEF IdsOnce, IdsLive, DueAccepted
  <2> DEFINE Early(m) == m \in SubIds /\ m < nextId => m < nextId + 1
  <2>14. \A m : Early(m)
    BY <1>9
  <2>7. \A k \in DOMAIN subs' : subs'[k].id < nextId + 1
    BY <1>0, <1>9, <2>14, <2>3, <2>4, <2>5, <1>10 DEF IdsOnce, IdsLive, DueAccepted
  <2>8. \A k \in DOMAIN snap : snap[k].id < nextId + 1
    BY <1>0, <1>9, <2>14, <1>10 DEF IdsOnce, IdsLive, DueAccepted
  <2>9. \A j \in DOMAIN snap, k \in DOMAIN subs' :
           snap[j].id = subs'[k].id => snap[j].filter = subs'[k].filter
    BY <1>0, <1>9, <2>3, <2>4, <2>5, <1>10 DEF IdsOnce, IdsLive, DueAccepted
  <2>10. \A k \in DOMAIN subs' : cutoff[subs'[k].id] = {}
    BY <1>0, <1>9, <2>1, <2>3, <2>4, <2>5, <1>10 DEF IdsOnce, IdsLive, DueAccepted
  <2>11. ASSUME NEW i \in SubIds, i < nextId + 1, cutoff[i] = {}
         PROVE  \E k \in DOMAIN subs' : subs'[k].id = i
    <3>1. CASE i = nextId
      BY <2>3, <2>4, <3>1
    <3>2. CASE i < nextId
      <4>1. PICK k \in DOMAIN subs : subs[k].id = i
        BY <2>11, <3>2, <1>10 DEF SubsInv, IdsOnce, IdsLive, DueAccepted, Subscribed
      <4> QED
        BY <2>4, <2>5, <4>1
    <3> QED
      BY <1>0, <1>9, <2>11, <3>1, <3>2
  <2>12. \A i \in SubIds : i >= nextId + 1 => due[i] = {} /\ cutoff[i] = {}
    BY <1>0, <1>9, <1>10 DEF IdsOnce, IdsLive, DueAccepted
  <2>13. \A k \in DOMAIN subs' : \A e \in due[subs'[k].id] :
            Accepts(subs'[k].filter, e)
    BY <1>0, <1>9, <2>1, <2>3, <2>4, <2>5, <1>10 DEF IdsOnce, IdsLive, DueAccepted
  <2> QED
    <3>1. IdsOnce'
      BY <1>10, <2>1, <2>6, <2>7, <2>8, <2>9 DEF IdsOnce
    <3>2. IdsLive'
      BY <2>1, <2>10, <2>11, <2>12 DEF IdsLive, Subscribed
    <3>3. DueAccepted'
      BY <1>10, <2>1, <2>13 DEF DueAccepted
    <3> QED
      BY <3>1, <3>2, <3>3 DEF SubsInv
<1>3. ASSUME NEW i \in SubIds, Unsubscribe(i)
      PROVE  SubsInv'
  <2>1. /\ UNCHANGED <<snap, due, nextId>>
        /\ cutoff' = [cutoff EXCEPT ![i] = {Len(log[i])}]
    BY <1>3 DEF Unsubscribe, dispatchVars
  <2>2. PICK k \in DOMAIN subs : subs[k].id = i /\ subs' = Without(subs, k)
    BY <1>3 DEF Unsubscribe
  <2> DEFINE n == Len(subs) - 1
             Old(j) == IF j < k THEN j ELSE j + 1
  <2>3. /\ DOMAIN subs' = 1 .. n
        /\ \A j \in 1 .. n : subs'[j] = subs[Old(j)]
        /\ \A l \in DOMAIN subs : l # k => \E j \in 1 .. n : subs'[j] = subs[l]
    BY <1>11, <2>2, WithoutFacts
  <2>4. /\ \A j \in 1 .. n : Old(j) \in DOMAIN subs /\ Old(j) # k
        /\ \A j, l \in 1 .. n : Old(j) = Old(l) => j = l
    BY <1>0
  <2> HIDE DEF n, Old
  <2>5. \A j \in DOMAIN subs' : subs'[j].id # i /\ subs'[j].id \in SubIds
    BY <1>0, <1>9, <2>2, <2>3, <2>4, <1>10 DEF IdsOnce, IdsLive, DueAccepted
  <2>6. \A j, l \in DOMAIN subs' : subs'[j].id = subs'[l].id => j = l
    BY <2>3, <2>4, <1>10 DEF IdsOnce, IdsLive, DueAccepted
  <2>7. \A j \in DOMAIN subs' : subs'[j].id < nextId
    BY <2>3, <2>4, <1>10 DEF IdsOnce, IdsLive, DueAccepted
  <2>8. \A l \in DOMAIN snap, j \in DOMAIN subs' :
           snap[l].id = subs'[j].id => snap[l].filter = subs'[j].filter
    BY <2>3, <2>4, <1>10 DEF IdsOnce, IdsLive, DueAccepted
  <2>9. \A j \in DOMAIN subs' : cutoff'[subs'[j].id] = {}
    <3>1. \A j \in DOMAIN subs' : cutoff[subs'[j].id] = {}
      BY <2>3, <2>4, <1>10 DEF IdsOnce, IdsLive, DueAccepted
    <3> QED
      BY <1>0, <1>9, <2>1, <2>5, <3>1
  <2>10. i < nextId
    BY <1>0, <2>2, <1>10 DEF IdsOnce, IdsLive, DueAccepted
  <2>11. ASSUME NEW m \in SubIds, m < nextId, cutoff'[m] = {}
         PROVE  \E j \in DOMAIN subs' : subs'[j].id = m
    <3>1. m # i /\ cutoff[m] = {}
      BY <1>0, <1>9, <2>1, <2>11
    <3>2. PICK l \in DOMAIN subs : subs[l].id = m
      BY <2>11, <3>1, <1>10 DEF SubsInv, IdsOnce, IdsLive, DueAccepted, Subscribed
    <3> QED
      BY <2>2, <2>3, <3>1, <3>2
  <2>12. \A m \in SubIds : m >= nextId => due[m] = {} /\ cutoff'[m] = {}
    BY <1>0, <1>9, <2>1, <2>10, <1>10 DEF IdsOnce, IdsLive, DueAccepted
  <2>13. \A j \in DOMAIN subs' : \A e \in due[subs'[j].id] :
            Accepts(subs'[j].filter, e)
    BY <2>3, <2>4, <1>10 DEF IdsOnce, IdsLive, DueAccepted
  <2> QED
    <3>1. IdsOnce'
      BY <1>10, <2>1, <2>6, <2>7, <2>8 DEF IdsOnce
    <3>2. IdsLive'
      BY <2>1, <2>9, <2>11, <2>12 DEF IdsLive, Subscribed
    <3>3. DueAccepted'
      BY <1>10, <2>1, <2>13 DEF DueAccepted
    <3> QED
      BY <3>1, <3>2, <3>3 DEF SubsInv
<1>4. CASE DeliverSnapshots
  BY <1>4, <1>10 DEF DeliverSnapshots, subVars, ghostVars, SubsInv, IdsOnce, IdsLive,
                     DueAccepted, Subscribed
<1>5. CASE DeliverCalls
  <2>1. /\ snap # <<>> /\ snap' = Tail(snap)
        /\ UNCHANGED <<subs, nextId, cutoff, due>>
    BY <1>5 DEF DeliverCalls, subVars
  <2>2. /\ DOMAIN snap' = 1 .. Len(snap) - 1
        /\ \A k \in 1 .. Len(snap) - 1 : snap'[k] = snap[k + 1] /\ k + 1 \in DOMAIN snap
    BY <1>0, <1>9, <2>1, TailFacts DEF Typed
  <2>3. \A j, k \in DOMAIN snap' : snap'[j].id = snap'[k].id => j = k
    BY <1>0, <1>9, <2>2, <1>10 DEF IdsOnce, IdsLive, DueAccepted
  <2>4. \A k \in DOMAIN snap' : snap'[k].id < nextId
    BY <1>0, <2>2, <1>10 DEF IdsOnce, IdsLive, DueAccepted
  <2>5. \A j \in DOMAIN snap', k \in DOMAIN subs :
           snap'[j].id = subs[k].id => snap'[j].filter = subs[k].filter
    BY <1>0, <2>2, <1>10 DEF IdsOnce, IdsLive, DueAccepted
  <2>6. \A k \in DOMAIN snap' : \A e \in due[snap'[k].id] : Accepts(snap'[k].filter, e)
    BY <1>0, <2>2, <1>10 DEF IdsOnce, IdsLive, DueAccepted
  <2> QED
    BY <2>1, <2>3, <2>4, <2>5, <2>6, <1>10 DEF SubsInv, IdsOnce, IdsLive, DueAccepted, Subscribed
<1>6. ASSUME NEW p \in Producers,
             PublishDrops(p) \/ PublishEnqueues(p) \/ PublishSignals(p)
      PROVE  SubsInv'
  <2>1. UNCHANGED <<subs, snap, nextId, cutoff, due>>
    BY <1>6 DEF PublishDrops, PublishEnqueues, PublishSignals, dispatchVars, subVars, ghostVars
  <2> QED
    BY <2>1, SubsStable
<1>7. CASE DispatchTests \/ DispatchWakes \/ DispatchTimesOut \/ DispatchFindsEmpty
           \/ DispatchTakes \/ DispatchReleases \/ DeliverEnds
  <2>1. UNCHANGED <<subs, snap, nextId, cutoff, due>>
    BY <1>7 DEF DispatchTests, DispatchWakes, DispatchTimesOut, DispatchFindsEmpty,
                DispatchTakes, DispatchReleases, DeliverEnds, subVars, ghostVars
  <2> QED
    BY <2>1, SubsStable
<1>8. CASE Start \/ StopBegins \/ StopRequests \/ StopReleases \/ StopJoins
           \/ UNCHANGED vars
  <2>1. UNCHANGED <<subs, snap, nextId, cutoff, due>>
    BY <1>8 DEF Start, StopBegins, StopRequests, StopReleases, StopJoins, vars,
                subVars, ghostVars, dispatchVars
  <2> QED
    BY <2>1, SubsStable
<1> QED
  BY <1>1, <1>2, <1>3, <1>4, <1>5, <1>6, <1>7, <1>8
  DEF Next, PublishStep, DispatchStep, StopStep

-----------------------------------------------------------------------------
(* Pending tickets; start and stop.                                        *)

LEMMA InitStop == Init => PendingInv /\ StopInv
  BY DEF Init, FifoInit, PendingInv, StopInv

LEMMA PendingStable ==
    ASSUME PendingInv, UNCHANGED <<q, ppc>>, calm' => calm
    PROVE  PendingInv'
  BY DEF PendingInv

LEMMA NextPending ==
    ASSUME Typed, PendingInv, [Next]_vars
    PROVE  PendingInv'
<1>0. /\ q \in Seq(Ticket) /\ DOMAIN q = 1 .. Len(q) /\ Len(q) \in Nat
      /\ ppc \in [Producers -> {"idle", "enqueue", "signal"}]
  BY DEF Typed
<1>1. ASSUME NEW p \in Producers, PublishClaims(p)
      PROVE  PendingInv'
  <2> DEFINE n == Len(q)
  <2>1. /\ \A k \in 1 .. n : q[k].by # p
        /\ q' = Append(q, [item |-> Head(fresh), by |-> p])
        /\ ppc[p] = "idle" /\ ppc' = [ppc EXCEPT ![p] = "enqueue"]
        /\ calm' = FALSE
    BY <1>0, <1>1 DEF PublishClaims, Claim, Pending
  <2>2. /\ DOMAIN q' = 1 .. n + 1 /\ n \in Nat
        /\ \A k \in 1 .. n : q'[k] = q[k]
        /\ q'[n + 1].by = p
    BY <1>0, <2>1
  <2>3. \A x : ppc[x] = "enqueue" /\ x # p => ppc'[x] = "enqueue"
    BY <1>0, <2>1
  <2>4. ppc'[p] = "enqueue"
    BY <1>0, <2>1
  <2> HIDE DEF n
  <2>5. DOMAIN q = 1 .. n
    BY <1>0 DEF n
  <2>6. \A k \in DOMAIN q' : q'[k].by = Ready \/ ppc'[q'[k].by] = "enqueue"
    BY <2>1, <2>2, <2>3, <2>4, <2>5 DEF PendingInv
  <2>7. \A j, k \in DOMAIN q' : q'[j].by = q'[k].by /\ q'[j].by # Ready => j = k
    BY <2>1, <2>2, <2>5 DEF PendingInv
  <2> QED
    BY <2>1, <2>6, <2>7 DEF PendingInv
<1>2. ASSUME NEW p \in Producers, PublishEnqueues(p)
      PROVE  PendingInv'
  <2>1. PICK i \in DOMAIN q : q[i].by = p /\ q' = [q EXCEPT ![i].by = Ready]
    BY <1>2 DEF PublishEnqueues, Finish, Pending
  <2>2. /\ DOMAIN q' = DOMAIN q
        /\ \A k \in DOMAIN q : k # i => q'[k] = q[k]
        /\ q'[i] = [q[i] EXCEPT !.by = Ready]
    BY <1>0, <2>1
  <2>3. q[i] \in Ticket
    BY <1>0
  <2>4. q'[i].by = Ready
    BY <2>2, <2>3 DEF Ticket
  <2>5. /\ ppc[p] = "enqueue" /\ ppc' = [ppc EXCEPT ![p] = "signal"]
        /\ calm' = calm
    BY <1>2 DEF PublishEnqueues, ghostVars
  <2>6. \A k \in DOMAIN q : k # i => q[k].by = Ready \/ q[k].by # p
    BY <2>1 DEF PendingInv
  <2>7. \A x : ppc[x] = "enqueue" /\ x # p => ppc'[x] = "enqueue"
    BY <1>0, <2>5
  <2>8. ~calm
    BY <2>5 DEF PendingInv
  <2>9. \A k \in DOMAIN q' : q'[k].by = Ready \/ ppc'[q'[k].by] = "enqueue"
    <3>1. ASSUME NEW k \in DOMAIN q, k # i
          PROVE  q[k].by = Ready \/ ppc'[q[k].by] = "enqueue"
      BY <2>6, <2>7, <3>1 DEF PendingInv
    <3> QED
      BY <2>2, <2>4, <3>1
  <2>10. \A j, k \in DOMAIN q' : q'[j].by = q'[k].by /\ q'[j].by # Ready => j = k
    BY <2>2, <2>4 DEF PendingInv
  <2> QED
    BY <2>5, <2>8, <2>9, <2>10 DEF PendingInv
<1>3. ASSUME NEW p \in Producers, PublishSignals(p)
      PROVE  PendingInv'
  <2>1. /\ ppc[p] = "signal" /\ ppc' = [ppc EXCEPT ![p] = "idle"]
        /\ UNCHANGED <<q, calm>>
    BY <1>3 DEF PublishSignals, fifoVars, ghostVars
  <2>2. \A x : ppc[x] = "enqueue" => ppc'[x] = "enqueue"
    BY <1>0, <2>1
  <2> QED
    BY <1>0, <2>1, <2>2 DEF PendingInv
<1>4. CASE DispatchTakes
  <2>1. q # <<>> /\ q' = Tail(q) /\ UNCHANGED <<ppc, calm>>
    BY <1>4 DEF DispatchTakes, Take, CanTake, ghostVars, publishVars
  <2>2. /\ DOMAIN q' = 1 .. Len(q) - 1
        /\ \A k \in 1 .. Len(q) - 1 : q'[k] = q[k + 1] /\ k + 1 \in DOMAIN q
    BY <1>0, <2>1, TailFacts
  <2>3. \A k \in DOMAIN q' : q'[k].by = Ready \/ ppc[q'[k].by] = "enqueue"
    BY <2>2 DEF PendingInv
  <2>4. \A j, k \in DOMAIN q' : q'[j].by = q'[k].by /\ q'[j].by # Ready => j = k
    <3>1. \A j, k \in DOMAIN q' : j + 1 = k + 1 => j = k
      BY <2>2
    <3> QED
      BY <2>2, <3>1 DEF PendingInv
  <2> QED
    BY <2>1, <2>3, <2>4 DEF PendingInv
<1>5. CASE StopBegins
  BY <1>5 DEF StopBegins, fifoVars, publishVars, PendingInv
<1>6. ASSUME NEW p \in Producers, PublishDrops(p)
      PROVE  PendingInv'
  BY <1>6, PendingStable DEF PublishDrops, fifoVars, ghostVars
<1>7. ASSUME NEW f \in Filters, Subscribe(f)
      PROVE  PendingInv'
  BY <1>7, PendingStable DEF Subscribe, fifoVars, ghostVars, publishVars
<1>8. ASSUME NEW i \in SubIds, Unsubscribe(i)
      PROVE  PendingInv'
  BY <1>8, PendingStable DEF Unsubscribe, fifoVars, publishVars
<1>9. CASE \/ DispatchTests \/ DispatchWakes \/ DispatchTimesOut \/ DispatchFindsEmpty
           \/ DispatchReleases \/ DeliverSnapshots \/ DeliverCalls \/ DeliverEnds
           \/ Start \/ StopRequests \/ StopReleases \/ StopJoins \/ UNCHANGED vars
  <2>1. UNCHANGED <<q, ppc, calm>>
    BY <1>9 DEF DispatchTests, DispatchWakes, DispatchTimesOut, DispatchFindsEmpty,
                DispatchReleases, Release, DeliverSnapshots, DeliverCalls, DeliverEnds,
                Start, StopRequests, StopReleases, StopJoins, vars, fifoVars, ghostVars,
                publishVars
  <2> QED
    BY <2>1, PendingStable
<1> QED
  BY <1>1, <1>2, <1>3, <1>4, <1>5, <1>6, <1>7, <1>8, <1>9
  DEF Next, PublishStep, DispatchStep, StopStep

LEMMA NextStop ==
    ASSUME Typed, PendingInv, StopInv, [Next]_vars
    PROVE  StopInv'
<1> USE DEF StopInv
<1>1. ASSUME NEW p \in Producers, PublishDrops(p) \/ PublishSignals(p)
      PROVE  StopInv'
  BY <1>1 DEF PublishDrops, PublishSignals, fifoVars, stopVars, dispatchVars, ghostVars
<1>2. ASSUME NEW p \in Producers, PublishClaims(p)
      PROVE  StopInv'
  BY <1>2 DEF PublishClaims, stopVars, dispatchVars
<1>3. ASSUME NEW p \in Producers, PublishEnqueues(p)
      PROVE  StopInv'
  <2>1. ~calm
    BY <1>3 DEF PublishEnqueues, PendingInv
  <2> QED
    BY <1>3, <2>1 DEF PublishEnqueues, stopVars, dispatchVars, ghostVars
<1>4. ASSUME NEW f \in Filters, Subscribe(f)
      PROVE  StopInv'
  BY <1>4 DEF Subscribe, fifoVars, stopVars, dispatchVars, ghostVars
<1>5. ASSUME NEW i \in SubIds, Unsubscribe(i)
      PROVE  StopInv'
  BY <1>5 DEF Unsubscribe, fifoVars, stopVars, dispatchVars
<1>6. CASE DispatchFindsEmpty
  <2>1. calm => q = <<>>
    <3>1. ASSUME calm, q # <<>> PROVE FALSE
      <4>1. 1 \in DOMAIN q /\ Head(q) = q[1] /\ q[1] \in Ticket
        BY <3>1, TailFacts DEF Typed
      <4>2. q[1].by # Ready
        BY <1>6, <3>1, <4>1 DEF DispatchFindsEmpty, CanTake
      <4>3. q[1].by \in Producers
        BY <4>1, <4>2 DEF Ticket
      <4> QED
        BY <3>1, <4>1, <4>2, <4>3 DEF PendingInv
    <3> QED
      BY <3>1
  <2> QED
    BY <1>6, <2>1 DEF DispatchFindsEmpty, fifoVars, stopVars, ghostVars
<1>7. CASE \/ DispatchTests \/ DispatchWakes \/ DispatchTimesOut \/ DispatchTakes
           \/ DispatchReleases \/ DeliverSnapshots \/ DeliverCalls \/ DeliverEnds
  BY <1>7 DEF DispatchTests, DispatchWakes, DispatchTimesOut, DispatchTakes, DispatchReleases,
              DeliverSnapshots, DeliverCalls, DeliverEnds, stopVars
<1>8. CASE Start
  BY <1>8 DEF Start, ghostVars
<1>11. CASE StopBegins
  BY <1>11 DEF StopBegins, dispatchVars
<1>9. CASE StopRequests \/ StopReleases \/ StopJoins
  BY <1>9 DEF StopRequests, StopReleases, StopJoins, dispatchVars, fifoVars, ghostVars
<1>10. CASE UNCHANGED vars
  BY <1>10 DEF vars, fifoVars, stopVars, dispatchVars, ghostVars
<1> QED
  BY <1>1, <1>2, <1>3, <1>4, <1>5, <1>6, <1>7, <1>8, <1>9, <1>10,
     <1>11 DEF Next, PublishStep, DispatchStep, StopStep

-----------------------------------------------------------------------------
(* The logs of the subscriptions.                                          *)

\* A step that calls no handler and takes no snapshot moves no place reached.
LEMMA ReachedSame ==
    ASSUME Typed, OrderInv, StopInv, [Next]_vars, ~DeliverSnapshots, ~DeliverCalls,
           NEW i \in SubIds
    PROVE  Reached(i)' = Reached(i)
<1>0. /\ q \in Seq(Ticket) /\ Len(q) \in Nat /\ Len(order) \in Nat
      /\ order \in Seq(Items)
  BY DEF Typed
<1>1. ASSUME NEW p \in Producers, PublishClaims(p)
      PROVE  Reached(i)' = Reached(i)
  <2>1. /\ Len(order') = Len(order) + 1 /\ Len(q') = Len(q) + 1
        /\ UNCHANGED <<dpc, snap>>
    BY <1>0, <1>1 DEF PublishClaims, Claim, dispatchVars
  <2>2. Taken' = Taken
    BY <1>0, <2>1 DEF Taken
  <2> QED
    BY <2>1, <2>2 DEF Reached, InSnap
<1>2. ASSUME NEW p \in Producers, PublishEnqueues(p)
      PROVE  Reached(i)' = Reached(i)
  <2>1. Len(q') = Len(q) /\ UNCHANGED <<order, dpc, snap>>
    BY <1>0, <1>2 DEF PublishEnqueues, Finish, Pending, dispatchVars, ghostVars
  <2> QED
    BY <2>1 DEF Reached, InSnap, Taken
<1>3. CASE DispatchTakes
  <2>1. /\ Len(q') = Len(q) - 1 /\ UNCHANGED <<order, snap>>
        /\ dpc = "drain" /\ dpc' = "dequeue"
    BY <1>0, <1>3, TailFacts DEF DispatchTakes, Take, CanTake, ghostVars
  <2>2. Taken' = Taken + 1 /\ Taken \in Int
    BY <1>0, <2>1 DEF Taken
  <2> QED
    BY <2>1, <2>2 DEF Reached
<1>4. CASE \/ DispatchTests \/ DispatchWakes \/ DispatchTimesOut \/ DispatchFindsEmpty
           \/ DispatchReleases
  <2>1. /\ UNCHANGED <<order, q>> /\ dpc # "call" /\ dpc' # "call"
        /\ dpc' \in {"dequeue", "snapshot"} <=> dpc \in {"dequeue", "snapshot"}
    BY <1>4 DEF DispatchTests, DispatchWakes, DispatchTimesOut, DispatchFindsEmpty,
                DispatchReleases, Release, fifoVars, ghostVars
  <2> QED
    BY <2>1 DEF Reached, Taken
<1>5. CASE DeliverEnds
  <2>1. ~InSnap(i)
    BY <1>5 DEF DeliverEnds, InSnap
  <2> QED
    BY <1>5, <2>1 DEF DeliverEnds, Reached, Taken, fifoVars, ghostVars
<1>6. CASE Start \/ StopJoins
  <2>1. /\ UNCHANGED <<order, q>>
        /\ dpc \in {"off", "exited"} /\ dpc' \in {"test", "off"}
    BY <1>6 DEF Start, StopJoins, StopInv, fifoVars, ghostVars
  <2> QED
    BY <2>1 DEF Reached, Taken
<1>7. ASSUME UNCHANGED <<order, q, dpc, snap>>
      PROVE  Reached(i)' = Reached(i)
  BY <1>7 DEF Reached, InSnap, Taken
<1>8. CASE StopBegins \/ StopRequests \/ StopReleases \/ UNCHANGED vars
  BY <1>7, <1>8 DEF StopBegins, StopRequests, StopReleases, vars, fifoVars, ghostVars,
                    dispatchVars
<1>9. ASSUME NEW p \in Producers, PublishDrops(p) \/ PublishSignals(p)
      PROVE  Reached(i)' = Reached(i)
  BY <1>7, <1>9 DEF PublishDrops, PublishSignals, fifoVars, ghostVars, dispatchVars
<1>10. ASSUME NEW f \in Filters, Subscribe(f)
       PROVE  Reached(i)' = Reached(i)
  BY <1>7, <1>10 DEF Subscribe, fifoVars, ghostVars, dispatchVars
<1>11. ASSUME NEW k \in SubIds, Unsubscribe(k)
       PROVE  Reached(i)' = Reached(i)
  BY <1>7, <1>11 DEF Unsubscribe, fifoVars, dispatchVars
<1> QED
  BY <1>1, <1>2, <1>3, <1>4, <1>5, <1>6, <1>8, <1>9, <1>10, <1>11
  DEF Next, PublishStep, DispatchStep, StopStep

\* The place reached lies in order.
LEMMA ReachedBounds ==
    ASSUME Typed, OrderInv, NEW i \in SubIds
    PROVE  /\ Taken \in Nat /\ Taken <= Len(order) /\ Len(order) \in Nat
           /\ Reached(i) \in 0 .. Taken
           /\ 1 .. Reached(i) \subseteq DOMAIN order
<1>1. /\ Len(q) \in Nat /\ Len(order) \in Nat /\ DOMAIN order = 1 .. Len(order)
  BY DEF Typed
<1>2. Taken \in Nat /\ Taken <= Len(order)
  BY <1>1 DEF Taken, OrderInv, QueueIsTail
<1>3. Reached(i) \in 0 .. Taken
  BY <1>2 DEF Reached, OrderInv, QueueIsTail, Busy
<1> QED
  BY <1>1, <1>2, <1>3

LEMMA InitLogs == Init => LogFollows /\ LogComplete /\ LateInv
  BY DEF Init, LogFollows, LogComplete, LateInv

\* deliver() calls the handler of the first subscription in the snapshot.
LEMMA CallLogs ==
    ASSUME Typed, OrderInv, SubsInv, LogFollows, LogComplete, LateInv, DeliverCalls
    PROVE  LogFollows' /\ LogComplete' /\ LateInv'
<1>0a. PICK s : s = snap[1].id
  OBVIOUS
<1>0b. PICK e : e = order[Taken]
  OBVIOUS
<1>0c. PICK n : n = Len(log[s])
  OBVIOUS
<1>1. /\ dpc = "call" /\ dpc' = "call" /\ snap # <<>> /\ snap' = Tail(snap)
      /\ log' = IF Accepts(snap[1].filter, e)
                THEN [log EXCEPT ![s] = Append(@, e)] ELSE log
      /\ UNCHANGED <<order, q, due, cutoff>>
  <2>1. snap # <<>> => Head(snap) = snap[1]
    BY TailFacts DEF Typed
  <2>2. dpc = "call" => hand[Dispatcher] = e
    BY <1>0b DEF OrderInv, QueueIsTail, Busy
  <2>3. /\ dpc = "call" /\ snap # <<>> /\ snap' = Tail(snap)
        /\ log' = IF Accepts(Head(snap).filter, hand[Dispatcher])
                  THEN [log EXCEPT ![Head(snap).id] = Append(@, hand[Dispatcher])] ELSE log
        /\ UNCHANGED <<dpc, order, q, due, cutoff>>
    BY DEF DeliverCalls, fifoVars
  <2> QED
    BY <1>0a, <2>1, <2>2, <2>3
<1>2. /\ Len(snap) \in Nat /\ Len(snap) >= 1 /\ DOMAIN snap = 1 .. Len(snap)
      /\ DOMAIN snap' = 1 .. Len(snap) - 1
      /\ \A k \in 1 .. Len(snap) - 1 : snap'[k] = snap[k + 1]
  BY <1>1, TailFacts DEF Typed
<1>3. s \in SubIds
  <2>1. snap \in Seq([id : SubIds, filter : Filters]) /\ 1 \in DOMAIN snap
    BY <1>2 DEF Typed
  <2> DEFINE Sub == [id : SubIds, filter : Filters]
  <2>2. \A x \in Sub : x.id \in SubIds
    OBVIOUS
  <2>3. snap \in Seq(Sub)
    BY <2>1
  <2> HIDE DEF Sub
  <2>4. snap[1] \in Sub
    BY <2>1, <2>3
  <2> QED
    BY <1>0a, <2>2, <2>4
<1>4. InSnap(s) /\ ~InSnap(s)'
  <2>1. 1 \in DOMAIN snap /\ \A k \in 1 .. Len(snap) - 1 : k + 1 \in DOMAIN snap /\ k + 1 # 1
    BY <1>2
  <2>2. \A j, k \in DOMAIN snap : snap[j].id = snap[k].id => j = k
    BY DEF SubsInv, IdsOnce
  <2>3. InSnap(s)
    BY <1>0a, <2>1 DEF InSnap
  <2>4. ASSUME NEW k \in DOMAIN snap', snap'[k].id = s PROVE FALSE
    <3>1. k \in 1 .. Len(snap) - 1 /\ snap[k + 1].id = snap[1].id
      BY <1>0a, <1>2, <2>4
    <3> QED
      BY <2>1, <2>2, <3>1
  <2> QED
    BY <2>3, <2>4 DEF InSnap
<1>5. ASSUME NEW i \in SubIds, i # s
      PROVE  InSnap(i)' <=> InSnap(i)
  <2>1. \A k \in 1 .. Len(snap) : k # 1 => k - 1 \in 1 .. Len(snap) - 1 /\ (k - 1) + 1 = k
    BY <1>2
  <2>2. \A k \in 1 .. Len(snap) - 1 : k + 1 \in 1 .. Len(snap)
    BY <1>2
  <2>3. ASSUME NEW k \in DOMAIN snap, snap[k].id = i
        PROVE  \E j \in DOMAIN snap' : snap'[j].id = i
    <3>1. k # 1
      BY <1>0a, <1>5, <2>3
    <3>2. k - 1 \in 1 .. Len(snap) - 1 /\ snap'[k - 1] = snap[(k - 1) + 1]
          /\ (k - 1) + 1 = k
      BY <1>2, <2>1, <2>3, <3>1
    <3> QED
      BY <1>2, <2>3, <3>2
  <2>4. ASSUME NEW k \in DOMAIN snap', snap'[k].id = i
        PROVE  \E j \in DOMAIN snap : snap[j].id = i
    BY <1>2, <2>2, <2>4
  <2> QED
    BY <2>3, <2>4 DEF InSnap
<1>6. /\ Taken \in Nat /\ Taken <= Len(order) /\ Taken >= 1 /\ Len(order) \in Nat
      /\ DOMAIN order = 1 .. Len(order)
      /\ Taken' = Taken
  BY <1>1, <1>3, ReachedBounds DEF Typed, Taken, OrderInv, QueueIsTail, Busy
<1>7. Reached(s) = Taken - 1 /\ Reached(s)' = Taken
  BY <1>1, <1>4, <1>6 DEF Reached
<1>17. \A i \in SubIds : Reached(i) \in Nat
  BY <1>6, ReachedBounds
<1>8. \A i \in SubIds : i # s => Reached(i)' = Reached(i) /\ log'[i] = log[i]
  BY <1>1, <1>5, <1>6 DEF Reached, Typed
<1>9. n \in Nat /\ DOMAIN log[s] = 1 .. n /\ log[s] \in Seq(Items) /\ e \in Items
  BY <1>0b, <1>0c, <1>3, <1>6 DEF Typed
<1>10. ASSUME Accepts(snap[1].filter, e)
       PROVE  /\ Len(log'[s]) = n + 1 /\ DOMAIN log'[s] = 1 .. n + 1
              /\ \A j \in 1 .. n : log'[s][j] = log[s][j]
              /\ log'[s][n + 1] = e
  <2>1. log'[s] = Append(log[s], e)
    BY <1>1, <1>3, <1>10 DEF Typed
  <2> QED
    BY <1>0c, <1>9, <2>1, AppendFacts
<1>11. ~Accepts(snap[1].filter, e) => log' = log /\ e \notin due[s]
  BY <1>0a, <1>1, <1>2 DEF SubsInv, DueAccepted
<1>12. \A j, k \in DOMAIN order : order[j] = order[k] => j = k
  BY DEF OrderInv, Once
<1>13. e = order[Taken] /\ Taken \in DOMAIN order
  BY <1>0b, <1>6
<1>14. LogFollows'
  <2>1. ASSUME NEW i \in SubIds, NEW j \in DOMAIN log'[i]
        PROVE  \E p \in 1 .. Reached(i)' : log'[i][j] = order[p]
    <3>1. CASE i # s \/ ~Accepts(snap[1].filter, e)
      <4>1. log'[i] = log[i] /\ Reached(i) <= Reached(i)' /\ Reached(i) \in Nat
            /\ Reached(i)' \in Nat
        <5>1. CASE i # s
          BY <1>8, <1>17, <5>1
        <5>2. CASE i = s
          BY <1>3, <1>6, <1>7, <1>11, <3>1, <5>2
        <5> QED
          BY <5>1, <5>2
      <4>2. PICK p \in 1 .. Reached(i) : log[i][j] = order[p]
        BY <2>1, <4>1 DEF LogFollows
      <4>3. p \in 1 .. Reached(i)'
        BY <4>1, <4>2
      <4> QED
        BY <4>1, <4>2, <4>3
    <3>2. CASE i = s /\ Accepts(snap[1].filter, e)
      <4>1. CASE j = n + 1
        <5>1. Taken \in 1 .. Reached(s)'
          BY <1>6, <1>7
        <5> QED
          BY <1>10, <1>13, <2>1, <3>2, <4>1, <5>1
      <4>2. CASE j \in 1 .. n
        <5>1. PICK p \in 1 .. Reached(s) : log[s][j] = order[p]
          BY <1>3, <1>9, <4>2 DEF LogFollows
        <5>2. p \in 1 .. Reached(s)'
          BY <1>6, <1>7, <5>1
        <5> QED
          BY <1>10, <3>2, <4>2, <5>1, <5>2
      <4> QED
        BY <1>9, <1>10, <2>1, <3>2, <4>1, <4>2
    <3> QED
      BY <3>1, <3>2
  <2>2. ASSUME NEW i \in SubIds, NEW j \in DOMAIN log'[i], NEW k \in DOMAIN log'[i],
               NEW p \in DOMAIN order, NEW r \in DOMAIN order,
               j < k, log'[i][j] = order[p], log'[i][k] = order[r]
        PROVE  p < r
    <3>1. CASE i # s \/ ~Accepts(snap[1].filter, e)
      <4>1. log'[i] = log[i]
        BY <1>8, <1>11, <3>1
      <4> QED
        BY <2>2, <4>1 DEF LogFollows
    <3>2. CASE i = s /\ Accepts(snap[1].filter, e)
      <4>1. j \in 1 .. n + 1 /\ k \in 1 .. n + 1
        BY <1>10, <2>2, <3>2
      <4>2. j \in 1 .. n /\ log[s][j] = order[p]
        BY <1>9, <1>10, <2>2, <3>2, <4>1
      <4>3. CASE k \in 1 .. n
        <5>1. log[s][k] = order[r]
          BY <1>10, <2>2, <3>2, <4>3
        <5> QED
          BY <1>3, <1>9, <2>2, <4>2, <4>3, <5>1 DEF LogFollows
      <4>4. CASE k = n + 1
        <5>1. r = Taken
          BY <1>10, <1>12, <1>13, <2>2, <3>2, <4>4
        <5>2. PICK o \in 1 .. Reached(s) : log[s][j] = order[o]
          BY <1>3, <1>9, <4>2 DEF LogFollows
        <5>3. o \in DOMAIN order /\ o < Taken
          BY <1>6, <1>7, <5>2
        <5>4. o = p
          BY <1>12, <4>2, <5>2, <5>3
        <5> QED
          BY <5>1, <5>3, <5>4
      <4> QED
        BY <1>9, <4>1, <4>3, <4>4
    <3> QED
      BY <3>1, <3>2
  <2> QED
    BY <1>1, <2>1, <2>2 DEF LogFollows
<1>15. LogComplete'
  <2>1. ASSUME NEW i \in SubIds, cutoff[i] = {}, NEW p \in 1 .. Reached(i)', order[p] \in due[i]
        PROVE  \E j \in DOMAIN log'[i] : log'[i][j] = order[p]
    <3>1. CASE i # s
      BY <1>8, <2>1, <3>1 DEF LogComplete
    <3>2. CASE i = s /\ p = Taken
      BY <1>9, <1>10, <1>11, <1>13, <2>1, <3>2
    <3>3. CASE i = s /\ p # Taken
      <4>1. p \in 1 .. Reached(s)
        <5>1. p \in 1 .. Taken /\ p # Taken
          BY <1>7, <2>1, <3>3
        <5> QED
          BY <1>6, <1>7, <5>1
      <4>2. PICK j \in DOMAIN log[s] : log[s][j] = order[p]
        BY <1>3, <2>1, <3>3, <4>1 DEF LogComplete
      <4>3. CASE Accepts(snap[1].filter, e)
        <5>1. j \in 1 .. n /\ j \in 1 .. n + 1
          BY <1>9, <4>2
        <5> QED
          BY <1>10, <3>3, <4>2, <4>3, <5>1
      <4> QED
        BY <1>11, <3>3, <4>2, <4>3
    <3> QED
      BY <3>1, <3>2, <3>3
  <2>2. \A i \in SubIds : \A x \in due[i] : \E p \in DOMAIN order : x = order[p]
    BY DEF LogComplete
  <2> QED
    BY <1>1, <2>1, <2>2 DEF LogComplete
<1>16. LateInv'
  <2>1. ASSUME NEW i \in SubIds, NEW m \in cutoff[i]
        PROVE  Len(log'[i]) <= m + 1 /\ (InSnap(i)' => Len(log'[i]) <= m)
    <3>1. CASE i # s
      BY <1>1, <1>5, <1>8, <2>1, <3>1 DEF LateInv
    <3>2. CASE i = s
      <4>1. n <= m /\ m \in Nat
        BY <1>0c, <1>1, <1>3, <1>4, <2>1, <3>2 DEF LateInv, Typed
      <4>2. Len(log'[s]) \in {n, n + 1}
        BY <1>0c, <1>10, <1>11
      <4>3. Len(log'[s]) <= m + 1
        BY <1>9, <4>1, <4>2
      <4> QED
        BY <1>4, <3>2, <4>3
    <3> QED
      BY <3>1, <3>2
  <2> QED
    BY <1>1, <2>1 DEF LateInv
<1> QED
  BY <1>14, <1>15, <1>16

\* deliver() copies the subscriptions.
LEMMA SnapshotLogs ==
    ASSUME Typed, OrderInv, SubsInv, LogFollows, LogComplete, LateInv, DeliverSnapshots
    PROVE  LogFollows' /\ LogComplete' /\ LateInv'
<1>1. /\ dpc = "snapshot" /\ dpc' = "call" /\ snap' = subs
      /\ UNCHANGED <<log, order, q, due, cutoff, nextId>>
  BY DEF DeliverSnapshots, fifoVars, ghostVars, subVars
<1>2. \A i \in SubIds : InSnap(i)' <=> Subscribed(i)
  BY <1>1 DEF InSnap, Subscribed
<1>3. /\ Taken \in Nat /\ Taken <= Len(order) /\ Taken >= 1 /\ Len(order) \in Nat
      /\ DOMAIN order = 1 .. Len(order) /\ Taken' = Taken
  <2>1. Taken >= 1
    BY <1>1 DEF OrderInv, QueueIsTail, Busy
  <2>2. Len(q) \in Nat /\ Len(order) \in Nat /\ DOMAIN order = 1 .. Len(order)
    BY DEF Typed
  <2> QED
    BY <1>1, <2>1, <2>2 DEF Taken
<1>4. \A i \in SubIds : /\ Reached(i) = Taken - 1
                        /\ Reached(i)' = IF Subscribed(i) THEN Taken - 1 ELSE Taken
  BY <1>1, <1>2, <1>3 DEF Reached
<1>5. LogFollows'
  <2>1. \A i \in SubIds : 1 .. Reached(i) \subseteq 1 .. Reached(i)'
    BY <1>3, <1>4
  <2> QED
    BY <1>1, <2>1 DEF LogFollows
<1>6. \A i \in SubIds : cutoff[i] = {} => Subscribed(i) \/ due[i] = {}
  <2>1. \A i \in SubIds : i < nextId \/ i >= nextId
    BY BusAssumption DEF SubIds, Typed
  <2> QED
    BY <2>1 DEF SubsInv, IdsLive
<1>7. LogComplete'
  <2>1. ASSUME NEW i \in SubIds, cutoff[i] = {}, NEW p \in 1 .. Reached(i)', order[p] \in due[i]
        PROVE  \E j \in DOMAIN log[i] : log[i][j] = order[p]
    <3>1. Reached(i)' = Reached(i)
      BY <1>4, <1>6, <2>1
    <3> QED
      BY <2>1, <3>1 DEF LogComplete
  <2> QED
    BY <1>1, <2>1 DEF LogComplete
<1>8. \A i \in SubIds : Subscribed(i) => cutoff[i] = {}
  BY DEF Subscribed, SubsInv, IdsLive
<1>9. LateInv'
  BY <1>1, <1>2, <1>8 DEF LateInv
<1> QED
  BY <1>5, <1>7, <1>9

LEMMA NextLogs ==
    ASSUME Typed, OrderInv, SubsInv, StopInv, LogFollows, LogComplete, LateInv,
           [Next]_vars
    PROVE  LogFollows' /\ LogComplete' /\ LateInv'
<1>1. CASE DeliverCalls
  BY <1>1, CallLogs
<1>2. CASE DeliverSnapshots
  BY <1>2, SnapshotLogs
<1> SUFFICES ASSUME ~DeliverCalls, ~DeliverSnapshots
             PROVE  LogFollows' /\ LogComplete' /\ LateInv'
  BY <1>1, <1>2
<1>3. \A i \in SubIds : Reached(i)' = Reached(i)
  BY ReachedSame
<1>4. /\ order \in Seq(Items) /\ DOMAIN order = 1 .. Len(order) /\ Len(order) \in Nat
      /\ cutoff \in [SubIds -> SUBSET Nat] /\ due \in [SubIds -> SUBSET Items]
      /\ log \in [SubIds -> Seq(Items)]
  BY DEF Typed
<1>5. \A i \in SubIds : 1 .. Reached(i) \subseteq DOMAIN order
  BY ReachedBounds
<1>6. ASSUME UNCHANGED <<log, order, due>>
      PROVE  LogFollows'
  BY <1>3, <1>6 DEF LogFollows
<1>7. ASSUME UNCHANGED <<log, order, due, cutoff>>
      PROVE  LogComplete'
  BY <1>3, <1>7 DEF LogComplete
<1>8. ASSUME UNCHANGED <<log, cutoff>>,
             dpc' = "call" => dpc = "call" /\ UNCHANGED snap
      PROVE  LateInv'
  BY <1>8 DEF LateInv, InSnap
<1>9. ASSUME NEW p \in Producers, PublishClaims(p)
      PROVE  LogFollows' /\ LogComplete' /\ LateInv'
  <2>1. /\ fresh # <<>> /\ fresh' = Tail(fresh) /\ order' = Append(order, Head(fresh))
        /\ UNCHANGED <<log, cutoff, dpc, snap>>
        /\ \A i \in SubIds : due'[i] \subseteq due[i] \cup {Head(fresh)}
    BY <1>4, <1>9 DEF PublishClaims, dispatchVars
  <2>2. PICK e : e = Head(fresh)
    OBVIOUS
  <2>3. Once' /\ \A k \in DOMAIN order : order[k] # e
    BY <2>1, <2>2, ClaimsOnce DEF OrderInv
  <2>4. e \in Items
    BY <2>1, <2>2, TailFacts DEF Typed
  <2>5. /\ DOMAIN order' = 1 .. Len(order) + 1
        /\ \A k \in DOMAIN order : order'[k] = order[k]
        /\ order'[Len(order) + 1] = e
        /\ DOMAIN order \subseteq DOMAIN order'
    BY <1>4, <2>1, <2>2, <2>4, AppendFacts
  <2>6. LogFollows'
    <3>1. ASSUME NEW i \in SubIds, NEW j \in DOMAIN log[i]
          PROVE  \E p1 \in 1 .. Reached(i) : log[i][j] = order'[p1]
      BY <1>5, <2>5 DEF LogFollows
    <3>2. ASSUME NEW i \in SubIds, NEW j \in DOMAIN log[i], NEW k \in DOMAIN log[i],
                 NEW p1 \in DOMAIN order', NEW r1 \in DOMAIN order',
                 j < k, log[i][j] = order'[p1], log[i][k] = order'[r1]
          PROVE  p1 < r1
      <4>1. ASSUME NEW l \in DOMAIN log[i], NEW o \in DOMAIN order', log[i][l] = order'[o]
            PROVE  o \in DOMAIN order /\ log[i][l] = order[o]
        <5>1. PICK o1 \in DOMAIN order : log[i][l] = order[o1]
          BY <1>5 DEF LogFollows
        <5>2. o = o1
          BY <2>3, <2>5, <4>1, <5>1 DEF Once
        <5> QED
          BY <5>1, <5>2
      <4>2. /\ p1 \in DOMAIN order /\ log[i][j] = order[p1]
            /\ r1 \in DOMAIN order /\ log[i][k] = order[r1]
        BY <3>2, <4>1
      <4> QED
        BY <3>2, <4>2 DEF LogFollows
    <3>3. ASSUME NEW i \in SubIds
          PROVE  /\ \A j \in DOMAIN log'[i] : \E p1 \in 1 .. Reached(i)' :
                       log'[i][j] = order'[p1]
                 /\ \A j, k \in DOMAIN log'[i], p1, r1 \in DOMAIN order' :
                       j < k /\ log'[i][j] = order'[p1] /\ log'[i][k] = order'[r1]
                          => p1 < r1
      <4>1. log'[i] = log[i] /\ Reached(i)' = Reached(i)
        BY <1>3, <2>1
      <4> HIDE DEF Reached
      <4>2. \A j \in DOMAIN log[i] : \E p1 \in 1 .. Reached(i) : log[i][j] = order'[p1]
        BY <3>1
      <4>3. \A j, k \in DOMAIN log[i], p1, r1 \in DOMAIN order' :
               j < k /\ log[i][j] = order'[p1] /\ log[i][k] = order'[r1] => p1 < r1
        BY <3>2
      <4> QED
        BY <4>1, <4>2, <4>3
    <3> QED
      BY <3>3 DEF LogFollows
  <2>7. LogComplete'
    <3>1. ASSUME NEW i \in SubIds, NEW x \in due'[i]
          PROVE  \E p1 \in DOMAIN order' : x = order'[p1]
      <4>1. CASE x = e
        BY <1>4, <2>5, <4>1
      <4>2. CASE x \in due[i]
        BY <2>5, <4>2 DEF LogComplete
      <4> QED
        BY <2>1, <2>2, <3>1, <4>1, <4>2
    <3>2. ASSUME NEW i \in SubIds, cutoff[i] = {}, NEW p1 \in 1 .. Reached(i),
                 order'[p1] \in due'[i]
          PROVE  \E j \in DOMAIN log[i] : log[i][j] = order'[p1]
      <4>1. p1 \in DOMAIN order /\ order'[p1] = order[p1] /\ order[p1] # e
        BY <1>5, <2>3, <2>5
      <4>2. order[p1] \in due[i]
        BY <2>1, <2>2, <3>2, <4>1
      <4> QED
        BY <3>2, <4>1, <4>2 DEF LogComplete
    <3> QED
      BY <1>3, <2>1, <3>1, <3>2 DEF LogComplete
  <2> QED
    BY <1>8, <2>1, <2>6, <2>7
<1>10. ASSUME NEW i \in SubIds, Unsubscribe(i)
       PROVE  LogFollows' /\ LogComplete' /\ LateInv'
  <2>1. /\ UNCHANGED <<log, order, due, dpc, snap>>
        /\ cutoff' = [cutoff EXCEPT ![i] = {Len(log[i])}]
    BY <1>10 DEF Unsubscribe, dispatchVars
  <2>2. \A m \in SubIds : cutoff'[m] = {} => cutoff[m] = {}
    BY <1>4, <2>1
  <2>3. LogComplete'
    BY <1>3, <2>1, <2>2 DEF LogComplete
  <2>4. Len(log[i]) \in Nat
    BY <1>4
  <2>5. \A m \in SubIds : \A n \in cutoff'[m] : n \in cutoff[m] \/ (m = i /\ n = Len(log[i]))
    BY <1>4, <2>1
  <2>6. LateInv'
    BY <2>1, <2>4, <2>5 DEF LateInv, InSnap
  <2> QED
    BY <1>6, <2>1, <2>3, <2>6
<1>11. ASSUME NEW p \in Producers,
              PublishDrops(p) \/ PublishEnqueues(p) \/ PublishSignals(p)
       PROVE  LogFollows' /\ LogComplete' /\ LateInv'
  <2>1. UNCHANGED <<log, order, due, cutoff, dpc, snap>>
    BY <1>11 DEF PublishDrops, PublishEnqueues, PublishSignals, dispatchVars, ghostVars
  <2> QED
    BY <1>6, <1>7, <1>8, <2>1
<1>12. ASSUME NEW f \in Filters, Subscribe(f)
       PROVE  LogFollows' /\ LogComplete' /\ LateInv'
  BY <1>6, <1>7, <1>8, <1>12 DEF Subscribe, dispatchVars, ghostVars
<1>13. CASE \/ DispatchTests \/ DispatchWakes \/ DispatchTimesOut \/ DispatchFindsEmpty
            \/ DispatchTakes \/ DispatchReleases \/ DeliverEnds
            \/ Start \/ StopBegins \/ StopRequests \/ StopReleases \/ StopJoins
            \/ UNCHANGED vars
  <2>1. /\ UNCHANGED <<log, order, due, cutoff>>
        /\ dpc' = "call" => dpc = "call" /\ UNCHANGED snap
    BY <1>13 DEF DispatchTests, DispatchWakes, DispatchTimesOut, DispatchFindsEmpty,
                 DispatchTakes, DispatchReleases, DeliverEnds, Start, StopBegins,
                 StopRequests, StopReleases, StopJoins, vars, dispatchVars, ghostVars
  <2> QED
    BY <1>6, <1>7, <1>8, <2>1
<1> QED
  BY <1>9, <1>10, <1>11, <1>12, <1>13 DEF Next, PublishStep, DispatchStep, StopStep

-----------------------------------------------------------------------------
(* The room in the queue.                                                  *)

\* The dispatch thread occupies a slot while it moves an event out, and no other one does.
InHand == IF dpc = "dequeue" THEN 1 ELSE 0

RoomInv ==
    /\ holds = IF dpc = "dequeue" THEN {Dispatcher} ELSE {}
    /\ Len(q) + InHand <= Capacity
    /\ signal \in Nat /\ starts \in 0 .. MaxStarts

LEMMA OccupiedIs ==
    ASSUME RoomInv
    PROVE  Occupied = Len(q) + InHand
<1>1. Cardinality({}) = 0 /\ Cardinality({Dispatcher}) = 1
  BY FS_EmptySet, FS_Singleton
<1> QED
  BY <1>1 DEF RoomInv, InHand, Occupied

LEMMA NextRoom ==
    ASSUME Typed, StopInv, RoomInv, [Next]_vars
    PROVE  RoomInv'
<1> USE DEF RoomInv, InHand
<1>1. ASSUME NEW p \in Producers, PublishDrops(p) \/ PublishSignals(p) PROVE RoomInv'
  BY <1>1 DEF PublishDrops, PublishSignals, fifoVars, stopVars, dispatchVars
<1>2. ASSUME NEW p \in Producers, PublishClaims(p) PROVE RoomInv'
  <2>1. /\ q \in Seq(Ticket) /\ Capacity \in Nat /\ Len(q) \in Nat
        /\ UNCHANGED <<holds, dpc, signal, starts>>
    BY <1>2, BusAssumption DEF Typed, PublishClaims, Claim, stopVars, dispatchVars
  <2>2. Len(q') = Len(q) + 1
    BY <1>2, <2>1 DEF PublishClaims, Claim
  <2>3. Len(q) + InHand < Capacity
    BY <1>2, OccupiedIs DEF PublishClaims, Claim
  <2> QED
    BY <2>1, <2>2, <2>3
<1>3. ASSUME NEW p \in Producers, PublishEnqueues(p) PROVE RoomInv'
  <2>1. PICK i \in DOMAIN q : q' = [q EXCEPT ![i].by = Ready]
    BY <1>3 DEF PublishEnqueues, Finish, Pending
  <2>2. Len(q') = Len(q)
    BY <2>1 DEF Typed
  <2> QED
    BY <1>3, <2>2 DEF PublishEnqueues, Finish, stopVars, dispatchVars
<1>4. CASE DispatchTakes
  <2>1. Len(q') = Len(q) - 1 /\ Len(q) \in Nat /\ Capacity \in Nat
    BY <1>4, TailFacts, BusAssumption DEF Typed, DispatchTakes, Take, CanTake
  <2>2. dpc = "drain" /\ dpc' = "dequeue" /\ UNCHANGED <<signal, starts>>
    BY <1>4 DEF DispatchTakes, stopVars
  <2>3. holds' = {Dispatcher}
    BY <1>4, <2>2 DEF DispatchTakes, Take
  <2> QED
    BY <2>1, <2>2, <2>3
<1>5. CASE DispatchReleases
  <2>1. holds' = {} /\ UNCHANGED <<q, signal, starts>> /\ dpc = "dequeue" /\ dpc' = "snapshot"
    BY <1>5 DEF DispatchReleases, Release, stopVars
  <2>2. Len(q) \in Nat /\ Capacity \in Nat
    BY BusAssumption DEF Typed
  <2> QED
    BY <2>1, <2>2
<1>6. CASE DispatchTests \/ DispatchWakes \/ DispatchTimesOut \/ DispatchFindsEmpty
  BY <1>6 DEF DispatchTests, DispatchWakes, DispatchTimesOut, DispatchFindsEmpty,
              fifoVars, stopVars
<1>7. CASE DeliverSnapshots \/ DeliverCalls \/ DeliverEnds
  BY <1>7 DEF DeliverSnapshots, DeliverCalls, DeliverEnds, fifoVars, stopVars
<1>8. CASE Start
  <2>1. starts' \in 0 .. MaxStarts
    BY <1>8, BusAssumption DEF Start
  <2>2. dpc # "dequeue" /\ dpc' # "dequeue" /\ UNCHANGED <<q, holds, signal>>
    BY <1>8 DEF Start, StopInv, fifoVars
  <2> QED
    BY <2>1, <2>2
<1>9. CASE StopBegins \/ StopRequests \/ StopReleases
  <2>1. UNCHANGED <<q, holds, dpc, starts>>
    BY <1>9 DEF StopBegins, StopRequests, StopReleases, fifoVars, dispatchVars
  <2>2. signal' = signal \/ signal' = signal + 1
    BY <1>9 DEF StopBegins, StopRequests, StopReleases
  <2> QED
    BY <2>1, <2>2
<1>10. CASE StopJoins
  BY <1>10 DEF StopJoins, fifoVars
<1>11. ASSUME NEW i \in SubIds, Unsubscribe(i) PROVE RoomInv'
  BY <1>11 DEF Unsubscribe, fifoVars, stopVars, dispatchVars
<1>12. ASSUME NEW f \in Filters, Subscribe(f) PROVE RoomInv'
  BY <1>12 DEF Subscribe, fifoVars, stopVars, dispatchVars
<1>13. CASE UNCHANGED vars
  BY <1>13 DEF vars, fifoVars, stopVars, dispatchVars
<1> QED
  BY <1>1, <1>2, <1>3, <1>4, <1>5, <1>6, <1>7, <1>8, <1>9, <1>10, <1>11, <1>12, <1>13
     DEF Next, PublishStep, DispatchStep, StopStep

-----------------------------------------------------------------------------
(* The theorems.                                                           *)

LEMMA Invariance == Spec => []IInv
<1>1. Init => IInv
  BY InitTyped, InitOrder, InitSubs, InitStop, InitLogs DEF IInv
<1>2. IInv /\ [Next]_vars => IInv'
  BY NextTyped, NextOrder, NextSubs, NextPending, NextStop, NextLogs DEF IInv
<1> QED
  BY <1>1, <1>2, PTL DEF Spec

\* The types of queue and bus; the queue, with the slot an event is being moved out of, never
\* holds more than it has room for.
THEOREM BusTypeCorrect == Spec => []TypeOK
<1>1. Init => RoomInv
  BY BusAssumption DEF Init, FifoInit, RoomInv, InHand
<1>2. IInv /\ RoomInv /\ [Next]_vars => RoomInv'
  BY NextRoom DEF IInv
<1>3. IInv /\ RoomInv => TypeOK
  <2>1. ASSUME IInv, RoomInv PROVE Occupied <= Capacity /\ holds \subseteq Consumers
    BY <2>1, OccupiedIs, DispatcherExists DEF RoomInv
  <2> QED
    BY <2>1 DEF IInv, Typed, RoomInv, TypeOK
<1> QED
  BY <1>1, <1>2, <1>3, Invariance, PTL DEF Spec

\* Handlers run in the order of claims and miss nothing, whatever stops and
\* restarts happen in between: LogFollows and LogComplete, read through Position.
THEOREM DeliveryIsOrdered == Spec => []DeliveredInOrder
<1>1. IInv => DeliveredInOrder
  <2> SUFFICES ASSUME IInv, NEW i \in SubIds
               PROVE  /\ \A j, k \in DOMAIN log[i] :
                            j < k => Position(log[i][j]) < Position(log[i][k])
                      /\ cutoff[i] = {} =>
                            \A k \in DOMAIN log[i] : \A e \in due[i] :
                                Position(e) < Position(log[i][k]) =>
                                    \E j \in DOMAIN log[i] : log[i][j] = e
    BY DEF DeliveredInOrder
  <2>1. \A p \in DOMAIN order : Position(order[p]) = p
    BY DEF Position, IInv, OrderInv, Once
  <2>2. /\ Reached(i) \in Nat /\ 1 .. Reached(i) \subseteq DOMAIN order
        /\ DOMAIN order \subseteq Nat \ {0}
    BY ReachedBounds DEF IInv, Typed
  <2>3. ASSUME NEW j \in DOMAIN log[i]
        PROVE  /\ Position(log[i][j]) \in 1 .. Reached(i)
               /\ log[i][j] = order[Position(log[i][j])]
    <3>1. PICK p \in 1 .. Reached(i) : log[i][j] = order[p]
      BY DEF IInv, LogFollows
    <3> QED
      BY <2>1, <2>2, <3>1
  <2>4. ASSUME NEW j \in DOMAIN log[i], NEW k \in DOMAIN log[i], j < k
        PROVE  Position(log[i][j]) < Position(log[i][k])
    BY <2>2, <2>3, <2>4 DEF IInv, LogFollows
  <2>5. ASSUME cutoff[i] = {}, NEW k \in DOMAIN log[i], NEW e \in due[i],
               Position(e) < Position(log[i][k])
        PROVE  \E j \in DOMAIN log[i] : log[i][j] = e
    <3>1. PICK p \in DOMAIN order : e = order[p]
      BY DEF IInv, LogComplete
    <3>2. p \in 1 .. Reached(i)
      BY <2>1, <2>2, <2>3, <2>5, <3>1
    <3> QED
      BY <2>5, <3>1, <3>2 DEF IInv, LogComplete
  <2> QED
    BY <2>4, <2>5
<1> QED
  BY <1>1, Invariance, PTL

\* At most one event reaches a handler after its unsubscribe() returned.
THEOREM LateCallsEnd == Spec => []AtMostOneLateCall
<1>1. IInv => AtMostOneLateCall
  BY DEF IInv, LateInv, AtMostOneLateCall
<1> QED
  BY <1>1, Invariance, PTL

\* A stop() no publish() overlaps leaves no event in the queue.
THEOREM CalmStopDrains == Spec => []StopDrainsWhenCalm
<1>1. IInv => StopDrainsWhenCalm
  BY DEF IInv, StopInv, StopDrainsWhenCalm, Stopped
<1> QED
  BY <1>1, Invariance, PTL

-----------------------------------------------------------------------------
(* The queue: its inductive invariant.                                     *)

QueueTyped ==
    /\ sequence \in [Cells -> Nat]
    /\ data \in [Cells -> Items \cup {Nothing}]
    /\ enqueuePos \in Nat /\ dequeuePos \in Nat
    /\ pc \in [Procs -> {"idle", "seq", "reload", "cas",
                         "write", "publish", "read", "release"}]
    /\ \A p \in Producers : pc[p] \notin {"read", "release"}
    /\ \A c \in Consumers : pc[c] \notin {"write", "publish"}
    /\ pos \in [Procs -> Nat]
    /\ item \in [Producers -> Items \cup {Nothing}]
    /\ \A p \in Producers : pc[p] # "idle" => item[p] \in Items
    /\ out \in [Consumers -> Items \cup {Nothing}]

\* The two positions are never more than a lap apart.
Lap == dequeuePos <= enqueuePos /\ enqueuePos <= dequeuePos + Capacity

\* What a producer knows of its position, claimed or not.
ProducerKnows ==
    \A p \in Producers :
        /\ pos[p] <= enqueuePos
        /\ pc[p] = "cas" /\ pos[p] = enqueuePos =>
               sequence[Cell(enqueuePos)] = enqueuePos
        /\ Owns(p) => /\ dequeuePos <= pos[p] /\ pos[p] < enqueuePos
                      /\ sequence[Cell(pos[p])] = pos[p]
        /\ pc[p] = "publish" => data[Cell(pos[p])] = item[p]

\* What a consumer knows of its position: a claimed one lies at most a lap behind
\* the producers.
ConsumerKnows ==
    \A c \in Consumers :
        /\ pos[c] <= dequeuePos
        /\ pc[c] = "cas" /\ pos[c] = dequeuePos =>
               sequence[Cell(dequeuePos)] = dequeuePos + 1
        /\ Owns(c) => /\ pos[c] < dequeuePos
                      /\ enqueuePos <= pos[c] + Capacity
                      /\ sequence[Cell(pos[c])] = pos[c] + 1

\* A position is claimed by one producer and by one consumer.
ClaimedOnce ==
    /\ \A p, r \in Producers : Owns(p) /\ Owns(r) /\ pos[p] = pos[r] => p = r
    /\ \A c, d \in Consumers : Owns(c) /\ Owns(d) /\ pos[c] = pos[d] => c = d

Reader(t) == {c \in Consumers : Owns(c) /\ pos[c] = t}

\* Position t finds its cell free, or its producer is writing.
CellFree(t) ==
    t < dequeuePos + Capacity /\ (t < enqueuePos => Writer(t) # {})

\* The cell has the item of position t, or its consumer is reading.
CellFull(t) ==
    t < enqueuePos /\ (t < dequeuePos => Reader(t) # {})

\* The sequence number tells in which of the two states a cell is.
CellsTold ==
    \A k \in Cells :
        \/ \E t \in {sequence[k]} : Cell(t) = k /\ CellFree(t)
        \/ \E t \in 0 .. enqueuePos : sequence[k] = t + 1 /\ Cell(t) = k /\ CellFull(t)

QInv == /\ QueueTyped /\ Lap /\ ProducerKnows /\ ConsumerKnows /\ ClaimedOnce
        /\ CellsTold

-----------------------------------------------------------------------------
(* The queue: positions and cells.                                         *)

LEMMA CellBasics ==
    /\ Capacity \in Nat /\ Capacity >= 2
    /\ \A x \in Nat : Cell(x) \in Cells
    /\ \A x \in Cells : x \in Nat /\ Cell(x) = x
<1>1. Capacity \in Nat /\ Capacity >= 2
  BY QueueAssumption
<1>2. ASSUME NEW x \in Nat PROVE Cell(x) \in Cells
  BY <1>1 DEF Cell, Cells
<1>3. ASSUME NEW x \in Cells PROVE x \in Nat /\ Cell(x) = x
  BY <1>1 DEF Cell, Cells
<1> QED
  BY <1>1, <1>2, <1>3

\* Two positions of one cell are at least a lap apart.
LEMMA LapApart ==
    ASSUME NEW x \in Nat, NEW y \in Nat, Cell(x) = Cell(y), x < y
    PROVE  x + Capacity <= y
<1> DEFINE a == x \div Capacity
           b == y \div Capacity
           m == x % Capacity
<1>1. Capacity \in Nat /\ Capacity >= 2
  BY QueueAssumption
<1>2. /\ a \in Nat /\ b \in Nat /\ m \in Nat
      /\ x = Capacity * a + m /\ y = Capacity * b + m
  BY <1>1 DEF Cell
<1> HIDE DEF a, b, m
<1>3. b > a
  BY <1>1, <1>2
<1>4. Capacity * b >= Capacity * (a + 1)
  BY <1>1, <1>2, <1>3
<1>5. Capacity * (a + 1) = Capacity * a + Capacity
  BY <1>1, <1>2
<1> QED
  BY <1>1, <1>2, <1>4, <1>5

LEMMA NextLap ==
    ASSUME NEW x \in Nat
    PROVE  Cell(x + Capacity) = Cell(x)
<1> DEFINE a == x \div Capacity
           b == (x + Capacity) \div Capacity
           m == x % Capacity
           n == (x + Capacity) % Capacity
<1>1. Capacity \in Nat /\ Capacity >= 2
  BY QueueAssumption
<1>2. /\ a \in Nat /\ b \in Nat /\ m \in 0 .. Capacity - 1 /\ n \in 0 .. Capacity - 1
      /\ x = Capacity * a + m /\ x + Capacity = Capacity * b + n
  BY <1>1
<1>3. m = Cell(x) /\ n = Cell(x + Capacity)
  BY DEF Cell
<1> HIDE DEF a, b, m, n
<1>4. ASSUME b > a + 1 PROVE FALSE
  <2>1. Capacity * b >= Capacity * (a + 2)
    BY <1>1, <1>2, <1>4
  <2>2. Capacity * (a + 2) = Capacity * a + Capacity + Capacity
    BY <1>1, <1>2
  <2> QED
    BY <1>1, <1>2, <2>1, <2>2
<1>5. ASSUME b < a + 1 PROVE FALSE
  <2>1. Capacity * b <= Capacity * a
    BY <1>1, <1>2, <1>5
  <2> QED
    BY <1>1, <1>2, <2>1
<1>6. b = a + 1
  BY <1>2, <1>4, <1>5
<1>7. Capacity * b = Capacity * a + Capacity
  BY <1>1, <1>2, <1>6
<1>8. \A u \in Nat : x = u + m /\ x + Capacity = u + Capacity + n => m = n
  BY <1>1, <1>2
<1>9. Capacity * a \in Nat
  BY <1>1, <1>2
<1> QED
  BY <1>2, <1>3, <1>7, <1>8, <1>9

LEMMA NeighbourCells ==
    ASSUME NEW x \in Nat
    PROVE  Cell(x) # Cell(x + 1)
<1>1. Capacity \in Nat /\ Capacity >= 2 /\ x + 1 \in Nat /\ x < x + 1
  BY CellBasics
<1>2. Cell(x) = Cell(x + 1) => x + Capacity <= x + 1
  BY <1>1, LapApart
<1> QED
  BY <1>1, <1>2

\* A producer and a consumer never claim the same cell at the same time.
LEMMA SidesApart ==
    ASSUME QueueTyped, ProducerKnows, ConsumerKnows,
           NEW p \in Producers, NEW c \in Consumers, Owns(p), Owns(c)
    PROVE  Cell(pos[p]) # Cell(pos[c])
<1>1. pos[p] \in Nat /\ pos[c] \in Nat
  BY DEF QueueTyped, Procs
<1>2. sequence[Cell(pos[p])] = pos[p] /\ sequence[Cell(pos[c])] = pos[c] + 1
  BY DEF ProducerKnows, ConsumerKnows
<1> QED
  BY <1>1, <1>2, NeighbourCells

\* Every position between the two is being written or has been.
LEMMA QueueFull ==
    ASSUME QInv, NEW t \in Nat, dequeuePos <= t, t < enqueuePos
    PROVE  Writer(t) # {} \/ (sequence[Cell(t)] = t + 1 /\ Reader(t) = {})
<1> DEFINE s == sequence[Cell(t)]
<1>1. /\ Capacity \in Nat /\ Cell(t) \in Cells /\ s \in Nat
      /\ enqueuePos \in Nat /\ dequeuePos \in Nat /\ enqueuePos <= dequeuePos + Capacity
  BY CellBasics DEF QInv, QueueTyped, Lap
<1>2. Reader(t) = {}
  BY <1>1 DEF Reader, QInv, ConsumerKnows
<1>3. CASE Cell(s) = Cell(t) /\ CellFree(s)
  <2>1. s < dequeuePos + Capacity
    BY <1>3 DEF CellFree
  <2>2. ~(t < s)
    BY <1>1, <1>3, <2>1, LapApart
  <2>3. CASE s < t
    <3>1. s + Capacity <= t
      BY <1>1, <1>3, <2>3, LapApart
    <3>2. s < enqueuePos /\ s < dequeuePos
      BY <1>1, <3>1
    <3>3. PICK p \in Producers : Owns(p) /\ pos[p] = s
      BY <1>3, <3>2 DEF CellFree, Writer
    <3> QED
      BY <1>1, <3>2, <3>3 DEF QInv, ProducerKnows
  <2>4. CASE s = t
    BY <1>3, <2>4 DEF CellFree
  <2> QED
    BY <1>1, <2>2, <2>3, <2>4
<1>4. ASSUME NEW u \in 0 .. enqueuePos, s = u + 1, Cell(u) = Cell(t), CellFull(u)
      PROVE  u = t
  <2>1. u \in Nat /\ u < enqueuePos
    BY <1>1, <1>4 DEF CellFull
  <2>2. ~(t < u)
    BY <1>1, <1>4, <2>1, LapApart
  <2>3. ASSUME u < t PROVE FALSE
    <3>1. u + Capacity <= t
      BY <1>1, <1>4, <2>1, <2>3, LapApart
    <3>2. u < dequeuePos
      BY <1>1, <2>1, <3>1
    <3>3. PICK c \in Consumers : Owns(c) /\ pos[c] = u
      BY <1>4, <3>2 DEF CellFull, Reader
    <3>4. enqueuePos <= u + Capacity
      BY <3>3 DEF QInv, ConsumerKnows
    <3> QED
      BY <1>1, <2>1, <3>1, <3>4
  <2> QED
    BY <1>1, <2>1, <2>2, <2>3
<1> QED
  BY <1>1, <1>2, <1>3, <1>4 DEF QInv, CellsTold

LEMMA InitQueue == QueueInit => QInv
<1> SUFFICES ASSUME QueueInit PROVE QInv
  OBVIOUS
<1>1. \A k \in Cells : k \in Nat /\ Cell(k) = k /\ k < Capacity
  BY CellBasics DEF Cells
<1>2. Capacity \in Nat /\ Procs = Producers \cup Consumers
  BY CellBasics DEF Procs
<1>3. QueueTyped
  BY <1>1, <1>2 DEF QueueInit, QueueTyped
<1>4. \A p \in Procs : ~Owns(p) /\ pc[p] = "idle" /\ pos[p] = 0
  BY DEF QueueInit, Owns
<1>5. Lap /\ ProducerKnows /\ ConsumerKnows /\ ClaimedOnce
  BY <1>2, <1>4 DEF QueueInit, Lap, ProducerKnows, ConsumerKnows, ClaimedOnce
<1>6. CellsTold
  BY <1>1, <1>2 DEF QueueInit, CellsTold, CellFree
<1> QED
  BY <1>3, <1>5, <1>6 DEF QInv

\* The steps that claim, write or publish nothing: they concern the position one
\* call is about to try.
LEMMA LookingIsPrivate ==
    ASSUME QInv, QueueTyped', NEW p \in Procs, ~Owns(p), ~Owns(p)',
           UNCHANGED <<sequence, data, enqueuePos, dequeuePos>>,
           \A r \in Procs : r # p => pc'[r] = pc[r] /\ pos'[r] = pos[r],
           \A r \in Producers : r # p => item'[r] = item[r],
           p \in Producers =>
               /\ pos'[p] <= enqueuePos
               /\ pc'[p] = "cas" /\ pos'[p] = enqueuePos =>
                      sequence[Cell(enqueuePos)] = enqueuePos,
           p \in Consumers =>
               /\ pos'[p] <= dequeuePos
               /\ pc'[p] = "cas" /\ pos'[p] = dequeuePos =>
                      sequence[Cell(dequeuePos)] = dequeuePos + 1
    PROVE  QInv'
<1>0. Producers \subseteq Procs /\ Consumers \subseteq Procs
  BY DEF Procs
<1>1. \A r \in Procs : /\ Owns(r)' <=> Owns(r)
                       /\ Owns(r) => pos'[r] = pos[r]
  BY DEF Owns
<1>2. Lap'
  BY DEF Lap, QInv
<1>3. ProducerKnows'
  <2> SUFFICES ASSUME NEW r \in Producers
               PROVE /\ pos'[r] <= enqueuePos
                     /\ pc'[r] = "cas" /\ pos'[r] = enqueuePos =>
                            sequence[Cell(enqueuePos)] = enqueuePos
                     /\ Owns(r)' => /\ dequeuePos <= pos'[r] /\ pos'[r] < enqueuePos
                                    /\ sequence[Cell(pos'[r])] = pos'[r]
                     /\ pc'[r] = "publish" => data[Cell(pos'[r])] = item'[r]
    BY DEF ProducerKnows
  <2>1. CASE r = p
    BY <2>1 DEF Owns
  <2>2. CASE r # p
    BY <1>0, <1>1, <2>2 DEF QInv, ProducerKnows
  <2> QED
    BY <2>1, <2>2
<1>4. ConsumerKnows'
  <2> SUFFICES ASSUME NEW r \in Consumers
               PROVE /\ pos'[r] <= dequeuePos
                     /\ pc'[r] = "cas" /\ pos'[r] = dequeuePos =>
                            sequence[Cell(dequeuePos)] = dequeuePos + 1
                     /\ Owns(r)' => /\ pos'[r] < dequeuePos
                                    /\ enqueuePos <= pos'[r] + Capacity
                                    /\ sequence[Cell(pos'[r])] = pos'[r] + 1
    BY DEF ConsumerKnows
  <2>1. CASE r = p
    BY <2>1 DEF Owns
  <2>2. CASE r # p
    BY <1>0, <1>1, <2>2 DEF QInv, ConsumerKnows
  <2> QED
    BY <2>1, <2>2
<1>5. ClaimedOnce'
  BY <1>0, <1>1 DEF QInv, ClaimedOnce
<1>6. \A t : Writer(t)' = Writer(t) /\ Reader(t)' = Reader(t)
  BY <1>0, <1>1 DEF Writer, Reader
<1>7. CellsTold'
  BY <1>6 DEF QInv, CellsTold, CellFree, CellFull
<1> QED
  BY <1>2, <1>3, <1>4, <1>5, <1>7 DEF QInv

LEMMA NextQueueTyped ==
    ASSUME QInv, [QueueNext]_queueVars
    PROVE  QueueTyped'
<1> USE DEF QueueTyped, QInv
<1>0. /\ Producers \subseteq Procs /\ Consumers \subseteq Procs
      /\ \A p \in Producers : p \notin Consumers
      /\ \A x \in Nat : Cell(x) \in Cells
      /\ Capacity \in Nat
  BY CellBasics, PartiesAssumption DEF Procs
<1>1. ASSUME NEW p \in Producers, NEW v \in Items, EnqStart(p, v)
      PROVE  QueueTyped'
  BY <1>0, <1>1 DEF EnqStart, Goto
<1>2. ASSUME NEW p \in Producers, EnqReadSeq(p)
      PROVE  QueueTyped'
  BY <1>0, <1>2 DEF EnqReadSeq, Goto
<1>3. ASSUME NEW p \in Producers, EnqReload(p) \/ EnqCasFails(p)
      PROVE  QueueTyped'
  BY <1>0, <1>3 DEF EnqReload, EnqCasFails, Goto
<1>4. ASSUME NEW p \in Producers, EnqCas(p)
      PROVE  QueueTyped'
  BY <1>0, <1>4 DEF EnqCas, Goto
<1>5. ASSUME NEW p \in Producers, EnqWrite(p)
      PROVE  QueueTyped'
  BY <1>0, <1>5 DEF EnqWrite, Goto
<1>6. ASSUME NEW p \in Producers, EnqPublish(p)
      PROVE  QueueTyped'
  BY <1>0, <1>6 DEF EnqPublish, Goto
<1>7. ASSUME NEW c \in Consumers, DeqStart(c) \/ DeqReload(c) \/ DeqCasFails(c)
      PROVE  QueueTyped'
  BY <1>0, <1>7 DEF DeqStart, DeqReload, DeqCasFails, Goto
<1>8. ASSUME NEW c \in Consumers, DeqReadSeq(c)
      PROVE  QueueTyped'
  BY <1>0, <1>8 DEF DeqReadSeq, Goto
<1>9. ASSUME NEW c \in Consumers, DeqCas(c)
      PROVE  QueueTyped'
  BY <1>0, <1>9 DEF DeqCas, Goto
<1>10. ASSUME NEW c \in Consumers, DeqRead(c)
       PROVE  QueueTyped'
  BY <1>0, <1>10 DEF DeqRead, Goto
<1>11. ASSUME NEW c \in Consumers, DeqRelease(c)
       PROVE  QueueTyped'
  BY <1>0, <1>11 DEF DeqRelease, Goto
<1>12. CASE UNCHANGED queueVars
  BY <1>12 DEF queueVars
<1> QED
  BY <1>1, <1>2, <1>3, <1>4, <1>5, <1>6, <1>7, <1>8, <1>9, <1>10, <1>11, <1>12
  DEF QueueNext, EnqStep, DeqStep

Looks(p) ==
    \/ /\ p \in Producers
       /\ \/ \E v \in Items : EnqStart(p, v)
          \/ EnqReadSeq(p) \/ EnqReload(p) \/ EnqCasFails(p)
    \/ /\ p \in Consumers
       /\ DeqStart(p) \/ DeqReadSeq(p) \/ DeqReload(p) \/ DeqCasFails(p)

\* What such a step leaves alone.
LEMMA LooksChange ==
    ASSUME QueueTyped, NEW p \in Procs, Looks(p)
    PROVE  /\ ~Owns(p) /\ ~Owns(p)'
           /\ UNCHANGED <<sequence, data, enqueuePos, dequeuePos, out>>
           /\ \A r \in Procs : r # p => pc'[r] = pc[r] /\ pos'[r] = pos[r]
           /\ \A r \in Producers : r # p => item'[r] = item[r]
<1> USE DEF QueueTyped
<1>0. Producers \subseteq Procs /\ Consumers \subseteq Procs
  BY DEF Procs
<1>1. ASSUME p \in Producers, NEW v \in Items, EnqStart(p, v)
      PROVE  /\ ~Owns(p) /\ ~Owns(p)'
             /\ UNCHANGED <<sequence, data, enqueuePos, dequeuePos, out>>
             /\ \A r \in Procs : r # p => pc'[r] = pc[r] /\ pos'[r] = pos[r]
             /\ \A r \in Producers : r # p => item'[r] = item[r]
  BY <1>1 DEF EnqStart, Goto, Owns
<1>2. CASE p \in Producers /\ EnqReadSeq(p)
  BY <1>2 DEF EnqReadSeq, Goto, Owns
<1>3. CASE p \in Producers /\ (EnqReload(p) \/ EnqCasFails(p))
  BY <1>3 DEF EnqReload, EnqCasFails, Goto, Owns
<1>4. CASE p \in Consumers /\ (DeqStart(p) \/ DeqReload(p) \/ DeqCasFails(p))
  BY <1>4 DEF DeqStart, DeqReload, DeqCasFails, Goto, Owns
<1>5. CASE p \in Consumers /\ DeqReadSeq(p)
  BY <1>5 DEF DeqReadSeq, Goto, Owns
<1> QED
  BY <1>1, <1>2, <1>3, <1>4, <1>5 DEF Looks

LEMMA LooksKeeps ==
    ASSUME QInv, QueueTyped', NEW p \in Procs, Looks(p)
    PROVE  QInv'
<1>0. /\ Producers \subseteq Procs /\ Consumers \subseteq Procs
      /\ enqueuePos \in Nat /\ dequeuePos \in Nat
      /\ pc \in [Procs -> {"idle", "seq", "reload", "cas",
                           "write", "publish", "read", "release"}]
      /\ pos \in [Procs -> Nat]
      /\ p \in Producers => p \notin Consumers
  BY PartiesAssumption DEF Procs, QInv, QueueTyped
<1>1. p \in Producers =>
          /\ pos'[p] <= enqueuePos
          /\ pc'[p] = "cas" /\ pos'[p] = enqueuePos =>
                 sequence[Cell(enqueuePos)] = enqueuePos
  <2> SUFFICES ASSUME p \in Producers
               PROVE  /\ pos'[p] <= enqueuePos
                      /\ pc'[p] = "cas" /\ pos'[p] = enqueuePos =>
                             sequence[Cell(enqueuePos)] = enqueuePos
    OBVIOUS
  <2>1. CASE EnqReadSeq(p)
    BY <1>0, <2>1 DEF EnqReadSeq, Goto, QInv, ProducerKnows
  <2>2. ASSUME NEW v \in Items, EnqStart(p, v)
        PROVE  pos'[p] <= enqueuePos /\ pc'[p] # "cas"
    BY <1>0, <2>2 DEF EnqStart, Goto
  <2>3. CASE EnqReload(p) \/ EnqCasFails(p)
    BY <1>0, <2>3 DEF EnqReload, EnqCasFails, Goto
  <2> QED
    BY <1>0, <2>1, <2>2, <2>3 DEF Looks
<1>2. p \in Consumers =>
          /\ pos'[p] <= dequeuePos
          /\ pc'[p] = "cas" /\ pos'[p] = dequeuePos =>
                 sequence[Cell(dequeuePos)] = dequeuePos + 1
  <2> SUFFICES ASSUME p \in Consumers
               PROVE  /\ pos'[p] <= dequeuePos
                      /\ pc'[p] = "cas" /\ pos'[p] = dequeuePos =>
                             sequence[Cell(dequeuePos)] = dequeuePos + 1
    OBVIOUS
  <2>1. CASE DeqReadSeq(p)
    BY <1>0, <2>1 DEF DeqReadSeq, Goto, QInv, ConsumerKnows
  <2>2. CASE DeqStart(p) \/ DeqReload(p) \/ DeqCasFails(p)
    BY <1>0, <2>2 DEF DeqStart, DeqReload, DeqCasFails, Goto
  <2> QED
    BY <1>0, <2>1, <2>2 DEF Looks
<1>3. QueueTyped
  BY DEF QInv
<1> QED
  BY <1>1, <1>2, <1>3, LooksChange, LookingIsPrivate

LEMMA EnqCasKeeps ==
    ASSUME QInv, QueueTyped', NEW p \in Producers, EnqCas(p)
    PROVE  QInv'
<1>0. /\ Producers \subseteq Procs /\ Consumers \subseteq Procs
      /\ \A c \in Consumers : c # p
      /\ enqueuePos \in Nat /\ dequeuePos \in Nat
      /\ pc \in [Procs -> {"idle", "seq", "reload", "cas",
                           "write", "publish", "read", "release"}]
      /\ pos \in [Procs -> Nat] /\ sequence \in [Cells -> Nat]
      /\ Capacity \in Nat /\ Capacity >= 2
  BY CellBasics, PartiesAssumption DEF Procs, QInv, QueueTyped
<1>1. /\ pc[p] = "cas" /\ pos[p] = enqueuePos /\ enqueuePos' = enqueuePos + 1
      /\ pc' = [pc EXCEPT ![p] = "write"]
      /\ UNCHANGED <<sequence, data, dequeuePos, pos, item, out>>
  BY DEF EnqCas, Goto
<1>2. sequence[Cell(enqueuePos)] = enqueuePos /\ Cell(enqueuePos) \in Cells
  BY <1>0, <1>1, CellBasics DEF QInv, ProducerKnows
<1>3. /\ ~Owns(p) /\ Owns(p)'
      /\ \A r \in Procs : r # p => (Owns(r)' <=> Owns(r)) /\ pc'[r] = pc[r]
  BY <1>0, <1>1 DEF Owns
<1>4. enqueuePos < dequeuePos + Capacity
  <2>1. CASE CellFree(enqueuePos)
    BY <2>1 DEF CellFree
  <2>2. ASSUME NEW t \in 0 .. enqueuePos, enqueuePos = t + 1, Cell(t) = Cell(enqueuePos)
        PROVE  FALSE
    BY <1>0, <2>2, NeighbourCells
  <2> QED
    BY <1>2, <2>1, <2>2 DEF QInv, CellsTold
<1>5. Lap'
  BY <1>0, <1>1, <1>4 DEF QInv, Lap
<1>6. ProducerKnows'
  <2> SUFFICES ASSUME NEW r \in Producers
               PROVE /\ pos[r] <= enqueuePos + 1
                     /\ pc'[r] = "cas" /\ pos[r] = enqueuePos + 1 =>
                            sequence[Cell(enqueuePos + 1)] = enqueuePos + 1
                     /\ Owns(r)' => /\ dequeuePos <= pos[r] /\ pos[r] < enqueuePos + 1
                                    /\ sequence[Cell(pos[r])] = pos[r]
                     /\ pc'[r] = "publish" => data[Cell(pos[r])] = item[r]
    BY <1>1 DEF ProducerKnows
  <2>1. pos[r] <= enqueuePos /\ pos[r] \in Nat
    BY <1>0 DEF QInv, ProducerKnows
  <2>2. Owns(r)' => /\ dequeuePos <= pos[r] /\ pos[r] < enqueuePos + 1
                    /\ sequence[Cell(pos[r])] = pos[r]
    <3>1. CASE r = p
      BY <1>0, <1>1, <1>2, <3>1 DEF QInv, Lap
    <3>2. CASE r # p
      BY <1>0, <1>3, <2>1, <3>2 DEF QInv, ProducerKnows
    <3> QED
      BY <3>1, <3>2
  <2>3. pc'[r] = "publish" => data[Cell(pos[r])] = item[r]
    BY <1>0, <1>1 DEF QInv, ProducerKnows
  <2> QED
    BY <1>0, <2>1, <2>2, <2>3
<1>7. ConsumerKnows'
  <2> SUFFICES ASSUME NEW c \in Consumers
               PROVE /\ pos[c] <= dequeuePos
                     /\ pc'[c] = "cas" /\ pos[c] = dequeuePos =>
                            sequence[Cell(dequeuePos)] = dequeuePos + 1
                     /\ Owns(c)' => /\ pos[c] < dequeuePos
                                    /\ enqueuePos + 1 <= pos[c] + Capacity
                                    /\ sequence[Cell(pos[c])] = pos[c] + 1
    BY <1>1 DEF ConsumerKnows
  <2>1. pc'[c] = pc[c] /\ (Owns(c)' <=> Owns(c)) /\ pos[c] \in Nat
    BY <1>0, <1>3
  <2>2. ASSUME Owns(c) PROVE enqueuePos # pos[c] + Capacity
    <3>1. sequence[Cell(pos[c])] = pos[c] + 1 /\ Cell(pos[c] + Capacity) = Cell(pos[c])
      BY <2>1, <2>2, NextLap DEF QInv, ConsumerKnows
    <3> QED
      BY <1>0, <1>2, <2>1, <3>1
  <2> QED
    BY <1>0, <2>1, <2>2 DEF QInv, ConsumerKnows
<1>8. ClaimedOnce'
  <2>1. \A r \in Producers : Owns(r) => pos[r] # enqueuePos
    BY <1>0 DEF QInv, ProducerKnows
  <2> QED
    BY <1>0, <1>1, <1>3, <2>1 DEF QInv, ClaimedOnce
<1>9. CellsTold'
  <2>1. /\ \A t : Writer(t) \subseteq Writer(t)' /\ Reader(t)' = Reader(t)
    BY <1>0, <1>1, <1>3 DEF Writer, Reader
  <2>2. ASSUME NEW k \in Cells PROVE sequence[k] \in Nat
    BY <1>0
  <2>5. \A t : t = enqueuePos => p \in Writer(t)'
    BY <1>0, <1>1, <1>3 DEF Writer
  <2>3. \A t \in Nat : CellFree(t) => CellFree(t)'
    <3>1. \A t \in Nat : t < enqueuePos + 1 => t < enqueuePos \/ t = enqueuePos
      BY <1>0
    <3> QED
      BY <1>1, <2>1, <2>5, <3>1 DEF CellFree
  <2>4. \A t \in Nat : CellFull(t) => CellFull(t)'
    BY <1>0, <1>1, <2>1 DEF CellFull
  <2> QED
    BY <1>0, <1>1, <2>2, <2>3, <2>4 DEF QInv, CellsTold
<1> QED
  BY <1>5, <1>6, <1>7, <1>8, <1>9 DEF QInv

LEMMA DeqCasKeeps ==
    ASSUME QInv, QueueTyped', NEW c \in Consumers, DeqCas(c)
    PROVE  QInv'
<1>0. /\ Producers \subseteq Procs /\ Consumers \subseteq Procs
      /\ \A p \in Producers : p # c
      /\ enqueuePos \in Nat /\ dequeuePos \in Nat
      /\ pc \in [Procs -> {"idle", "seq", "reload", "cas",
                           "write", "publish", "read", "release"}]
      /\ pos \in [Procs -> Nat] /\ sequence \in [Cells -> Nat]
      /\ Capacity \in Nat /\ Capacity >= 2
  BY CellBasics, PartiesAssumption DEF Procs, QInv, QueueTyped
<1>1. /\ pc[c] = "cas" /\ pos[c] = dequeuePos /\ dequeuePos' = dequeuePos + 1
      /\ pc' = [pc EXCEPT ![c] = "read"]
      /\ UNCHANGED <<sequence, data, enqueuePos, pos, item, out>>
  BY DEF DeqCas, Goto
<1>2. sequence[Cell(dequeuePos)] = dequeuePos + 1 /\ Cell(dequeuePos) \in Cells
  BY <1>0, <1>1, CellBasics DEF QInv, ConsumerKnows
<1>3. /\ ~Owns(c) /\ Owns(c)'
      /\ \A r \in Procs : r # c => (Owns(r)' <=> Owns(r)) /\ pc'[r] = pc[r]
  BY <1>0, <1>1 DEF Owns
<1>4. dequeuePos < enqueuePos
  <2>1. Cell(dequeuePos + 1) # Cell(dequeuePos)
    BY <1>0, NeighbourCells
  <2>2. \E t \in 0 .. enqueuePos : dequeuePos + 1 = t + 1 /\ CellFull(t)
    BY <1>2, <2>1 DEF QInv, CellsTold
  <2> QED
    BY <1>0, <2>2 DEF CellFull
<1>5. Lap'
  BY <1>0, <1>1, <1>4 DEF QInv, Lap
<1>6. ProducerKnows'
  <2> SUFFICES ASSUME NEW r \in Producers
               PROVE /\ pos[r] <= enqueuePos
                     /\ pc'[r] = "cas" /\ pos[r] = enqueuePos =>
                            sequence[Cell(enqueuePos)] = enqueuePos
                     /\ Owns(r)' => /\ dequeuePos + 1 <= pos[r] /\ pos[r] < enqueuePos
                                    /\ sequence[Cell(pos[r])] = pos[r]
                     /\ pc'[r] = "publish" => data[Cell(pos[r])] = item[r]
    BY <1>1 DEF ProducerKnows
  <2>1. pc'[r] = pc[r] /\ (Owns(r)' <=> Owns(r)) /\ pos[r] \in Nat
    BY <1>0, <1>3
  <2>2. ASSUME Owns(r) PROVE pos[r] # dequeuePos
    BY <1>0, <1>2, <2>2 DEF QInv, ProducerKnows
  <2> QED
    BY <1>0, <2>1, <2>2 DEF QInv, ProducerKnows
<1>7. ConsumerKnows'
  <2> SUFFICES ASSUME NEW r \in Consumers
               PROVE /\ pos[r] <= dequeuePos + 1
                     /\ pc'[r] = "cas" /\ pos[r] = dequeuePos + 1 =>
                            sequence[Cell(dequeuePos + 1)] = dequeuePos + 1 + 1
                     /\ Owns(r)' => /\ pos[r] < dequeuePos + 1
                                    /\ enqueuePos <= pos[r] + Capacity
                                    /\ sequence[Cell(pos[r])] = pos[r] + 1
    BY <1>1 DEF ConsumerKnows
  <2>1. pos[r] <= dequeuePos /\ pos[r] \in Nat
    BY <1>0 DEF QInv, ConsumerKnows
  <2>2. Owns(r)' => /\ pos[r] < dequeuePos + 1
                    /\ enqueuePos <= pos[r] + Capacity
                    /\ sequence[Cell(pos[r])] = pos[r] + 1
    <3>1. CASE r = c
      BY <1>0, <1>1, <1>2, <3>1 DEF QInv, Lap
    <3>2. CASE r # c
      BY <1>0, <1>3, <2>1, <3>2 DEF QInv, ConsumerKnows
    <3> QED
      BY <3>1, <3>2
  <2> QED
    BY <1>0, <2>1, <2>2
<1>8. ClaimedOnce'
  <2>1. \A r \in Consumers : Owns(r) => pos[r] # dequeuePos
    BY <1>0 DEF QInv, ConsumerKnows
  <2> QED
    BY <1>0, <1>1, <1>3, <2>1 DEF QInv, ClaimedOnce
<1>9. CellsTold'
  <2>1. /\ \A t : Reader(t) \subseteq Reader(t)' /\ Writer(t)' = Writer(t)
    BY <1>0, <1>1, <1>3 DEF Writer, Reader
  <2>5. \A t : t = dequeuePos => c \in Reader(t)'
    BY <1>0, <1>1, <1>3 DEF Reader
  <2>2. ASSUME NEW k \in Cells PROVE sequence[k] \in Nat
    BY <1>0
  <2>3. \A t \in Nat : CellFree(t) => CellFree(t)'
    BY <1>0, <1>1, <2>1 DEF CellFree
  <2>4. \A t \in Nat : CellFull(t) => CellFull(t)'
    <3>1. \A t \in Nat : t < dequeuePos + 1 => t < dequeuePos \/ t = dequeuePos
      BY <1>0
    <3> QED
      BY <1>1, <2>1, <2>5, <3>1 DEF CellFull
  <2> QED
    BY <1>0, <1>1, <2>2, <2>3, <2>4 DEF QInv, CellsTold
<1> QED
  BY <1>5, <1>6, <1>7, <1>8, <1>9 DEF QInv

LEMMA EnqPublishKeeps ==
    ASSUME QInv, QueueTyped', NEW p \in Producers, EnqPublish(p)
    PROVE  QInv'
<1>0. /\ Producers \subseteq Procs /\ Consumers \subseteq Procs
      /\ \A c \in Consumers : c # p
      /\ enqueuePos \in Nat /\ dequeuePos \in Nat
      /\ pc \in [Procs -> {"idle", "seq", "reload", "cas",
                           "write", "publish", "read", "release"}]
      /\ pos \in [Procs -> Nat] /\ sequence \in [Cells -> Nat]
      /\ Capacity \in Nat /\ Capacity >= 2
  BY CellBasics, PartiesAssumption DEF Procs, QInv, QueueTyped
<1>1. /\ pc[p] = "publish"
      /\ sequence' = [sequence EXCEPT ![Cell(pos[p])] = pos[p] + 1]
      /\ pc' = [pc EXCEPT ![p] = "idle"]
      /\ UNCHANGED <<data, enqueuePos, dequeuePos, pos, item, out>>
  BY DEF EnqPublish, Goto
<1> DEFINE t == pos[p]
<1>2. /\ t \in Nat /\ t < enqueuePos /\ dequeuePos <= t /\ sequence[Cell(t)] = t
      /\ Cell(t) \in Cells /\ Owns(p)
  BY <1>0, <1>1, CellBasics DEF QInv, ProducerKnows, Owns
<1>3. /\ ~Owns(p)'
      /\ \A r \in Procs : r # p => (Owns(r)' <=> Owns(r)) /\ pc'[r] = pc[r]
  BY <1>0, <1>1 DEF Owns
<1>4. /\ \A x \in Nat : Cell(x) # Cell(t) => sequence'[Cell(x)] = sequence[Cell(x)]
      /\ sequence'[Cell(t)] = t + 1
  BY <1>0, <1>1, <1>2, CellBasics
<1>5. Lap'
  BY <1>0, <1>1 DEF QInv, Lap
<1>6. ProducerKnows'
  <2> SUFFICES ASSUME NEW r \in Producers
               PROVE /\ pos[r] <= enqueuePos
                     /\ pc'[r] = "cas" /\ pos[r] = enqueuePos =>
                            sequence'[Cell(enqueuePos)] = enqueuePos
                     /\ Owns(r)' => /\ dequeuePos <= pos[r] /\ pos[r] < enqueuePos
                                    /\ sequence'[Cell(pos[r])] = pos[r]
                     /\ pc'[r] = "publish" => data[Cell(pos[r])] = item[r]
    BY <1>1 DEF ProducerKnows
  <2>1. pos[r] <= enqueuePos /\ pos[r] \in Nat
    BY <1>0 DEF QInv, ProducerKnows
  <2>2. CASE r = p
    BY <1>0, <1>1, <1>3, <2>1, <2>2
  <2>3. CASE r # p
    <3>1. pc'[r] = pc[r] /\ (Owns(r)' <=> Owns(r))
      BY <1>0, <1>3, <2>3
    <3>2. ASSUME Owns(r) PROVE sequence'[Cell(pos[r])] = pos[r]
      <4>1. sequence[Cell(pos[r])] = pos[r] /\ pos[r] # t
        BY <1>2, <2>3, <3>2 DEF QInv, ProducerKnows, ClaimedOnce
      <4> QED
        BY <1>2, <1>4, <2>1, <4>1
    <3>3. ASSUME pc[r] = "cas", pos[r] = enqueuePos
          PROVE  sequence'[Cell(enqueuePos)] = enqueuePos
      <4>1. sequence[Cell(enqueuePos)] = enqueuePos
        BY <3>3 DEF QInv, ProducerKnows
      <4> QED
        BY <1>0, <1>2, <1>4, <4>1
    <3> QED
      BY <2>1, <3>1, <3>2, <3>3 DEF QInv, ProducerKnows
  <2> QED
    BY <2>2, <2>3
<1>7. ConsumerKnows'
  <2> SUFFICES ASSUME NEW c \in Consumers
               PROVE /\ pos[c] <= dequeuePos
                     /\ pc'[c] = "cas" /\ pos[c] = dequeuePos =>
                            sequence'[Cell(dequeuePos)] = dequeuePos + 1
                     /\ Owns(c)' => /\ pos[c] < dequeuePos
                                    /\ enqueuePos <= pos[c] + Capacity
                                    /\ sequence'[Cell(pos[c])] = pos[c] + 1
    BY <1>1 DEF ConsumerKnows
  <2>1. pc'[c] = pc[c] /\ (Owns(c)' <=> Owns(c)) /\ pos[c] \in Nat
    BY <1>0, <1>3
  <2>2. ASSUME Owns(c) PROVE sequence'[Cell(pos[c])] = pos[c] + 1
    <3>1. Cell(pos[c]) # Cell(t) /\ sequence[Cell(pos[c])] = pos[c] + 1
      BY <1>2, <2>2, SidesApart DEF QInv, ConsumerKnows
    <3> QED
      BY <1>4, <2>1, <3>1
  <2>3. ASSUME pc[c] = "cas", pos[c] = dequeuePos
        PROVE  sequence'[Cell(dequeuePos)] = dequeuePos + 1
    <3>1. sequence[Cell(dequeuePos)] = dequeuePos + 1
      BY <2>3 DEF QInv, ConsumerKnows
    <3>2. Cell(dequeuePos) # Cell(t)
      <4>1. Cell(dequeuePos) = Cell(t) => t = dequeuePos + 1
        BY <1>2, <3>1
      <4> QED
        BY <1>0, <1>2, <4>1, NeighbourCells
    <3> QED
      BY <1>0, <1>4, <3>1, <3>2
  <2> QED
    BY <2>1, <2>2, <2>3 DEF QInv, ConsumerKnows
<1>8. ClaimedOnce'
  BY <1>0, <1>1, <1>3 DEF QInv, ClaimedOnce
<1>9. CellsTold'
  <2>1. /\ \A x : x # t => Writer(x)' = Writer(x)
        /\ \A x : Reader(x)' = Reader(x)
    BY <1>0, <1>1, <1>3 DEF Writer, Reader
  <2> SUFFICES ASSUME NEW k \in Cells
               PROVE  \/ \E x \in {sequence'[k]} : Cell(x) = k /\ CellFree(x)'
                      \/ \E x \in 0 .. enqueuePos :
                            sequence'[k] = x + 1 /\ Cell(x) = k /\ CellFull(x)'
    BY <1>1 DEF CellsTold
  <2>2. CASE k = Cell(t)
    <3>1. sequence'[k] = t + 1 /\ t \in 0 .. enqueuePos
      BY <1>0, <1>2, <1>4, <2>2
    <3>2. \A x : x = t => CellFull(x)'
      BY <1>0, <1>1, <1>2 DEF CellFull
    <3> QED
      BY <2>2, <3>1, <3>2
  <2>3. CASE k # Cell(t)
    <3>1. sequence'[k] = sequence[k] /\ sequence[k] \in Nat
      BY <1>0, <1>1, <2>3
    <3>2. ASSUME NEW x \in {sequence[k]}, Cell(x) = k, CellFree(x)
          PROVE  CellFree(x)'
      <4>1. x # t
        BY <2>3, <3>2
      <4> QED
        BY <1>1, <2>1, <3>2, <4>1 DEF CellFree
    <3>3. ASSUME NEW x \in 0 .. enqueuePos, sequence[k] = x + 1, Cell(x) = k, CellFull(x)
          PROVE  CellFull(x)'
      BY <1>1, <2>1, <3>3 DEF CellFull
    <3> QED
      BY <3>1, <3>2, <3>3 DEF QInv, CellsTold
  <2> QED
    BY <2>2, <2>3
<1> QED
  BY <1>5, <1>6, <1>7, <1>8, <1>9 DEF QInv

LEMMA DeqReleaseKeeps ==
    ASSUME QInv, QueueTyped', NEW c \in Consumers, DeqRelease(c)
    PROVE  QInv'
<1>0. /\ Producers \subseteq Procs /\ Consumers \subseteq Procs
      /\ \A p \in Producers : p # c
      /\ enqueuePos \in Nat /\ dequeuePos \in Nat
      /\ pc \in [Procs -> {"idle", "seq", "reload", "cas",
                           "write", "publish", "read", "release"}]
      /\ pos \in [Procs -> Nat] /\ sequence \in [Cells -> Nat]
      /\ Capacity \in Nat /\ Capacity >= 2
  BY CellBasics, PartiesAssumption DEF Procs, QInv, QueueTyped
<1>1. /\ pc[c] = "release"
      /\ sequence' = [sequence EXCEPT ![Cell(pos[c])] = pos[c] + Capacity]
      /\ pc' = [pc EXCEPT ![c] = "idle"]
      /\ UNCHANGED <<data, enqueuePos, dequeuePos, pos, item, out>>
  BY DEF DeqRelease, Goto
<1> DEFINE t == pos[c]
<1>2. /\ t \in Nat /\ t < dequeuePos /\ enqueuePos <= t + Capacity
      /\ sequence[Cell(t)] = t + 1
      /\ Cell(t) \in Cells /\ Owns(c)
  BY <1>0, <1>1, CellBasics DEF QInv, ConsumerKnows, Owns
<1>3. /\ ~Owns(c)'
      /\ \A r \in Procs : r # c => (Owns(r)' <=> Owns(r)) /\ pc'[r] = pc[r]
  BY <1>0, <1>1 DEF Owns
<1>4. /\ \A x \in Nat : Cell(x) # Cell(t) => sequence'[Cell(x)] = sequence[Cell(x)]
      /\ sequence'[Cell(t)] = t + Capacity
  BY <1>0, <1>1, <1>2, CellBasics
<1>5. Lap'
  BY <1>0, <1>1 DEF QInv, Lap
<1>6. ProducerKnows'
  <2> SUFFICES ASSUME NEW r \in Producers
               PROVE /\ pos[r] <= enqueuePos
                     /\ pc'[r] = "cas" /\ pos[r] = enqueuePos =>
                            sequence'[Cell(enqueuePos)] = enqueuePos
                     /\ Owns(r)' => /\ dequeuePos <= pos[r] /\ pos[r] < enqueuePos
                                    /\ sequence'[Cell(pos[r])] = pos[r]
                     /\ pc'[r] = "publish" => data[Cell(pos[r])] = item[r]
    BY <1>1 DEF ProducerKnows
  <2>1. pc'[r] = pc[r] /\ (Owns(r)' <=> Owns(r)) /\ pos[r] \in Nat
    BY <1>0, <1>3
  <2>2. ASSUME Owns(r) PROVE sequence'[Cell(pos[r])] = pos[r]
    <3>1. Cell(pos[r]) # Cell(t) /\ sequence[Cell(pos[r])] = pos[r]
      BY <1>2, <2>2, SidesApart DEF QInv, ProducerKnows
    <3> QED
      BY <1>4, <2>1, <3>1
  <2>3. ASSUME pc[r] = "cas", pos[r] = enqueuePos
        PROVE  sequence'[Cell(enqueuePos)] = enqueuePos
    <3>1. sequence[Cell(enqueuePos)] = enqueuePos
      BY <2>3 DEF QInv, ProducerKnows
    <3>2. Cell(enqueuePos) # Cell(t)
      <4>1. Cell(enqueuePos) = Cell(t) => enqueuePos = t + 1
        BY <1>2, <3>1
      <4> QED
        BY <1>2, <4>1, NeighbourCells
    <3> QED
      BY <1>0, <1>4, <3>1, <3>2
  <2> QED
    BY <2>1, <2>2, <2>3 DEF QInv, ProducerKnows
<1>7. ConsumerKnows'
  <2> SUFFICES ASSUME NEW r \in Consumers
               PROVE /\ pos[r] <= dequeuePos
                     /\ pc'[r] = "cas" /\ pos[r] = dequeuePos =>
                            sequence'[Cell(dequeuePos)] = dequeuePos + 1
                     /\ Owns(r)' => /\ pos[r] < dequeuePos
                                    /\ enqueuePos <= pos[r] + Capacity
                                    /\ sequence'[Cell(pos[r])] = pos[r] + 1
    BY <1>1 DEF ConsumerKnows
  <2>1. pos[r] <= dequeuePos /\ pos[r] \in Nat
    BY <1>0 DEF QInv, ConsumerKnows
  <2>2. CASE r = c
    BY <1>0, <1>1, <1>3, <2>1, <2>2
  <2>3. CASE r # c
    <3>1. pc'[r] = pc[r] /\ (Owns(r)' <=> Owns(r))
      BY <1>0, <1>3, <2>3
    <3>2. ASSUME Owns(r) PROVE sequence'[Cell(pos[r])] = pos[r] + 1
      <4>1. sequence[Cell(pos[r])] = pos[r] + 1 /\ pos[r] # t
        BY <1>2, <2>3, <3>2 DEF QInv, ConsumerKnows, ClaimedOnce
      <4> QED
        BY <1>2, <1>4, <2>1, <4>1
    <3>3. ASSUME pc[r] = "cas", pos[r] = dequeuePos
          PROVE  sequence'[Cell(dequeuePos)] = dequeuePos + 1
      <4>1. sequence[Cell(dequeuePos)] = dequeuePos + 1
        BY <3>3 DEF QInv, ConsumerKnows
      <4> QED
        BY <1>0, <1>2, <1>4, <4>1
    <3> QED
      BY <2>1, <3>1, <3>2, <3>3 DEF QInv, ConsumerKnows
  <2> QED
    BY <2>2, <2>3
<1>8. ClaimedOnce'
  BY <1>0, <1>1, <1>3 DEF QInv, ClaimedOnce
<1>9. CellsTold'
  <2>1. /\ \A x : x # t => Reader(x)' = Reader(x)
        /\ \A x : Writer(x)' = Writer(x)
    BY <1>0, <1>1, <1>3 DEF Writer, Reader
  <2> SUFFICES ASSUME NEW k \in Cells
               PROVE  \/ \E x \in {sequence'[k]} : Cell(x) = k /\ CellFree(x)'
                      \/ \E x \in 0 .. enqueuePos :
                            sequence'[k] = x + 1 /\ Cell(x) = k /\ CellFull(x)'
    BY <1>1 DEF CellsTold
  <2>2. CASE k = Cell(t)
    <3>1. sequence'[k] = t + Capacity /\ Cell(t + Capacity) = k
      BY <1>2, <1>4, <2>2, NextLap
    <3>2. \A x : x = t + Capacity => CellFree(x)'
      BY <1>0, <1>1, <1>2 DEF CellFree
    <3> QED
      BY <3>1, <3>2
  <2>3. CASE k # Cell(t)
    <3>1. sequence'[k] = sequence[k] /\ sequence[k] \in Nat
      BY <1>0, <1>1, <2>3
    <3>2. ASSUME NEW x \in {sequence[k]}, Cell(x) = k, CellFree(x)
          PROVE  CellFree(x)'
      BY <1>1, <2>1, <3>2 DEF CellFree
    <3>3. ASSUME NEW x \in 0 .. enqueuePos, sequence[k] = x + 1, Cell(x) = k, CellFull(x)
          PROVE  CellFull(x)'
      <4>1. x # t
        BY <2>3, <3>3
      <4> QED
        BY <1>1, <2>1, <3>3, <4>1 DEF CellFull
    <3> QED
      BY <3>1, <3>2, <3>3 DEF QInv, CellsTold
  <2> QED
    BY <2>2, <2>3
<1> QED
  BY <1>5, <1>6, <1>7, <1>8, <1>9 DEF QInv

\* The item of a cell changes between claim and publication or release only.
LEMMA EnqWriteKeeps ==
    ASSUME QInv, QueueTyped', NEW p \in Producers, EnqWrite(p)
    PROVE  QInv'
<1>0. /\ Producers \subseteq Procs /\ Consumers \subseteq Procs
      /\ pc \in [Procs -> {"idle", "seq", "reload", "cas",
                           "write", "publish", "read", "release"}]
      /\ pos \in [Procs -> Nat] /\ data \in [Cells -> Items \cup {Nothing}]
  BY DEF Procs, QInv, QueueTyped
<1>1. /\ pc[p] = "write"
      /\ data' = [data EXCEPT ![Cell(pos[p])] = item[p]]
      /\ pc' = [pc EXCEPT ![p] = "publish"]
      /\ UNCHANGED <<sequence, enqueuePos, dequeuePos, pos, item, out>>
  BY DEF EnqWrite, Goto
<1>2. Cell(pos[p]) \in Cells /\ Owns(p)
  BY <1>0, <1>1, CellBasics DEF Owns
<1>3. \A r \in Procs : (Owns(r)' <=> Owns(r)) /\ (r # p => pc'[r] = pc[r])
  BY <1>0, <1>1 DEF Owns
<1>4. ASSUME NEW r \in Producers
      PROVE  /\ pos[r] <= enqueuePos
             /\ pc'[r] = "cas" /\ pos[r] = enqueuePos =>
                    sequence[Cell(enqueuePos)] = enqueuePos
             /\ Owns(r)' => /\ dequeuePos <= pos[r] /\ pos[r] < enqueuePos
                            /\ sequence[Cell(pos[r])] = pos[r]
             /\ pc'[r] = "publish" => data'[Cell(pos[r])] = item[r]
  <2>1. CASE r = p
    BY <1>0, <1>1, <1>2, <1>3, <2>1 DEF QInv, ProducerKnows
  <2>2. CASE r # p
    <3>1. ASSUME pc[r] = "publish" PROVE data'[Cell(pos[r])] = data[Cell(pos[r])]
      <4>1. Owns(r)
        BY <3>1 DEF Owns
      <4>2. Cell(pos[r]) # Cell(pos[p])
        BY <1>2, <2>2, <4>1 DEF QInv, ProducerKnows, ClaimedOnce
      <4>3. Cell(pos[r]) \in Cells
        BY <1>0, CellBasics
      <4> QED
        BY <1>0, <1>1, <1>2, <4>2, <4>3
    <3> QED
      BY <1>0, <1>3, <2>2, <3>1 DEF QInv, ProducerKnows
  <2> QED
    BY <2>1, <2>2
<1>5. ProducerKnows'
  BY <1>1, <1>4 DEF ProducerKnows
<1>6. ConsumerKnows'
  <2>1. \A c \in Consumers : pc'[c] = pc[c] /\ (Owns(c)' <=> Owns(c))
    BY <1>0, <1>3, PartiesAssumption
  <2> QED
    BY <1>1, <2>1 DEF QInv, ConsumerKnows
<1>7. ClaimedOnce' /\ Lap'
  BY <1>0, <1>1, <1>3 DEF QInv, ClaimedOnce, Lap
<1>8. CellsTold'
  <2>1. \A x : Reader(x)' = Reader(x) /\ Writer(x)' = Writer(x)
    BY <1>0, <1>1, <1>3 DEF Writer, Reader
  <2> QED
    BY <1>1, <2>1 DEF QInv, CellsTold, CellFree, CellFull
<1> QED
  BY <1>5, <1>6, <1>7, <1>8 DEF QInv

LEMMA DeqReadKeeps ==
    ASSUME QInv, QueueTyped', NEW c \in Consumers, DeqRead(c)
    PROVE  QInv'
<1>0. /\ Producers \subseteq Procs /\ Consumers \subseteq Procs
      /\ \A p \in Producers : p # c
      /\ pc \in [Procs -> {"idle", "seq", "reload", "cas",
                           "write", "publish", "read", "release"}]
      /\ pos \in [Procs -> Nat] /\ data \in [Cells -> Items \cup {Nothing}]
  BY PartiesAssumption DEF Procs, QInv, QueueTyped
<1>1. /\ pc[c] = "read"
      /\ data' = [data EXCEPT ![Cell(pos[c])] = Nothing]
      /\ pc' = [pc EXCEPT ![c] = "release"]
      /\ UNCHANGED <<sequence, enqueuePos, dequeuePos, pos, item>>
  BY DEF DeqRead, Goto
<1>2. Cell(pos[c]) \in Cells /\ Owns(c)
  BY <1>0, <1>1, CellBasics DEF Owns
<1>3. \A r \in Procs : (Owns(r)' <=> Owns(r)) /\ (r # c => pc'[r] = pc[r])
  BY <1>0, <1>1 DEF Owns
<1>4. ASSUME NEW r \in Producers
      PROVE  pc[r] = "publish" => data'[Cell(pos[r])] = data[Cell(pos[r])]
  <2> SUFFICES ASSUME pc[r] = "publish" PROVE data'[Cell(pos[r])] = data[Cell(pos[r])]
    OBVIOUS
  <2>1. Owns(r)
    BY DEF Owns
  <2>2. Cell(pos[r]) # Cell(pos[c])
    BY <1>2, <2>1, SidesApart DEF QInv
  <2>3. Cell(pos[r]) \in Cells
    BY <1>0, CellBasics
  <2> QED
    BY <1>0, <1>1, <1>2, <2>2, <2>3
<1>5. ProducerKnows'
  BY <1>0, <1>1, <1>3, <1>4 DEF QInv, ProducerKnows
<1>6. ConsumerKnows'
  BY <1>0, <1>1, <1>3 DEF QInv, ConsumerKnows
<1>7. ClaimedOnce' /\ Lap'
  BY <1>0, <1>1, <1>3 DEF QInv, ClaimedOnce, Lap
<1>8. CellsTold'
  <2>1. \A x : Reader(x)' = Reader(x) /\ Writer(x)' = Writer(x)
    BY <1>0, <1>1, <1>3 DEF Writer, Reader
  <2> QED
    BY <1>1, <2>1 DEF QInv, CellsTold, CellFree, CellFull
<1> QED
  BY <1>5, <1>6, <1>7, <1>8 DEF QInv

LEMMA NextQInv ==
    ASSUME QInv, [QueueNext]_queueVars
    PROVE  QInv'
<1>1. QueueTyped'
  BY NextQueueTyped
<1>2. ASSUME NEW p \in Procs, Looks(p) PROVE QInv'
  BY <1>1, <1>2, LooksKeeps
<1>3. CASE UNCHANGED queueVars
  <2>1. \A x : Reader(x)' = Reader(x) /\ Writer(x)' = Writer(x)
    BY <1>3 DEF queueVars, Writer, Reader, Owns
  <2> QED
    BY <1>1, <1>3, <2>1 DEF queueVars, QInv, Lap, ProducerKnows, ConsumerKnows, ClaimedOnce,
                       CellsTold, CellFree, CellFull, Owns
<1>4. ASSUME NEW p \in Producers, EnqStep(p) \/ \E v \in Items : EnqStart(p, v)
      PROVE  QInv'
  <2>1. p \in Procs
    BY DEF Procs
  <2> QED
    BY <1>1, <1>2, <1>4, <2>1, EnqCasKeeps, EnqWriteKeeps, EnqPublishKeeps
    DEF EnqStep, Looks
<1>5. ASSUME NEW c \in Consumers, DeqStep(c) \/ DeqStart(c)
      PROVE  QInv'
  <2>1. c \in Procs
    BY DEF Procs
  <2> QED
    BY <1>1, <1>2, <1>5, <2>1, DeqCasKeeps, DeqReadKeeps, DeqReleaseKeeps
    DEF DeqStep, Looks
<1> QED
  BY <1>3, <1>4, <1>5 DEF QueueNext

LEMMA QueueInvariance == QueueSpec => []QInv
<1> QED
  BY InitQueue, NextQInv, PTL DEF QueueSpec

\* Types, and the two positions never more than a lap apart: size_t positions
\* compared by their distance mean what the code takes them for.
THEOREM QueueTypeCorrect == QueueSpec => []QueueTypeOK
<1>1. QInv => QueueTypeOK
  BY DEF QInv, QueueTyped, Lap, QueueTypeOK
<1> QED
  BY <1>1, QueueInvariance, PTL

\* For any number of threads and any capacity no two calls are in one cell between
\* claim and publication or release.
THEOREM CellsAreExclusive == QueueSpec => []NoCellRace
<1>1. QInv => NoCellRace
  <2> SUFFICES ASSUME QInv, NEW p \in Procs, NEW r \in Procs, Owns(p), Owns(r),
                      Cell(pos[p]) = Cell(pos[r])
               PROVE  p = r
    BY DEF NoCellRace
  <2>1. CASE p \in Producers /\ r \in Producers
    BY <2>1 DEF QInv, ProducerKnows, ClaimedOnce
  <2>2. CASE p \in Consumers /\ r \in Consumers
    <3>1. pos[p] + 1 = pos[r] + 1 /\ pos[p] \in Nat /\ pos[r] \in Nat
      BY <2>2 DEF QInv, QueueTyped, ConsumerKnows
    <3> QED
      BY <2>2, <3>1 DEF QInv, ClaimedOnce
  <2>3. CASE p \in Producers /\ r \in Consumers
    BY <2>3, SidesApart DEF QInv
  <2>4. CASE p \in Consumers /\ r \in Producers
    BY <2>4, SidesApart DEF QInv
  <2> QED
    BY <2>1, <2>2, <2>3, <2>4 DEF Procs
<1> QED
  BY <1>1, QueueInvariance, PTL

-----------------------------------------------------------------------------
(* The queue: calls that fail.                                             *)

\* Only its own look at the sequence number makes a call give up.
LEMMA LooksBeforeGivingUp ==
    ASSUME QInv, QueueNext, NEW p \in Procs, GivesUp(p)
    PROVE  \/ p \in Producers /\ EnqReadSeq(p)
           \/ p \in Consumers /\ DeqReadSeq(p)
<1>0. /\ pc \in [Procs -> {"idle", "seq", "reload", "cas",
                           "write", "publish", "read", "release"}]
      /\ Producers \subseteq Procs /\ Consumers \subseteq Procs
      /\ pc[p] = "seq" /\ pc'[p] = "idle"
  BY DEF QInv, QueueTyped, Procs, GivesUp
<1>1. ASSUME NEW r \in Producers, EnqStep(r) \/ \E v \in Items : EnqStart(r, v)
      PROVE  p = r /\ EnqReadSeq(p)
  <2>1. ASSUME NEW v \in Items, EnqStart(r, v) PROVE FALSE
    BY <1>0, <2>1 DEF EnqStart, Goto
  <2>2. CASE EnqReload(r) \/ EnqCas(r) \/ EnqCasFails(r) \/ EnqWrite(r) \/ EnqPublish(r)
    BY <1>0, <2>2 DEF EnqReload, EnqCas, EnqCasFails, EnqWrite, EnqPublish, Goto
  <2>3. CASE EnqReadSeq(r)
    BY <1>0, <2>3 DEF EnqReadSeq, Goto
  <2> QED
    BY <1>1, <2>1, <2>2, <2>3 DEF EnqStep
<1>2. ASSUME NEW r \in Consumers, DeqStep(r) \/ DeqStart(r)
      PROVE  p = r /\ DeqReadSeq(p)
  <2>1. CASE \/ DeqStart(r) \/ DeqReload(r) \/ DeqCas(r) \/ DeqCasFails(r) \/ DeqRead(r)
             \/ DeqRelease(r)
    BY <1>0, <2>1 DEF DeqStart, DeqReload, DeqCas, DeqCasFails, DeqRead, DeqRelease, Goto
  <2>2. CASE DeqReadSeq(r)
    BY <1>0, <2>2 DEF DeqReadSeq, Goto
  <2> QED
    BY <1>2, <2>1, <2>2 DEF DeqStep
<1> QED
  BY <1>1, <1>2 DEF QueueNext

LEMMA ProducerGivesUp ==
    ASSUME QInv, QueueNext, NEW p \in Producers, GivesUp(p)
    PROVE  sequence[Cell(pos[p])] < pos[p]
<1>1. /\ p \in Procs /\ p \notin Consumers
      /\ pc \in [Procs -> {"idle", "seq", "reload", "cas",
                           "write", "publish", "read", "release"}]
  BY PartiesAssumption DEF Procs, QInv, QueueTyped
<1>2. EnqReadSeq(p)
  BY <1>1, LooksBeforeGivingUp
<1> QED
  BY <1>1, <1>2 DEF EnqReadSeq, Goto, GivesUp

\* A producer finds the cell of the next position a lap behind, and the position of
\* one lap ago in use.
LEMMA LapIsInUse ==
    ASSUME QInv, NEW p \in Producers, sequence[Cell(pos[p])] < pos[p]
    PROVE  enqueuePos >= Capacity /\ InUse(enqueuePos - Capacity)
<1> DEFINE x == pos[p]
           s == sequence[Cell(x)]
<1>1. /\ x \in Nat /\ s \in Nat /\ Cell(x) \in Cells /\ x <= enqueuePos /\ s < x
      /\ enqueuePos \in Nat /\ dequeuePos \in Nat /\ enqueuePos <= dequeuePos + Capacity
      /\ Capacity \in Nat /\ Capacity >= 2
  BY CellBasics DEF QInv, QueueTyped, ProducerKnows, Procs, Lap
<1>2. CASE Cell(s) = Cell(x) /\ CellFree(s)
  <2>1. s + Capacity <= x
    BY <1>1, <1>2, LapApart
  <2>2. s < enqueuePos
    BY <1>1, <2>1
  <2>3. PICK r \in Producers : Owns(r) /\ pos[r] = s
    BY <1>2, <2>2 DEF CellFree, Writer
  <2>4. dequeuePos <= s
    BY <2>3 DEF QInv, ProducerKnows
  <2>5. enqueuePos - Capacity = dequeuePos
    BY <1>1, <2>1, <2>4
  <2> QED
    BY <1>1, <2>5 DEF InUse
<1>3. ASSUME NEW t \in 0 .. enqueuePos, s = t + 1, Cell(t) = Cell(x), CellFull(t)
      PROVE  enqueuePos >= Capacity /\ InUse(enqueuePos - Capacity)
  <2>1. t + Capacity <= x
    BY <1>1, <1>3, LapApart
  <2>2. CASE t < dequeuePos
    <3>1. PICK c \in Consumers : Owns(c) /\ pos[c] = t
      BY <1>3, <2>2 DEF CellFull, Reader
    <3>2. enqueuePos <= t + Capacity
      BY <3>1 DEF QInv, ConsumerKnows
    <3>3. enqueuePos - Capacity = t
      BY <1>1, <2>1, <3>2
    <3> QED
      BY <1>1, <3>1, <3>3 DEF InUse, HeldByConsumer
  <2>3. CASE ~(t < dequeuePos)
    <3>1. enqueuePos - Capacity = dequeuePos
      BY <1>1, <2>1, <2>3
    <3> QED
      BY <1>1, <3>1 DEF InUse
  <2> QED
    BY <2>2, <2>3
<1> QED
  BY <1>1, <1>2, <1>3 DEF QInv, CellsTold

\* What a producer that gives up can say of the last lap.
LEMMA FullIsFull ==
    ASSUME QInv, NEW p \in Producers, sequence[Cell(pos[p])] < pos[p]
    PROVE  /\ enqueuePos >= Capacity /\ InUse(enqueuePos - Capacity)
           /\ \A t \in LastLap : InUse(t) \/ ReleasedAhead(t)
<1>1. enqueuePos >= Capacity /\ InUse(enqueuePos - Capacity)
  BY LapIsInUse
<1>2. /\ enqueuePos \in Nat /\ dequeuePos \in Nat /\ Capacity \in Nat
  BY CellBasics DEF QInv, QueueTyped
<1>3. ASSUME NEW t \in LastLap, ~InUse(t) PROVE ReleasedAhead(t)
  <2> DEFINE y == enqueuePos - Capacity
  <2>1. /\ t \in Int /\ y \in Int /\ y <= t /\ t < dequeuePos /\ t # y
    BY <1>1, <1>2, <1>3 DEF LastLap, InUse
  <2>2. ~(dequeuePos <= y)
    BY <1>2, <2>1
  <2>3. PICK c \in Consumers : Owns(c) /\ pos[c] = y
    BY <1>1, <2>2 DEF InUse, HeldByConsumer
  <2> QED
    BY <2>1, <2>3 DEF ReleasedAhead
<1> QED
  BY <1>1, <1>3

\* A cell that is behind what a consumer expects is waiting for its producer, and the
\* consumer's position is still the head of the queue.
LEMMA EmptyIsEmpty ==
    ASSUME QInv, NEW c \in Consumers, sequence[Cell(pos[c])] < pos[c] + 1
    PROVE  \/ dequeuePos = enqueuePos
           \/ \E p \in Producers : Owns(p) /\ pos[p] = dequeuePos
<1> DEFINE x == pos[c]
           s == sequence[Cell(x)]
<1>1. /\ x \in Nat /\ s \in Nat /\ Cell(x) \in Cells /\ x <= dequeuePos /\ s <= x
      /\ enqueuePos \in Nat /\ dequeuePos \in Nat /\ dequeuePos <= enqueuePos
      /\ Capacity \in Nat /\ Capacity >= 2
  BY CellBasics DEF QInv, QueueTyped, ConsumerKnows, Procs, Lap
<1>2. CASE Cell(s) = Cell(x) /\ CellFree(s)
  <2>1. CASE s < enqueuePos
    <3>1. PICK r \in Producers : Owns(r) /\ pos[r] = s
      BY <1>2, <2>1 DEF CellFree, Writer
    <3>2. dequeuePos <= s
      BY <3>1 DEF QInv, ProducerKnows
    <3> QED
      BY <1>1, <3>1, <3>2
  <2>2. CASE ~(s < enqueuePos)
    BY <1>1, <2>2
  <2> QED
    BY <2>1, <2>2
<1>3. ASSUME NEW t \in 0 .. enqueuePos, s = t + 1, Cell(t) = Cell(x), CellFull(t)
      PROVE  dequeuePos = enqueuePos
  <2>1. t + Capacity <= x
    BY <1>1, <1>3, LapApart
  <2>2. t < dequeuePos
    BY <1>1, <2>1
  <2>3. PICK d \in Consumers : Owns(d) /\ pos[d] = t
    BY <1>3, <2>2 DEF CellFull, Reader
  <2>4. enqueuePos <= t + Capacity
    BY <2>3 DEF QInv, ConsumerKnows
  <2> QED
    BY <1>1, <2>1, <2>4
<1> QED
  BY <1>1, <1>2, <1>3 DEF QInv, CellsTold

\* Calls fail for a reason that holds at that moment, for any number of threads and
\* any capacity, however many laps the others made since the position was loaded.
THEOREM FailuresTellTheTruth == QueueSpec => FailuresAreJustified
<1>1. ASSUME QInv, QueueNext
      PROVE  /\ \A p \in Producers : GivesUp(p) =>
                    /\ enqueuePos >= Capacity /\ InUse(enqueuePos - Capacity)
                    /\ \A t \in LastLap : InUse(t) \/ ReleasedAhead(t)
             /\ \A c \in Consumers : GivesUp(c) =>
                    \/ dequeuePos = enqueuePos
                    \/ \E p \in Producers : Owns(p) /\ pos[p] = dequeuePos
  <2>1. ASSUME NEW p \in Producers, GivesUp(p)
        PROVE  sequence[Cell(pos[p])] < pos[p]
    BY <1>1, <2>1, ProducerGivesUp
  <2>2. ASSUME NEW c \in Consumers, GivesUp(c)
        PROVE  \/ dequeuePos = enqueuePos
               \/ \E p \in Producers : Owns(p) /\ pos[p] = dequeuePos
    <3>0. /\ Consumers \subseteq Procs /\ c \notin Producers
          /\ pc \in [Procs -> {"idle", "seq", "reload", "cas",
                               "write", "publish", "read", "release"}]
      BY <1>1, PartiesAssumption DEF Procs, QInv, QueueTyped
    <3>1. DeqReadSeq(c)
      BY <1>1, <3>0, <2>2, LooksBeforeGivingUp
    <3>2. sequence[Cell(pos[c])] < pos[c] + 1
      BY <3>0, <2>2, <3>1 DEF DeqReadSeq, Goto, GivesUp
    <3> QED
      BY <1>1, <3>2, EmptyIsEmpty
  <2> QED
    BY <1>1, <2>1, <2>2, FullIsFull
<1> QED
  BY <1>1, QueueInvariance, PTL DEF QueueSpec, FailuresAreJustified

-----------------------------------------------------------------------------
(* The queue implements the FIFO of TicketFifo.                            *)

\* The ticket of a position names the producer that is writing it, if any.
LEMMA TicketIs ==
    ASSUME QInv, NEW t \in Nat
    PROVE  /\ Writer(t) = {} => AbsTicket(t) = [item |-> data[Cell(t)], by |-> Ready]
           /\ \A p \in Writer(t) :
                  /\ Writer(t) = {p}
                  /\ AbsTicket(t) = [item |-> item[p], by |-> p]
           /\ \A p \in Producers : AbsTicket(t).by = p <=> p \in Writer(t)
<1>1. Writer(t) = {} => AbsTicket(t) = [item |-> data[Cell(t)], by |-> Ready]
  BY DEF AbsTicket
<1>2. ASSUME NEW p \in Writer(t)
      PROVE  Writer(t) = {p} /\ AbsTicket(t) = [item |-> item[p], by |-> p]
  <2>1. \A r \in Writer(t) : r = p
    BY <1>2 DEF Writer, QInv, ClaimedOnce
  <2>2. (CHOOSE w \in Writer(t) : TRUE) = p
    BY <1>2, <2>1
  <2> QED
    BY <1>2, <2>1, <2>2 DEF AbsTicket
<1>3. ASSUME NEW p \in Producers PROVE AbsTicket(t).by = p <=> p \in Writer(t)
  <2>1. CASE Writer(t) = {}
    BY <1>1, <2>1, PartiesAssumption
  <2>2. CASE Writer(t) # {}
    BY <1>2, <2>2
  <2> QED
    BY <2>1, <2>2
<1> QED
  BY <1>1, <1>2, <1>3

\* A step that leaves the writer of a position and what it wrote leaves the ticket.
LEMMA SameTicket ==
    ASSUME NEW t \in Nat,
           \A p \in Producers : Owns(p)' /\ pos'[p] = t <=> Owns(p) /\ pos[p] = t,
           \A p \in Writer(t) : item'[p] = item[p],
           Writer(t) = {} => data'[Cell(t)] = data[Cell(t)]
    PROVE  AbsTicket(t)' = AbsTicket(t)
<1>1. Writer(t)' = Writer(t)
  BY DEF Writer
<1>2. CASE Writer(t) = {}
  BY <1>1, <1>2 DEF AbsTicket
<1>3. CASE Writer(t) # {}
  <2>1. PICK W : W = Writer(t) /\ W = Writer(t)'
    BY <1>1
  <2> DEFINE p == CHOOSE w \in W : TRUE
  <2>2. p \in Writer(t)
    BY <1>3, <2>1
  <2>3. AbsTicket(t) = [item |-> item[p], by |-> p]
    BY <1>3, <2>1 DEF AbsTicket
  <2>4. AbsTicket(t)' = [item |-> item'[p], by |-> p]
    BY <1>3, <2>1 DEF AbsTicket
  <2> QED
    BY <2>2, <2>3, <2>4
<1> QED
  BY <1>2, <1>3

AnyTicket == [item : Items \cup {Nothing}, by : Producers \cup {Ready}]

\* The tickets are those of the positions between the two counters, in order.
LEMMA QueueOfTickets ==
    ASSUME QInv
    PROVE  /\ enqueuePos \in Nat /\ dequeuePos \in Nat /\ dequeuePos <= enqueuePos
           /\ AbsQ \in Seq(AnyTicket) /\ Len(AbsQ) = enqueuePos - dequeuePos
           /\ \A t \in Nat : dequeuePos <= t /\ t < enqueuePos =>
                  /\ t - dequeuePos + 1 \in DOMAIN AbsQ
                  /\ AbsQ[t - dequeuePos + 1] = AbsTicket(t)
           /\ \A i \in DOMAIN AbsQ :
                  \E t \in Nat : /\ dequeuePos <= t /\ t < enqueuePos
                                 /\ i = t - dequeuePos + 1
<1>1. enqueuePos \in Nat /\ dequeuePos \in Nat /\ dequeuePos <= enqueuePos
  BY DEF QInv, QueueTyped, Lap
<1>2. ASSUME NEW t \in Nat PROVE AbsTicket(t) \in AnyTicket
  <2>1. CASE Writer(t) = {}
    BY <2>1, TicketIs, CellBasics DEF AnyTicket, QInv, QueueTyped
  <2>2. CASE Writer(t) # {}
    <3>1. PICK p \in Writer(t) : TRUE
      BY <2>2
    <3>2. p \in Producers
      BY DEF Writer
    <3> QED
      BY <3>1, <3>2, TicketIs DEF AnyTicket, QInv, QueueTyped
  <2> QED
    BY <2>1, <2>2
<1>3. \A i \in 1 .. enqueuePos - dequeuePos : dequeuePos + i - 1 \in Nat
  BY <1>1
<1>4. /\ DOMAIN AbsQ = 1 .. enqueuePos - dequeuePos
      /\ \A i \in 1 .. enqueuePos - dequeuePos : AbsQ[i] = AbsTicket(dequeuePos + i - 1)
  BY DEF AbsQ
<1>5. AbsQ \in [1 .. enqueuePos - dequeuePos -> AnyTicket]
  BY <1>2, <1>3 DEF AbsQ
<1>6. AbsQ \in Seq(AnyTicket) /\ Len(AbsQ) = enqueuePos - dequeuePos
  BY <1>1, <1>5
<1>7. ASSUME NEW t \in Nat, dequeuePos <= t, t < enqueuePos
      PROVE  /\ t - dequeuePos + 1 \in DOMAIN AbsQ
             /\ AbsQ[t - dequeuePos + 1] = AbsTicket(t)
  <2>1. /\ t - dequeuePos + 1 \in 1 .. enqueuePos - dequeuePos
        /\ dequeuePos + (t - dequeuePos + 1) - 1 = t
    BY <1>1, <1>7
  <2> QED
    BY <1>4, <2>1
<1>8. ASSUME NEW i \in DOMAIN AbsQ
      PROVE  \E t \in Nat : /\ dequeuePos <= t /\ t < enqueuePos
                            /\ i = t - dequeuePos + 1
  <2>1. i \in 1 .. enqueuePos - dequeuePos
    BY <1>4
  <2>2. dequeuePos + i - 1 \in Nat
    BY <1>3, <2>1
  <2> WITNESS dequeuePos + i - 1 \in Nat
  <2> QED
    BY <1>1, <2>1
<1> QED
  BY <1>1, <1>6, <1>7, <1>8

\* Neither counter moves and no ticket changes.
LEMMA SameQueue ==
    ASSUME QInv, UNCHANGED <<enqueuePos, dequeuePos>>,
           \A t \in Nat : dequeuePos <= t /\ t < enqueuePos =>
               AbsTicket(t)' = AbsTicket(t)
    PROVE  AbsQ' = AbsQ
<1>1. enqueuePos \in Nat /\ dequeuePos \in Nat
  BY DEF QInv, QueueTyped
<1>2. PICK D, E : D = dequeuePos /\ E = enqueuePos
  OBVIOUS
<1>3. ASSUME NEW i \in 1 .. E - D PROVE AbsTicket(D + i - 1)' = AbsTicket(D + i - 1)
  <2>1. D + i - 1 \in Nat /\ D <= D + i - 1 /\ D + i - 1 < E
    BY <1>1, <1>2
  <2> QED
    BY <1>2, <2>1
<1>4. AbsQ = [i \in 1 .. E - D |-> AbsTicket(D + i - 1)]
  BY <1>2 DEF AbsQ
<1>5. AbsQ' = [i \in 1 .. E - D |-> AbsTicket(D + i - 1)']
  BY <1>2 DEF AbsQ
<1> QED
  BY <1>3, <1>4, <1>5

-----------------------------------------------------------------------------
(* Steps the FIFO does not see.                                            *)

LEMMA LooksRefines ==
    ASSUME QInv, NEW p \in Procs, Looks(p)
    PROVE  UNCHANGED Fifo!fifoVars
<1>0. Producers \subseteq Procs /\ Consumers \subseteq Procs
  BY DEF Procs
<1>1. /\ ~Owns(p) /\ ~Owns(p)'
      /\ UNCHANGED <<sequence, data, enqueuePos, dequeuePos, out>>
      /\ \A r \in Procs : r # p => pc'[r] = pc[r] /\ pos'[r] = pos[r]
      /\ \A r \in Producers : r # p => item'[r] = item[r]
  BY LooksChange DEF QInv
<1>2. ASSUME NEW t \in Nat PROVE AbsTicket(t)' = AbsTicket(t)
  <2>1. \A r \in Producers : Owns(r)' /\ pos'[r] = t <=> Owns(r) /\ pos[r] = t
    BY <1>0, <1>1 DEF Owns
  <2>2. \A r \in Writer(t) : item'[r] = item[r]
    BY <1>1 DEF Writer
  <2> QED
    BY <1>1, <2>1, <2>2, SameTicket
<1>3. AbsQ' = AbsQ
  BY <1>1, <1>2, SameQueue
<1>4. AbsHolds' = AbsHolds
  BY <1>0, <1>1 DEF AbsHolds, Owns
<1>5. ASSUME NEW c \in Consumers
      PROVE  (IF pc'[c] = "read" THEN data'[Cell(pos'[c])] ELSE out'[c])
               = IF pc[c] = "read" THEN data[Cell(pos[c])] ELSE out[c]
  BY <1>0, <1>1 DEF Owns
<1>6. AbsHand' = AbsHand
  BY <1>5 DEF AbsHand, Cell
<1> QED
  BY <1>3, <1>4, <1>6 DEF Fifo!fifoVars

\* The item is written into a cell nobody may look at.
LEMMA EnqWriteRefines ==
    ASSUME QInv, NEW p \in Producers, EnqWrite(p)
    PROVE  UNCHANGED Fifo!fifoVars
<1>0. /\ Producers \subseteq Procs /\ Consumers \subseteq Procs
      /\ pos \in [Procs -> Nat] /\ data \in [Cells -> Items \cup {Nothing}]
      /\ pc \in [Procs -> {"idle", "seq", "reload", "cas",
                           "write", "publish", "read", "release"}]
      /\ \A c \in Consumers : c # p
  BY PartiesAssumption DEF Procs, QInv, QueueTyped
<1>1. /\ pc[p] = "write" /\ Owns(p)
      /\ data' = [data EXCEPT ![Cell(pos[p])] = item[p]]
      /\ pc' = [pc EXCEPT ![p] = "publish"]
      /\ UNCHANGED <<sequence, enqueuePos, dequeuePos, pos, item, out>>
  BY DEF EnqWrite, Goto, Owns
<1>2. ASSUME NEW t \in Nat, dequeuePos <= t, t < enqueuePos
      PROVE  AbsTicket(t)' = AbsTicket(t)
  <2>1. \A r \in Producers : Owns(r)' /\ pos'[r] = t <=> Owns(r) /\ pos[r] = t
    BY <1>0, <1>1 DEF Owns
  <2>2. Writer(t) = {} => Cell(t) # Cell(pos[p])
    <3>1. /\ pos[p] \in Nat /\ dequeuePos <= pos[p] /\ pos[p] < enqueuePos
          /\ enqueuePos \in Nat /\ dequeuePos \in Nat /\ Capacity \in Nat
          /\ enqueuePos <= dequeuePos + Capacity
      BY <1>0, <1>1, CellBasics DEF QInv, QueueTyped, ProducerKnows, Lap
    <3>2. Cell(t) = Cell(pos[p]) => t = pos[p]
      BY <1>2, <3>1, LapApart
    <3>3. p \in Writer(pos[p])
      BY <1>1 DEF Writer
    <3> QED
      BY <3>2, <3>3
  <2>3. Writer(t) = {} => data'[Cell(t)] = data[Cell(t)]
    BY <1>0, <1>1, <2>2, CellBasics
  <2> QED
    BY <1>1, <2>1, <2>3, SameTicket
<1>3. AbsQ' = AbsQ
  BY <1>1, <1>2, SameQueue
<1>4. AbsHolds' = AbsHolds
  BY <1>0, <1>1 DEF AbsHolds, Owns
<1>5. ASSUME NEW c \in Consumers
      PROVE  (IF pc'[c] = "read" THEN data'[Cell(pos'[c])] ELSE out'[c])
               = IF pc[c] = "read" THEN data[Cell(pos[c])] ELSE out[c]
  <2>1. pc'[c] = pc[c] /\ pos[c] \in Nat
    BY <1>0, <1>1
  <2>2. pc[c] = "read" => Cell(pos[c]) # Cell(pos[p])
    BY <1>1, SidesApart DEF Owns, QInv
  <2>3. pc[c] = "read" => data'[Cell(pos[c])] = data[Cell(pos[c])]
    BY <1>0, <1>1, <2>1, <2>2, CellBasics
  <2> QED
    BY <1>1, <2>1, <2>3
<1>6. AbsHand' = AbsHand
  BY <1>5 DEF AbsHand, Cell
<1> QED
  BY <1>3, <1>4, <1>6 DEF Fifo!fifoVars

\* The item leaves a cell whose ticket is gone.
LEMMA DeqReadRefines ==
    ASSUME QInv, NEW c \in Consumers, DeqRead(c)
    PROVE  UNCHANGED Fifo!fifoVars
<1>0. /\ Producers \subseteq Procs /\ Consumers \subseteq Procs
      /\ pos \in [Procs -> Nat] /\ data \in [Cells -> Items \cup {Nothing}]
      /\ out \in [Consumers -> Items \cup {Nothing}]
      /\ pc \in [Procs -> {"idle", "seq", "reload", "cas",
                           "write", "publish", "read", "release"}]
      /\ \A p \in Producers : c # p
  BY PartiesAssumption DEF Procs, QInv, QueueTyped
<1>1. /\ pc[c] = "read" /\ Owns(c)
      /\ out' = [out EXCEPT ![c] = data[Cell(pos[c])]]
      /\ data' = [data EXCEPT ![Cell(pos[c])] = Nothing]
      /\ pc' = [pc EXCEPT ![c] = "release"]
      /\ UNCHANGED <<sequence, enqueuePos, dequeuePos, pos, item>>
  BY DEF DeqRead, Goto, Owns
<1>2. /\ pos[c] \in Nat /\ pos[c] < dequeuePos /\ dequeuePos \in Nat
      /\ sequence[Cell(pos[c])] = pos[c] + 1
  BY <1>0, <1>1 DEF QInv, QueueTyped, ConsumerKnows
<1>3. ASSUME NEW t \in Nat, dequeuePos <= t, t < enqueuePos
      PROVE  AbsTicket(t)' = AbsTicket(t)
  <2>1. \A r \in Producers : Owns(r)' /\ pos'[r] = t <=> Owns(r) /\ pos[r] = t
    BY <1>0, <1>1 DEF Owns
  <2>2. Writer(t) = {} => Cell(t) # Cell(pos[c])
    <3>1. Writer(t) = {} => sequence[Cell(t)] = t + 1
      BY <1>3, QueueFull
    <3> QED
      BY <1>2, <1>3, <3>1
  <2>3. Writer(t) = {} => data'[Cell(t)] = data[Cell(t)]
    BY <1>0, <1>1, <2>2, CellBasics
  <2> QED
    BY <1>1, <2>1, <2>3, SameTicket
<1>4. AbsQ' = AbsQ
  BY <1>1, <1>3, SameQueue
<1>5. AbsHolds' = AbsHolds
  BY <1>0, <1>1 DEF AbsHolds, Owns
<1>6. ASSUME NEW d \in Consumers
      PROVE  (IF pc'[d] = "read" THEN data'[Cell(pos'[d])] ELSE out'[d])
               = IF pc[d] = "read" THEN data[Cell(pos[d])] ELSE out[d]
  <2>1. CASE d = c
    BY <1>0, <1>1, <2>1
  <2>2. CASE d # c
    <3>1. pc'[d] = pc[d] /\ out'[d] = out[d] /\ pos[d] \in Nat
      BY <1>0, <1>1, <2>2
    <3>2. pc[d] = "read" => Cell(pos[d]) # Cell(pos[c])
      <4>1. pc[d] = "read" => sequence[Cell(pos[d])] = pos[d] + 1 /\ pos[d] # pos[c]
        BY <1>1, <2>2 DEF QInv, ConsumerKnows, ClaimedOnce, Owns
      <4> QED
        BY <1>2, <3>1, <4>1
    <3>3. pc[d] = "read" => data'[Cell(pos[d])] = data[Cell(pos[d])]
      BY <1>0, <1>1, <3>1, <3>2, CellBasics
    <3> QED
      BY <1>1, <3>1, <3>3
  <2> QED
    BY <2>1, <2>2
<1>7. AbsHand' = AbsHand
  BY <1>6 DEF AbsHand, Cell
<1> QED
  BY <1>4, <1>5, <1>7 DEF Fifo!fifoVars

-----------------------------------------------------------------------------
(* Steps of the FIFO.                                                      *)

\* A producer that finds its cell free finds room: the claimed positions and those
\* consumers still read are less than a lap.
LEMMA ClaimFits ==
    ASSUME QInv, sequence[Cell(enqueuePos)] = enqueuePos
    PROVE  Fifo!Occupied < Capacity
<1>1. /\ enqueuePos \in Nat /\ dequeuePos \in Nat /\ dequeuePos <= enqueuePos
      /\ Len(AbsQ) = enqueuePos - dequeuePos
  BY QueueOfTickets
<1>2. Capacity \in Nat /\ Capacity >= 2 /\ Cell(enqueuePos) \in Cells
  BY <1>1, CellBasics
<1>3. enqueuePos < dequeuePos + Capacity
  <2>1. CASE CellFree(enqueuePos)
    BY <2>1 DEF CellFree
  <2>2. ASSUME NEW t \in 0 .. enqueuePos, enqueuePos = t + 1,
               Cell(t) = Cell(enqueuePos)
        PROVE  FALSE
    BY <2>2, NeighbourCells
  <2> QED
    BY <1>2, <2>1, <2>2 DEF QInv, CellsTold
<1>4. ASSUME NEW c \in AbsHolds
      PROVE  pos[c] \in enqueuePos - Capacity + 1 .. dequeuePos - 1
  <2>1. /\ pos[c] \in Nat /\ pos[c] < dequeuePos /\ enqueuePos <= pos[c] + Capacity
        /\ sequence[Cell(pos[c])] = pos[c] + 1
    BY DEF AbsHolds, QInv, QueueTyped, ConsumerKnows, Procs
  <2>2. enqueuePos = pos[c] + Capacity => Cell(enqueuePos) = Cell(pos[c])
    BY <2>1, NextLap
  <2> QED
    BY <1>1, <1>2, <2>1, <2>2
<1> DEFINE Spare == enqueuePos - Capacity + 1 .. dequeuePos - 1
           f == [c \in AbsHolds |-> pos[c]]
<1>5. f \in Injection(AbsHolds, Spare)
  BY <1>4 DEF Injection, IsInjective, AbsHolds, QInv, ClaimedOnce
<1>6. IsFiniteSet(Spare) /\ Cardinality(Spare) = dequeuePos - enqueuePos + Capacity - 1
  <2>1. enqueuePos - Capacity + 1 \in Int /\ dequeuePos - 1 \in Int
    BY <1>1, <1>2
  <2>2. /\ IsFiniteSet(Spare)
        /\ Cardinality(Spare) =
             IF enqueuePos - Capacity + 1 > dequeuePos - 1 THEN 0
             ELSE (dequeuePos - 1) - (enqueuePos - Capacity + 1) + 1
    BY <2>1, FS_Interval
  <2> QED
    BY <1>1, <1>2, <1>3, <2>2
<1> HIDE DEF Spare, f
<1>7. IsFiniteSet(AbsHolds) /\ Cardinality(AbsHolds) <= Cardinality(Spare)
  BY <1>5, <1>6, FS_Injection
<1>8. Cardinality(AbsHolds) \in Nat
  BY <1>7, FS_CardinalityType
<1>9. Fifo!Occupied = Len(AbsQ) + Cardinality(AbsHolds)
  BY DEF Fifo!Occupied, Fifo!Cardinality, Cardinality, Fifo!IsFiniteSet, IsFiniteSet
<1> QED
  BY <1>1, <1>2, <1>6, <1>7, <1>8, <1>9

\* Claiming a position takes a ticket.
LEMMA EnqCasRefines ==
    ASSUME QInv, QInv', NEW p \in Producers, EnqCas(p)
    PROVE  item[p] \in Items /\ Fifo!Claim(p, item[p])
<1>0. /\ Producers \subseteq Procs /\ Consumers \subseteq Procs
      /\ pos \in [Procs -> Nat]
      /\ pc \in [Procs -> {"idle", "seq", "reload", "cas",
                           "write", "publish", "read", "release"}]
      /\ \A c \in Consumers : c # p
  BY PartiesAssumption DEF Procs, QInv, QueueTyped
<1>1. /\ pc[p] = "cas" /\ ~Owns(p)
      /\ enqueuePos = pos[p] /\ enqueuePos' = enqueuePos + 1
      /\ pc' = [pc EXCEPT ![p] = "write"]
      /\ UNCHANGED <<sequence, data, dequeuePos, pos, item, out>>
  BY DEF EnqCas, Goto, Owns
<1>2. /\ enqueuePos \in Nat /\ dequeuePos \in Nat /\ dequeuePos <= enqueuePos
      /\ AbsQ \in Seq(AnyTicket) /\ Len(AbsQ) = enqueuePos - dequeuePos
  BY QueueOfTickets
<1>3. item[p] \in Items
  BY <1>1 DEF QInv, QueueTyped
<1>4. Fifo!Pending(p) = {}
  <2>1. ASSUME NEW i \in DOMAIN AbsQ PROVE AbsQ[i].by # p
    <3>1. PICK t \in Nat : /\ dequeuePos <= t /\ t < enqueuePos
                           /\ i = t - dequeuePos + 1
      BY QueueOfTickets
    <3>2. AbsQ[i] = AbsTicket(t)
      BY <3>1, QueueOfTickets
    <3> QED
      BY <1>1, <3>2, TicketIs DEF Writer
  <2> QED
    BY <2>1 DEF Fifo!Pending
<1>5. Fifo!Occupied < Capacity
  BY <1>1, ClaimFits DEF QInv, ProducerKnows
<1>6. AbsQ' = Append(AbsQ, [item |-> item[p], by |-> p])
  <2> DEFINE new == [item |-> item[p], by |-> p]
  <2>1. PICK D, E : D = dequeuePos /\ E = enqueuePos
    OBVIOUS
  <2>2. AbsQ' = [i \in 1 .. E + 1 - D |-> AbsTicket(D + i - 1)']
    <3>1. enqueuePos' = E + 1 /\ dequeuePos' = dequeuePos /\ D = dequeuePos
      BY <1>1, <2>1
    <3>2. AbsQ' = [i \in 1 .. enqueuePos' - D |-> AbsTicket(D + i - 1)']
      BY <3>1 DEF AbsQ
    <3>3. enqueuePos' - D = E + 1 - D
      BY <1>2, <2>1, <3>1
    <3> QED
      BY <3>2, <3>3, Zenon
  <2>3. ASSUME NEW i \in 1 .. E - D PROVE AbsTicket(D + i - 1)' = AbsQ[i]
    <3>1. PICK t : t = D + i - 1
      OBVIOUS
    <3>2. t \in Nat /\ D <= t /\ t < E /\ i = t - D + 1
      BY <1>2, <2>1, <3>1
    <3>3. AbsQ[i] = AbsTicket(t)
      BY <2>1, <3>2, QueueOfTickets
    <3>4. \A r \in Producers : Owns(r)' /\ pos'[r] = t <=> Owns(r) /\ pos[r] = t
      BY <1>0, <1>1, <2>1, <3>2 DEF Owns
    <3>5. AbsTicket(t)' = AbsTicket(t)
      BY <1>1, <3>2, <3>4, SameTicket
    <3> QED
      BY <3>1, <3>3, <3>5
  <2>4. AbsTicket(E)' = new
    <3>1. \A r \in Producers : Owns(r)' /\ pos'[r] = E <=> r = p
      BY <1>0, <1>1, <1>2, <2>1 DEF Owns, QInv, ProducerKnows
    <3>2. Writer(E)' = {p}
      BY <2>1, <3>1 DEF Writer
    <3>3. (CHOOSE w \in {p} : TRUE) = p
      OBVIOUS
    <3> QED
      BY <1>1, <3>2, <3>3 DEF AbsTicket
  <2>5. E \in Nat /\ D \in Nat /\ D <= E /\ Len(AbsQ) = E - D
    BY <1>2, <2>1
  <2>6. /\ Append(AbsQ, new) = [i \in 1 .. E - D + 1 |->
               IF i = E - D + 1 THEN new ELSE AbsQ[i]]
    BY <1>2, <2>5
  <2>7. ASSUME NEW i \in 1 .. E + 1 - D
        PROVE  AbsTicket(D + i - 1)' = IF i = E - D + 1 THEN new ELSE AbsQ[i]
    <3>1. CASE i = E - D + 1
      <4>1. D + i - 1 = E
        BY <2>5, <3>1
      <4> QED
        BY <2>4, <3>1, <4>1
    <3>2. CASE i # E - D + 1
      <4>1. i \in 1 .. E - D
        BY <2>5, <3>2
      <4> QED
        BY <2>3, <3>2, <4>1
    <3> QED
      BY <3>1, <3>2
  <2>8. E + 1 - D = E - D + 1
    BY <2>5
  <2> QED
    BY <2>2, <2>6, <2>7, <2>8
<1>7. AbsHand' = AbsHand
  BY <1>0, <1>1 DEF AbsHand, Cell
<1>8. AbsHolds' = AbsHolds
  BY <1>0, <1>1 DEF AbsHolds, Owns
<1> QED
  BY <1>3, <1>4, <1>5, <1>6, <1>7, <1>8 DEF Fifo!Claim

\* Publishing an item finishes its ticket.
LEMMA EnqPublishRefines ==
    ASSUME QInv, QInv', NEW p \in Producers, EnqPublish(p)
    PROVE  Fifo!Finish(p)
<1>0. /\ Producers \subseteq Procs /\ Consumers \subseteq Procs
      /\ pos \in [Procs -> Nat]
      /\ pc \in [Procs -> {"idle", "seq", "reload", "cas",
                           "write", "publish", "read", "release"}]
      /\ \A c \in Consumers : c # p
  BY PartiesAssumption DEF Procs, QInv, QueueTyped
<1>1. /\ pc[p] = "publish" /\ Owns(p)
      /\ pc' = [pc EXCEPT ![p] = "idle"]
      /\ UNCHANGED <<data, enqueuePos, dequeuePos, pos, item, out>>
  BY DEF EnqPublish, Goto, Owns
<1>2. /\ enqueuePos \in Nat /\ dequeuePos \in Nat /\ dequeuePos <= enqueuePos
      /\ AbsQ \in Seq(AnyTicket) /\ Len(AbsQ) = enqueuePos - dequeuePos
  BY QueueOfTickets
<1>3. PICK D, E, x : D = dequeuePos /\ E = enqueuePos /\ x = pos[p]
  OBVIOUS
<1>4. /\ x \in Nat /\ D <= x /\ x < E /\ D \in Nat /\ E \in Nat
      /\ data[Cell(x)] = item[p] /\ p \in Writer(x)
  BY <1>0, <1>1, <1>2, <1>3 DEF QInv, ProducerKnows, Writer
<1> DEFINE i == x - D + 1
<1>5. i \in DOMAIN AbsQ /\ AbsQ[i] = AbsTicket(x)
  BY <1>3, <1>4, QueueOfTickets
<1>6. AbsTicket(x) = [item |-> item[p], by |-> p]
  BY <1>4, TicketIs
<1>7. AbsTicket(x)' = [item |-> item[p], by |-> Ready]
  <2>1. Writer(x)' = {}
    BY <1>0, <1>1, <1>3, <1>4 DEF Writer, Owns, QInv, ClaimedOnce
  <2> QED
    BY <1>1, <1>4, <2>1 DEF AbsTicket
<1>8. AbsQ' = [j \in 1 .. E - D |-> AbsTicket(D + j - 1)']
  BY <1>1, <1>3 DEF AbsQ
<1>9. ASSUME NEW j \in 1 .. E - D
      PROVE  AbsTicket(D + j - 1)' =
               IF j = i THEN [AbsQ[j] EXCEPT !.by = Ready] ELSE AbsQ[j]
  <2>1. PICK t : t = D + j - 1
    OBVIOUS
  <2>2. t \in Nat /\ D <= t /\ t < E /\ j = t - D + 1 /\ (j = i <=> t = x)
    BY <1>4, <2>1
  <2>3. AbsQ[j] = AbsTicket(t)
    BY <1>3, <2>2, QueueOfTickets
  <2>4. CASE t = x
    <3>1. j = i /\ AbsQ[j] = [item |-> item[p], by |-> p]
      BY <1>6, <2>2, <2>3, <2>4
    <3>2. AbsTicket(t)' = [item |-> item[p], by |-> Ready]
      BY <1>7, <2>4
    <3>3. [AbsQ[j] EXCEPT !.by = Ready] = [item |-> item[p], by |-> Ready]
      BY <3>1
    <3> QED
      BY <2>1, <3>1, <3>2, <3>3
  <2>5. CASE t # x
    <3>1. \A r \in Producers : Owns(r)' /\ pos'[r] = t <=> Owns(r) /\ pos[r] = t
      BY <1>0, <1>1, <1>3, <2>5 DEF Owns
    <3>2. AbsTicket(t)' = AbsTicket(t)
      BY <1>1, <2>2, <3>1, SameTicket
    <3> QED
      BY <2>1, <2>2, <2>3, <2>5, <3>2
  <2> QED
    BY <2>4, <2>5
<1>10. DOMAIN AbsQ = 1 .. E - D
  BY <1>2, <1>3
<1>11. AbsQ' = [AbsQ EXCEPT ![i].by = Ready]
  <2> HIDE DEF i
  <2> QED
    BY <1>2, <1>5, <1>8, <1>9, <1>10
<1>12. i \in Fifo!Pending(p)
  BY <1>5, <1>6 DEF Fifo!Pending
<1>13. AbsHand' = AbsHand
  BY <1>0, <1>1 DEF AbsHand, Cell
<1>14. AbsHolds' = AbsHolds
  BY <1>0, <1>1 DEF AbsHolds, Owns
<1> QED
  BY <1>11, <1>12, <1>13, <1>14 DEF Fifo!Finish, Fifo!Ready, Ready

\* Claiming a position to read takes the oldest ticket, which is finished.
LEMMA DeqCasRefines ==
    ASSUME QInv, QInv', NEW c \in Consumers, DeqCas(c)
    PROVE  Fifo!Take(c)
<1>0. /\ Producers \subseteq Procs /\ Consumers \subseteq Procs
      /\ pos \in [Procs -> Nat]
      /\ pc \in [Procs -> {"idle", "seq", "reload", "cas",
                           "write", "publish", "read", "release"}]
      /\ \A p \in Producers : p # c
  BY PartiesAssumption DEF Procs, QInv, QueueTyped
<1>1. /\ pc[c] = "cas" /\ ~Owns(c)
      /\ dequeuePos = pos[c] /\ dequeuePos' = dequeuePos + 1
      /\ pc' = [pc EXCEPT ![c] = "read"]
      /\ UNCHANGED <<sequence, data, enqueuePos, pos, item, out>>
  BY DEF DeqCas, Goto, Owns
<1>2. /\ enqueuePos \in Nat /\ dequeuePos \in Nat /\ dequeuePos <= enqueuePos
      /\ AbsQ \in Seq(AnyTicket) /\ Len(AbsQ) = enqueuePos - dequeuePos
  BY QueueOfTickets
<1>3. dequeuePos < enqueuePos
  BY <1>1, <1>2 DEF QInv, Lap
<1>4. PICK D, E : D = dequeuePos /\ E = enqueuePos
  OBVIOUS
<1>5. D \in Nat /\ E \in Nat /\ D < E
  BY <1>2, <1>3, <1>4
<1>6. Writer(D) = {}
  <2>1. sequence[Cell(D)] = D + 1
    BY <1>1, <1>4 DEF QInv, ConsumerKnows
  <2>2. \A p \in Writer(D) : sequence[Cell(D)] = D
    BY DEF QInv, ProducerKnows, Writer
  <2> QED
    BY <1>5, <2>1, <2>2
<1>7. Head(AbsQ) = [item |-> data[Cell(D)], by |-> Ready] /\ AbsQ # <<>>
  <2>1. AbsQ[1] = AbsTicket(D)
    <3>1. D - dequeuePos + 1 = 1
      BY <1>4, <1>5
    <3> QED
      BY <1>4, <1>5, <3>1, QueueOfTickets
  <2>2. AbsTicket(D) = [item |-> data[Cell(D)], by |-> Ready]
    BY <1>5, <1>6, TicketIs
  <2>3. AbsQ # <<>> /\ Head(AbsQ) = AbsQ[1]
    BY <1>2, <1>3
  <2> QED
    BY <2>1, <2>2, <2>3
<1>8. AbsQ' = Tail(AbsQ)
  <2>1. PICK F : F = dequeuePos'
    OBVIOUS
  <2>2. F = D + 1
    BY <1>1, <1>4, <2>1
  <2>3. AbsQ' = [i \in 1 .. E - F |-> AbsTicket(F + i - 1)']
    BY <1>1, <1>4, <2>1 DEF AbsQ
  <2>4. ASSUME NEW i \in 1 .. E - F PROVE AbsTicket(F + i - 1)' = AbsQ[i + 1]
    <3>1. PICK t : t = F + i - 1
      OBVIOUS
    <3>2. t \in Nat /\ D <= t /\ t < E /\ i + 1 = t - D + 1
      BY <1>5, <2>2, <3>1
    <3>3. AbsQ[i + 1] = AbsTicket(t)
      BY <1>4, <3>2, QueueOfTickets
    <3>4. \A r \in Producers : Owns(r)' /\ pos'[r] = t <=> Owns(r) /\ pos[r] = t
      BY <1>0, <1>1 DEF Owns
    <3>5. AbsTicket(t)' = AbsTicket(t)
      BY <1>1, <3>2, <3>4, SameTicket
    <3> QED
      BY <3>1, <3>3, <3>5
  <2>5. Tail(AbsQ) = [i \in 1 .. E - F |-> AbsQ[i + 1]]
    <3>1. /\ Tail(AbsQ) \in Seq(AnyTicket) /\ Len(Tail(AbsQ)) = Len(AbsQ) - 1
          /\ \A i \in 1 .. Len(AbsQ) - 1 : Tail(AbsQ)[i] = AbsQ[i + 1]
      BY <1>2, <1>7
    <3>2. Len(AbsQ) - 1 = E - F
      BY <1>2, <1>4, <2>2
    <3>3. PICK s \in Seq(AnyTicket) : s = Tail(AbsQ) /\ Len(s) = E - F
      BY <3>1, <3>2
    <3>4. s \in [1 .. E - F -> AnyTicket]
      <4>1. s \in [1 .. Len(s) -> AnyTicket]
        OBVIOUS
      <4> QED
        BY <3>3, <4>1, Zenon
    <3>5. s = [i \in 1 .. E - F |-> s[i]]
      BY <3>4
    <3>6. \A i \in 1 .. E - F : s[i] = AbsQ[i + 1]
      BY <3>1, <3>2, <3>3
    <3> QED
      BY <3>3, <3>5, <3>6
  <2> QED
    BY <2>3, <2>4, <2>5
<1>9. AbsHand' = [AbsHand EXCEPT ![c] = Head(AbsQ).item]
  <2>1. ASSUME NEW d \in Consumers
        PROVE  (IF pc'[d] = "read" THEN data'[Cell(pos'[d])] ELSE out'[d])
                 = IF d = c THEN data[Cell(D)]
                   ELSE IF pc[d] = "read" THEN data[Cell(pos[d])] ELSE out[d]
    BY <1>0, <1>1, <1>4
  <2>2. AbsHand' = [d \in Consumers |-> IF d = c THEN data[Cell(D)]
                       ELSE IF pc[d] = "read" THEN data[Cell(pos[d])] ELSE out[d]]
    BY <2>1 DEF AbsHand, Cell
  <2>3. Head(AbsQ).item = data[Cell(D)]
    BY <1>7
  <2> QED
    BY <2>2, <2>3 DEF AbsHand
<1>10. c \notin AbsHolds /\ AbsHolds' = AbsHolds \cup {c}
  BY <1>0, <1>1 DEF AbsHolds, Owns
<1> QED
  BY <1>7, <1>8, <1>9, <1>10 DEF Fifo!Take, Fifo!CanTake, Fifo!Ready, Ready

\* Freeing the cell gives the slot back.
LEMMA DeqReleaseRefines ==
    ASSUME QInv, NEW c \in Consumers, DeqRelease(c)
    PROVE  Fifo!Release(c)
<1>0. /\ Producers \subseteq Procs /\ Consumers \subseteq Procs
      /\ pos \in [Procs -> Nat]
      /\ pc \in [Procs -> {"idle", "seq", "reload", "cas",
                           "write", "publish", "read", "release"}]
      /\ \A p \in Producers : p # c
  BY PartiesAssumption DEF Procs, QInv, QueueTyped
<1>1. /\ pc[c] = "release" /\ Owns(c)
      /\ pc' = [pc EXCEPT ![c] = "idle"]
      /\ UNCHANGED <<data, enqueuePos, dequeuePos, pos, item, out>>
  BY DEF DeqRelease, Goto, Owns
<1>2. ASSUME NEW t \in Nat PROVE AbsTicket(t)' = AbsTicket(t)
  <2>1. \A r \in Producers : Owns(r)' /\ pos'[r] = t <=> Owns(r) /\ pos[r] = t
    BY <1>0, <1>1 DEF Owns
  <2> QED
    BY <1>1, <2>1, SameTicket
<1>3. AbsQ' = AbsQ
  BY <1>1, <1>2, SameQueue
<1>4. AbsHand' = AbsHand
  BY <1>0, <1>1 DEF AbsHand, Cell
<1>5. c \in AbsHolds /\ AbsHolds' = AbsHolds \ {c}
  BY <1>0, <1>1 DEF AbsHolds, Owns
<1> QED
  BY <1>3, <1>4, <1>5 DEF Fifo!Release

\* For any number of producers, consumers and cells: whatever they do at the same
\* time, the items come out once, in the order their positions were claimed, and
\* are what was put in (tryEnqueue and tryDequeue implement TicketFifo).
THEOREM RefinesFifo == QueueSpec => ImplementsFifo
<1>1. QueueInit => Fifo!FifoInit
  <2> SUFFICES ASSUME QueueInit PROVE Fifo!FifoInit
    OBVIOUS
  <2>1. AbsQ = <<>>
    <3>1. 1 .. enqueuePos - dequeuePos = {}
      BY DEF QueueInit
    <3> QED
      BY <3>1 DEF AbsQ
  <2>2. \A c \in Consumers : pc[c] = "idle" /\ out[c] = Nothing
    BY DEF QueueInit, Procs
  <2> QED
    BY <2>1, <2>2 DEF Fifo!FifoInit, AbsHand, AbsHolds, Owns, Fifo!Nothing, Nothing
<1>2. QInv /\ QInv' /\ [QueueNext]_queueVars => [Fifo!FifoNext]_(Fifo!fifoVars)
  <2> SUFFICES ASSUME QInv, QInv', [QueueNext]_queueVars
               PROVE  Fifo!FifoNext \/ UNCHANGED Fifo!fifoVars
    OBVIOUS
  <2>1. ASSUME NEW p \in Procs, Looks(p) PROVE UNCHANGED Fifo!fifoVars
    BY <2>1, LooksRefines
  <2>2. ASSUME NEW p \in Producers, EnqStep(p) \/ \E v \in Items : EnqStart(p, v)
        PROVE  Fifo!FifoNext \/ UNCHANGED Fifo!fifoVars
    <3>1. CASE EnqCas(p)
      BY <3>1, EnqCasRefines DEF Fifo!FifoNext
    <3>2. CASE EnqPublish(p)
      BY <3>2, EnqPublishRefines DEF Fifo!FifoNext
    <3>3. CASE EnqWrite(p)
      BY <3>3, EnqWriteRefines
    <3>4. CASE Looks(p)
      BY <2>1, <3>4 DEF Procs
    <3> QED
      BY <2>2, <3>1, <3>2, <3>3, <3>4 DEF EnqStep, Looks
  <2>3. ASSUME NEW c \in Consumers, DeqStep(c) \/ DeqStart(c)
        PROVE  Fifo!FifoNext \/ UNCHANGED Fifo!fifoVars
    <3>1. CASE DeqCas(c)
      BY <3>1, DeqCasRefines DEF Fifo!FifoNext
    <3>2. CASE DeqRelease(c)
      BY <3>2, DeqReleaseRefines DEF Fifo!FifoNext
    <3>3. CASE DeqRead(c)
      BY <3>3, DeqReadRefines
    <3>4. CASE Looks(c)
      BY <2>1, <3>4 DEF Procs
    <3> QED
      BY <2>3, <3>1, <3>2, <3>3, <3>4 DEF DeqStep, Looks
  <2>4. CASE UNCHANGED queueVars
    BY <2>4 DEF queueVars, Fifo!fifoVars, AbsQ, AbsHand, AbsHolds, AbsTicket, Writer,
                Owns, Cell
  <2> QED
    BY <2>2, <2>3, <2>4 DEF QueueNext
<1> QED
  BY <1>1, <1>2, QueueInvariance, PTL DEF QueueSpec, ImplementsFifo, Fifo!FifoSpec

-----------------------------------------------------------------------------
(* A queue with one consumer.                                             *)

\* A consumer that is alone holds the position that was taken last.
OneConsumer == \A c, d \in Consumers : c = d
LastTaken == \A c \in Consumers : Owns(c) => pos[c] + 1 = dequeuePos

LEMMA NextLastTaken ==
    ASSUME OneConsumer, QInv, LastTaken, [QueueNext]_queueVars
    PROVE  LastTaken'
<1> SUFFICES ASSUME NEW c \in Consumers, Owns(c)'
             PROVE  pos'[c] + 1 = dequeuePos'
  BY DEF LastTaken
<1>0. /\ Producers \subseteq Procs /\ Consumers \subseteq Procs
      /\ \A p \in Producers : p # c
      /\ pc \in [Procs -> {"idle", "seq", "reload", "cas",
                           "write", "publish", "read", "release"}]
      /\ pos \in [Procs -> Nat] /\ dequeuePos \in Nat
  BY PartiesAssumption DEF Procs, QInv, QueueTyped
<1>1. CASE UNCHANGED queueVars
  BY <1>1 DEF queueVars, LastTaken, Owns
<1>2. ASSUME NEW p \in Producers, EnqStep(p) \/ \E v \in Items : EnqStart(p, v)
      PROVE  pc'[c] = pc[c] /\ pos'[c] = pos[c] /\ dequeuePos' = dequeuePos
  BY <1>0, <1>2 DEF EnqStep, EnqStart, EnqReadSeq, EnqReload, EnqCas, EnqCasFails,
                    EnqWrite, EnqPublish, Goto
<1>3. ASSUME NEW d \in Consumers, DeqStep(d) \/ DeqStart(d)
      PROVE  pos'[c] + 1 = dequeuePos'
  <2>1. d = c
    BY DEF OneConsumer
  <2>2. CASE DeqCas(c)
    BY <1>0, <2>2 DEF DeqCas
  <2>3. CASE DeqRead(c)
    <3>1. Owns(c) /\ pos' = pos /\ dequeuePos' = dequeuePos
      BY <2>3 DEF DeqRead, Owns
    <3> QED
      BY <3>1 DEF LastTaken
  <2>4. CASE DeqStart(c) \/ DeqReadSeq(c) \/ DeqReload(c) \/ DeqCasFails(c) \/ DeqRelease(c)
    BY <1>0, <2>4 DEF DeqStart, DeqReadSeq, DeqReload, DeqCasFails, DeqRelease, Goto, Owns
  <2> QED
    BY <1>3, <2>1, <2>2, <2>3, <2>4 DEF DeqStep
<1> QED
  BY <1>1, <1>2, <1>3 DEF QueueNext, LastTaken, Owns

\* On a queue with one consumer, as the event bus has it, "full" means what the comments
\* at mpmc_queue.hpp:28 and :41 say: every slot is in use.
THEOREM FullIsFullToOne == OneConsumer => (QueueSpec => FullMeansFull)
<1> SUFFICES ASSUME OneConsumer PROVE QueueSpec => FullMeansFull
  OBVIOUS
<1>1. ASSUME QInv, LastTaken, QueueNext, NEW p \in Producers, GivesUp(p)
      PROVE  Fifo!Occupied >= Capacity
  <2>1. enqueuePos >= Capacity /\ InUse(enqueuePos - Capacity)
    BY <1>1, ProducerGivesUp, LapIsInUse
  <2>2. /\ enqueuePos \in Nat /\ dequeuePos \in Nat /\ Capacity \in Nat
        /\ Len(AbsQ) = enqueuePos - dequeuePos
    BY <1>1, CellBasics, QueueOfTickets
  <2>3. Fifo!Occupied = Len(AbsQ) + Cardinality(AbsHolds)
    BY DEF Fifo!Occupied, Fifo!Cardinality, Cardinality, Fifo!IsFiniteSet, IsFiniteSet
  <2>4. CASE \E c \in Consumers : Owns(c)
    <3>1. PICK c \in Consumers : Owns(c)
      BY <2>4
    <3>2. AbsHolds = {c}
      BY <3>1 DEF AbsHolds, OneConsumer
    <3>3. Cardinality(AbsHolds) = 1
      BY <3>2, FS_Singleton
    <3>4. enqueuePos - Capacity >= dequeuePos - 1
      <4>1. CASE dequeuePos <= enqueuePos - Capacity
        BY <2>2, <4>1
      <4>2. ASSUME NEW d \in Consumers, Owns(d), pos[d] = enqueuePos - Capacity
            PROVE  pos[d] + 1 = dequeuePos
        BY <1>1, <4>2 DEF LastTaken
      <4> QED
        BY <2>1, <2>2, <4>1, <4>2 DEF InUse, HeldByConsumer
    <3> QED
      BY <2>2, <2>3, <3>3, <3>4
  <2>5. CASE ~\E c \in Consumers : Owns(c)
    <3>1. AbsHolds = {} /\ dequeuePos <= enqueuePos - Capacity
      BY <2>1, <2>5 DEF AbsHolds, InUse, HeldByConsumer
    <3>2. Cardinality(AbsHolds) = 0
      BY <3>1, FS_EmptySet
    <3> QED
      BY <2>2, <2>3, <3>1, <3>2
  <2> QED
    BY <2>4, <2>5
<1>2. QueueInit => LastTaken
  <2>1. Consumers \subseteq Procs
    BY DEF Procs
  <2> QED
    BY <2>1 DEF QueueInit, LastTaken, Owns
<1>3. QInv /\ LastTaken /\ [QueueNext]_queueVars => LastTaken'
  BY NextLastTaken
<1>4. ASSUME QInv, LastTaken, QueueNext
      PROVE  \A p \in Producers : GivesUp(p) => Fifo!Occupied >= Capacity
  BY <1>1, <1>4
<1> QED
  BY <1>2, <1>3, <1>4, QueueInvariance, PTL DEF QueueSpec, FullMeansFull
=============================================================================
