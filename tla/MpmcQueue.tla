------------------------------ MODULE MpmcQueue ------------------------------
(***************************************************************************)
(* core/event_bus/mpmc_queue.hpp: the bounded lock-free queue, one step    *)
(* per access of shared memory.                                            *)
(*                                                                         *)
(* The buffer is a ring of cells, each with a sequence number and an item. *)
(* A producer whose position equals the cell's sequence number claims the  *)
(* position by compare-and-swap, writes the item and publishes it by       *)
(* storing pos + 1; a consumer waits for that number, claims, moves the    *)
(* item out and frees the cell for the next lap by storing pos + Capacity. *)
(*                                                                         *)
(* Memory order: item accesses are ordered by the release store and the    *)
(* acquire load of `sequence'.  A relaxed load of a position may return an *)
(* old value; so may a load here, by being followed by a pause.            *)
(***************************************************************************)
EXTENDS BoundedQueue, FiniteSetsExt

CONSTANT MaxPos   \* bound: positions claimed, std::size_t in the code

ASSUME QueueAssumption ==
    /\ Capacity \in Nat /\ Capacity >= 2    \* what roundUpPow2 returns
    /\ MaxPos \in Nat

VARIABLES sequence,    \* Cell::sequence
          data,        \* Cell::data
          enqueuePos, dequeuePos,
          pc, pos,     \* of every call of tryEnqueue and tryDequeue
          item,        \* the argument of tryEnqueue
          out          \* the result of tryDequeue

queueVars == <<sequence, data, enqueuePos, dequeuePos, pc, pos, item, out>>

Cells == 0 .. Capacity - 1
Procs == Producers \cup Consumers

\* The capacity the constructor gives a queue for n elements.
RoundUpPow2(n) ==
    IF n < 2 THEN 2 ELSE Min({p \in {2 ^ k : k \in 0 .. n} : p >= n})

\* buffer_[pos & mask_]: the capacity is a power of two.
Cell(position) == position % Capacity

QueueInit ==
    /\ sequence = [k \in Cells |-> k]
    /\ data = [k \in Cells |-> Nothing]
    /\ enqueuePos = 0 /\ dequeuePos = 0
    /\ pc = [p \in Procs |-> "idle"]
    /\ pos = [p \in Procs |-> 0]
    /\ item = [p \in Producers |-> Nothing]
    /\ out = [c \in Consumers |-> Nothing]

Goto(p, label) == pc' = [pc EXCEPT ![p] = label]

-----------------------------------------------------------------------------
(* tryEnqueue.                                                             *)

EnqStart(p, v) ==
    /\ pc[p] = "idle" /\ enqueuePos < MaxPos
    /\ Goto(p, "seq")
    /\ pos' = [pos EXCEPT ![p] = enqueuePos]
    /\ item' = [item EXCEPT ![p] = v]
    /\ UNCHANGED <<sequence, data, enqueuePos, dequeuePos, out>>

\* A stale position is taken for a full queue.
EnqReadSeq_StaleIsFull(p) ==
    /\ pc[p] = "seq"
    /\ Goto(p, IF sequence[Cell(pos[p])] = pos[p] THEN "cas" ELSE "idle")
    /\ UNCHANGED <<sequence, data, enqueuePos, dequeuePos, pos, item, out>>

\* diff = 0: try to claim; diff < 0: full, return false; else reload.
EnqReadSeq(p) ==
    /\ pc[p] = "seq"
    /\ LET seq == sequence[Cell(pos[p])]
       IN  Goto(p, IF seq = pos[p] THEN "cas"
                   ELSE IF seq < pos[p] THEN "idle" ELSE "reload")
    /\ UNCHANGED <<sequence, data, enqueuePos, dequeuePos, pos, item, out>>

EnqReload(p) ==
    /\ pc[p] = "reload"
    /\ Goto(p, "seq")
    /\ pos' = [pos EXCEPT ![p] = enqueuePos]
    /\ UNCHANGED <<sequence, data, enqueuePos, dequeuePos, item, out>>

\* A load and a store instead of the compare-and-swap.
EnqCas_NotAtomic(p) ==
    /\ pc[p] = "cas"
    /\ enqueuePos' = pos[p] + 1
    /\ Goto(p, "write")
    /\ UNCHANGED <<sequence, data, dequeuePos, pos, item, out>>

EnqCas(p) ==
    /\ pc[p] = "cas"
    /\ enqueuePos = pos[p]
    /\ enqueuePos' = pos[p] + 1
    /\ Goto(p, "write")
    /\ UNCHANGED <<sequence, data, dequeuePos, pos, item, out>>

\* The weak compare-and-swap may also fail for no reason.
EnqCasFails(p) ==
    /\ pc[p] = "cas"
    /\ Goto(p, "seq")
    /\ pos' = [pos EXCEPT ![p] = enqueuePos]
    /\ UNCHANGED <<sequence, data, enqueuePos, dequeuePos, item, out>>

EnqWrite(p) ==
    /\ pc[p] = "write"
    /\ data' = [data EXCEPT ![Cell(pos[p])] = item[p]]
    /\ Goto(p, "publish")
    /\ UNCHANGED <<sequence, enqueuePos, dequeuePos, pos, item, out>>

EnqPublish(p) ==
    /\ pc[p] = "publish"
    /\ sequence' = [sequence EXCEPT ![Cell(pos[p])] = pos[p] + 1]
    /\ Goto(p, "idle")
    /\ UNCHANGED <<data, enqueuePos, dequeuePos, pos, item, out>>

-----------------------------------------------------------------------------
(* tryDequeue.                                                             *)

DeqStart(c) ==
    /\ pc[c] = "idle"
    /\ Goto(c, "seq")
    /\ pos' = [pos EXCEPT ![c] = dequeuePos]
    /\ UNCHANGED <<sequence, data, enqueuePos, dequeuePos, item, out>>

\* Compares with pos instead of pos + 1: a claimed cell looks published.
DeqReadSeq_TooEarly(c) ==
    /\ pc[c] = "seq"
    /\ Goto(c, IF sequence[Cell(pos[c])] \in {pos[c], pos[c] + 1}
                  /\ pos[c] < enqueuePos THEN "cas"
               ELSE IF sequence[Cell(pos[c])] < pos[c] + 1 THEN "idle" ELSE "reload")
    /\ UNCHANGED <<sequence, data, enqueuePos, dequeuePos, pos, item, out>>

DeqReadSeq(c) ==
    /\ pc[c] = "seq"
    /\ LET seq == sequence[Cell(pos[c])]
       IN  Goto(c, IF seq = pos[c] + 1 THEN "cas"
                   ELSE IF seq < pos[c] + 1 THEN "idle" ELSE "reload")
    /\ UNCHANGED <<sequence, data, enqueuePos, dequeuePos, pos, item, out>>

DeqReload(c) ==
    /\ pc[c] = "reload"
    /\ Goto(c, "seq")
    /\ pos' = [pos EXCEPT ![c] = dequeuePos]
    /\ UNCHANGED <<sequence, data, enqueuePos, dequeuePos, item, out>>

DeqCas(c) ==
    /\ pc[c] = "cas"
    /\ dequeuePos = pos[c]
    /\ dequeuePos' = pos[c] + 1
    /\ Goto(c, "read")
    /\ UNCHANGED <<sequence, data, enqueuePos, pos, item, out>>

DeqCasFails(c) ==
    /\ pc[c] = "cas"
    /\ Goto(c, "seq")
    /\ pos' = [pos EXCEPT ![c] = dequeuePos]
    /\ UNCHANGED <<sequence, data, enqueuePos, dequeuePos, item, out>>

DeqRead(c) ==
    /\ pc[c] = "read"
    /\ out' = [out EXCEPT ![c] = data[Cell(pos[c])]]
    /\ data' = [data EXCEPT ![Cell(pos[c])] = Nothing]
    /\ Goto(c, "release")
    /\ UNCHANGED <<sequence, enqueuePos, dequeuePos, pos, item>>

\* sequence = pos + mask_ + 1.
DeqRelease(c) ==
    /\ pc[c] = "release"
    /\ sequence' = [sequence EXCEPT ![Cell(pos[c])] = pos[c] + Capacity]
    /\ Goto(c, "idle")
    /\ UNCHANGED <<data, enqueuePos, dequeuePos, pos, item, out>>

-----------------------------------------------------------------------------

EnqStep(p) ==
    \/ EnqReadSeq(p) \/ EnqReload(p) \/ EnqCas(p) \/ EnqCasFails(p)
    \/ EnqWrite(p) \/ EnqPublish(p)

DeqStep(c) ==
    \/ DeqReadSeq(c) \/ DeqReload(c) \/ DeqCas(c) \/ DeqCasFails(c)
    \/ DeqRead(c) \/ DeqRelease(c)

QueueNext ==
    \/ \E p \in Producers : EnqStep(p) \/ \E v \in Items : EnqStart(p, v)
    \/ \E c \in Consumers : DeqStep(c) \/ DeqStart(c)

QueueSpec == QueueInit /\ [][QueueNext]_queueVars

-----------------------------------------------------------------------------
(* Properties.                                                             *)

\* Types; the two positions never cross and are never more than a lap apart.
QueueTypeOK ==
    /\ sequence \in [Cells -> Nat]
    /\ data \in [Cells -> Items \cup {Nothing}]
    /\ enqueuePos \in Nat /\ dequeuePos \in Nat
    /\ dequeuePos <= enqueuePos /\ enqueuePos <= dequeuePos + Capacity
    /\ pc \in [Procs -> {"idle", "seq", "reload", "cas",
                         "write", "publish", "read", "release"}]
    /\ pos \in [Procs -> Nat]
    /\ item \in [Producers -> Items \cup {Nothing}]
    /\ out \in [Consumers -> Items \cup {Nothing}]

\* A call that has claimed a position and has not published or released it.
Owns(p) == pc[p] \in {"write", "publish", "read", "release"}

\* Cell::data is not atomic: between claim and publication or release a cell
\* belongs to one call alone, so no two threads touch its item at once.
NoCellRace ==
    \A p, r \in Procs :
        Owns(p) /\ Owns(r) /\ p # r => Cell(pos[p]) # Cell(pos[r])

HeldByConsumer(t) == \E c \in Consumers : Owns(c) /\ pos[c] = t

\* The cell of a claimed position t is not free: nobody has taken its item, or
\* the consumer that took it has not released the cell.
InUse(t) == dequeuePos <= t \/ HeldByConsumer(t)

\* The position was released before an older one that is still held.
ReleasedAhead(t) == \E c \in Consumers : Owns(c) /\ pos[c] < t

LastLap == enqueuePos - Capacity .. enqueuePos - 1

GivesUp(p) == pc[p] = "seq" /\ pc'[p] = "idle"

\* A call that fails has its reason at that moment, however old the position it
\* worked with.  "Full": the position of one lap ago is still in use, and
\* so is the whole last lap but for the positions that consumers released before an
\* older one; a queue with several consumers may thus be called full, against the
\* comments at mpmc_queue.hpp:28 and :41, while some of its cells are free.
\* "Empty": there is no item, or the oldest one is still being written by its
\* producer.
FailuresAreJustified ==
    [][/\ \A p \in Producers :
            GivesUp(p) =>
                /\ enqueuePos >= Capacity /\ InUse(enqueuePos - Capacity)
                /\ \A t \in LastLap : InUse(t) \/ ReleasedAhead(t)
       /\ \A c \in Consumers :
            GivesUp(c) =>
                \/ dequeuePos = enqueuePos
                \/ \E p \in Producers : Owns(p) /\ pos[p] = dequeuePos]_queueVars

-----------------------------------------------------------------------------
(* Refinement of TicketFifo.                                               *)

Writer(t) == {p \in Producers : Owns(p) /\ pos[p] = t}

AbsTicket(t) ==
    IF Writer(t) = {}
    THEN [item |-> data[Cell(t)], by |-> Ready]
    ELSE LET p == CHOOSE w \in Writer(t) : TRUE
         IN  [item |-> item[p], by |-> p]

AbsQ == [i \in 1 .. enqueuePos - dequeuePos |-> AbsTicket(dequeuePos + i - 1)]

\* A consumer has its item from the moment it claims the position.
AbsHand ==
    [c \in Consumers |->
        IF pc[c] = "read" THEN data[Cell(pos[c])] ELSE out[c]]

AbsHolds == {c \in Consumers : Owns(c)}

Fifo == INSTANCE TicketFifo WITH
    q <- AbsQ, hand <- AbsHand, holds <- AbsHolds

\* Whatever producers and consumers do at the same time, items come out once, in
\* the order in which their positions were claimed, and are what was put in.
ImplementsFifo == Fifo!FifoSpec

\* "Full" in the words of mpmc_queue.hpp:28 and :41: every slot is in use.  It holds
\* with one consumer, as on the event bus, and not with two.
FullMeansFull ==
    [][\A p \in Producers : GivesUp(p) => Fifo!Occupied >= Capacity]_queueVars
=============================================================================
