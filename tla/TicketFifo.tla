----------------------------- MODULE TicketFifo -----------------------------
(***************************************************************************)
(* What MpmcQueue promises: a bounded FIFO in which an enqueue is two      *)
(* moments.  Claiming a ticket fixes the item's place in the order; until  *)
(* its producer has written it, the ticket is pending, and it blocks the   *)
(* head: consumers see an empty queue although later tickets are ready.    *)
(* Taking an item fixes which consumer gets it; its slot is free again     *)
(* only when the consumer has moved the item out.                          *)
(***************************************************************************)
EXTENDS BoundedQueue

VARIABLES q,      \* the tickets nobody has taken, oldest first
          hand,   \* the item each consumer took last
          holds   \* the consumers that still occupy the slot of that item

fifoVars == <<q, hand, holds>>

\* by = Ready: the item is written; otherwise the producer that is writing it.
Ticket == [item : Items, by : Producers \cup {Ready}]

Pending(p) == {i \in DOMAIN q : q[i].by = p}

FifoInit ==
    /\ q = <<>>
    /\ hand = [c \in Consumers |-> Nothing]
    /\ holds = {}

\* The number of slots in use.
Occupied == Len(q) + Cardinality(holds)

Claim(p, v) ==
    /\ Pending(p) = {}
    /\ Occupied < Capacity
    /\ q' = Append(q, [item |-> v, by |-> p])
    /\ UNCHANGED <<hand, holds>>

Finish(p) ==
    /\ \E i \in Pending(p) : q' = [q EXCEPT ![i].by = Ready]
    /\ UNCHANGED <<hand, holds>>

CanTake == q # <<>> /\ Head(q).by = Ready

\* Passes over a head that is still being written.
Take_SkipsPending(c) ==
    /\ c \notin holds
    /\ \E i \in DOMAIN q :
         /\ q[i].by = Ready /\ \A j \in 1 .. i - 1 : q[j].by # Ready
         /\ hand' = [hand EXCEPT ![c] = q[i].item]
         /\ q' = SubSeq(q, 1, i - 1) \o SubSeq(q, i + 1, Len(q))
    /\ holds' = holds \cup {c}

Take(c) ==
    /\ c \notin holds
    /\ CanTake
    /\ hand' = [hand EXCEPT ![c] = Head(q).item]
    /\ holds' = holds \cup {c}
    /\ q' = Tail(q)

Release(c) ==
    /\ c \in holds
    /\ holds' = holds \ {c}
    /\ UNCHANGED <<q, hand>>

FifoNext ==
    \/ \E p \in Producers : Finish(p) \/ \E v \in Items : Claim(p, v)
    \/ \E c \in Consumers : Take(c) \/ Release(c)

FifoSpec == FifoInit /\ [][FifoNext]_fifoVars
=============================================================================
