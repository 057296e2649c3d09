------------------------------- MODULE EventBus -------------------------------
(***************************************************************************)
(* core/event_bus/event_bus.cpp: publishers put events into the queue and  *)
(* release a semaphore; one dispatch thread drains the queue and calls the *)
(* subscribers; start and stop create and join that thread.                *)
(*                                                                         *)
(* The queue is TicketFifo, which MpmcQueue is shown to implement.  An     *)
(* event is published once; the variables after `ghost' record history and *)
(* are read by properties only.  start and stop are called by one thread,  *)
(* as RuntimeEngine does.                                                  *)
(***************************************************************************)
EXTENDS TicketFifo

CONSTANTS Severity,    \* of every event (Items are the events)
          Category,    \* of every event
          Filters,     \* filters subscribers use
          Agenda,      \* the events in the order in which they are published
          MaxSubs,     \* bound: subscriptions made
          MaxStarts    \* bound: calls of start() that start a thread

ASSUME BusAssumption ==
    /\ Cardinality(Consumers) = 1
    /\ Agenda \in Seq(Items) /\ Items = {Agenda[k] : k \in DOMAIN Agenda}
    /\ \A j, k \in DOMAIN Agenda : Agenda[j] = Agenda[k] => j = k
    /\ Capacity \in Nat \ {0}
    /\ MaxSubs \in Nat /\ MaxStarts \in Nat

VARIABLES running,    \* running_
          stopReq,    \* the stop token of the dispatch thread
          signal,     \* count of signal_
          dpc,        \* where the dispatch thread is; "off": there is none
          final,      \* it is in the drain after its loop
          snap,       \* subscriptions deliver() has still to call
          subs,       \* subscriptions_
          nextId,     \* nextId_
          ppc,        \* where every publisher is in publish()
          spc,        \* where the caller of stop() is
          starts,     \* threads started so far
          fresh,      \* events nobody has published yet, in order
          \* ghost:
          order,      \* events in the order their tickets were claimed
          log,        \* events each subscriber's handler was called with
          due,        \* events claimed while the subscription existed
          cutoff,     \* length of log when unsubscribe() returned, if it has
          calm        \* no publish() has overlapped the present stop()

stopVars == <<running, stopReq, spc, starts>>
dispatchVars == <<dpc, final, snap>>
subVars == <<subs, nextId>>
publishVars == <<ppc, fresh>>
ghostVars == <<order, log, due, cutoff, calm>>
vars == <<fifoVars, signal, stopVars, dispatchVars, subVars, publishVars, ghostVars>>

SubIds == 1 .. MaxSubs
Dispatcher == CHOOSE c \in Consumers : TRUE

Init ==
    /\ FifoInit
    /\ running = FALSE /\ stopReq = FALSE /\ signal = 0
    /\ dpc = "off" /\ final = FALSE /\ snap = <<>>
    /\ subs = <<>> /\ nextId = 1
    /\ ppc = [p \in Producers |-> "idle"] /\ spc = "idle" /\ starts = 0
    /\ fresh = Agenda
    /\ order = <<>>
    /\ log = [i \in SubIds |-> <<>>]
    /\ due = [i \in SubIds |-> {}]
    /\ cutoff = [i \in SubIds |-> {}]
    /\ calm = TRUE

\* deliver() calls a handler for the events its filter lets pass.
Accepts(f, e) ==
    /\ Severity[e] >= f.minSeverity
    /\ f.category = "" \/ f.category = Category[e]

-----------------------------------------------------------------------------
(* publish().                                                              *)

\* The event is dropped and counted when every slot is in use: that is what the queue's
\* "full" means as long as the dispatch thread is its only consumer.
PublishDrops(p) ==
    /\ ppc[p] = "idle" /\ fresh # <<>>
    /\ Occupied >= Capacity
    /\ fresh' = Tail(fresh)
    /\ UNCHANGED <<fifoVars, stopVars, dispatchVars, subVars, ghostVars, signal,
                   ppc>>

PublishClaims(p) ==
    /\ ppc[p] = "idle" /\ fresh # <<>>
    /\ fresh' = Tail(fresh)
    /\ ppc' = [ppc EXCEPT ![p] = "enqueue"]
    /\ LET e == Head(fresh)
       IN  /\ Claim(p, e)
           /\ order' = Append(order, e)
           /\ due' = [i \in SubIds |->
                  IF \E k \in DOMAIN subs :
                         subs[k].id = i /\ Accepts(subs[k].filter, e)
                  THEN due[i] \cup {e} ELSE due[i]]
    /\ calm' = FALSE
    /\ UNCHANGED <<stopVars, dispatchVars, subVars, signal, log, cutoff>>

PublishEnqueues(p) ==
    /\ ppc[p] = "enqueue"
    /\ Finish(p)
    /\ ppc' = [ppc EXCEPT ![p] = "signal"]
    /\ UNCHANGED <<stopVars, dispatchVars, subVars, ghostVars, signal, fresh>>

\* The wake-up is forgotten; only the time-out of the dispatch loop is left.
PublishSignals_NoRelease(p) ==
    /\ ppc[p] = "signal"
    /\ signal' = signal
    /\ ppc' = [ppc EXCEPT ![p] = "idle"]
    /\ UNCHANGED <<fifoVars, stopVars, dispatchVars, subVars, ghostVars, fresh>>

PublishSignals(p) ==
    /\ ppc[p] = "signal"
    /\ signal' = signal + 1
    /\ ppc' = [ppc EXCEPT ![p] = "idle"]
    /\ UNCHANGED <<fifoVars, stopVars, dispatchVars, subVars, ghostVars, fresh>>

-----------------------------------------------------------------------------
(* subscribe() and unsubscribe().                                          *)

\* The id is drawn before the lock is taken; nobody knows it before the return.
Subscribe(f) ==
    /\ nextId <= MaxSubs
    /\ subs' = Append(subs, [id |-> nextId, filter |-> f])
    /\ nextId' = nextId + 1
    /\ UNCHANGED <<fifoVars, stopVars, dispatchVars, publishVars, ghostVars,
                   signal>>

\* vector::erase at index k.
Without(s, k) == [j \in 1 .. Len(s) - 1 |-> IF j < k THEN s[j] ELSE s[j + 1]]

\* The subscription is found but stays in the vector.
Unsubscribe_KeepsIt(i) ==
    /\ \E k \in DOMAIN subs : subs[k].id = i
    /\ subs' = subs
    /\ cutoff' = [cutoff EXCEPT ![i] = {Len(log[i])}]
    /\ UNCHANGED <<fifoVars, stopVars, dispatchVars, publishVars, signal,
                   nextId, order, log, due, calm>>

Unsubscribe(i) ==
    /\ \E k \in DOMAIN subs : subs[k].id = i /\ subs' = Without(subs, k)
    /\ cutoff' = [cutoff EXCEPT ![i] = {Len(log[i])}]
    /\ UNCHANGED <<fifoVars, stopVars, dispatchVars, publishVars, signal,
                   nextId, order, log, due, calm>>

-----------------------------------------------------------------------------
(* dispatchLoop() and deliver().                                           *)

\* No drain after the loop.
DispatchTests_NoFinalDrain ==
    /\ dpc = "test"
    /\ dpc' = IF stopReq THEN "exited" ELSE "wait"
    /\ final' = stopReq
    /\ UNCHANGED <<fifoVars, stopVars, subVars, publishVars, ghostVars, signal,
                   snap>>

DispatchTests ==
    /\ dpc = "test"
    /\ dpc' = IF stopReq THEN "drain" ELSE "wait"
    /\ final' = stopReq
    /\ UNCHANGED <<fifoVars, stopVars, subVars, publishVars, ghostVars, signal,
                   snap>>

DispatchWakes ==
    /\ dpc = "wait" /\ signal > 0
    /\ signal' = signal - 1
    /\ dpc' = "drain"
    /\ UNCHANGED <<fifoVars, stopVars, subVars, publishVars, ghostVars, final,
                   snap>>

\* try_acquire_for gives up after 100 ms.
DispatchTimesOut ==
    /\ dpc = "wait"
    /\ dpc' = "drain"
    /\ UNCHANGED <<fifoVars, stopVars, subVars, publishVars, ghostVars, signal,
                   final, snap>>

DispatchTakes ==
    /\ dpc = "drain"
    /\ Take(Dispatcher)
    /\ dpc' = "dequeue"
    /\ UNCHANGED <<stopVars, subVars, publishVars, ghostVars, signal, final,
                   snap>>

DispatchReleases ==
    /\ dpc = "dequeue"
    /\ Release(Dispatcher)
    /\ dpc' = "snapshot"
    /\ UNCHANGED <<stopVars, subVars, publishVars, ghostVars, signal, final,
                   snap>>

DispatchFindsEmpty ==
    /\ dpc = "drain" /\ ~CanTake
    /\ dpc' = IF final THEN "exited" ELSE "test"
    /\ UNCHANGED <<fifoVars, stopVars, subVars, publishVars, ghostVars, signal,
                   final, snap>>

DeliverSnapshots ==
    /\ dpc = "snapshot"
    /\ snap' = subs
    /\ dpc' = "call"
    /\ UNCHANGED <<fifoVars, stopVars, subVars, publishVars, ghostVars, signal,
                   final>>

\* One handler, called with no lock held.
DeliverCalls ==
    /\ dpc = "call" /\ snap # <<>>
    /\ LET sub == Head(snap)
           e == hand[Dispatcher]
       IN  log' = IF Accepts(sub.filter, e)
                  THEN [log EXCEPT ![sub.id] = Append(@, e)] ELSE log
    /\ snap' = Tail(snap)
    /\ UNCHANGED <<fifoVars, stopVars, subVars, publishVars, signal, dpc, final,
                   order, due, cutoff, calm>>

DeliverEnds ==
    /\ dpc = "call" /\ snap = <<>>
    /\ dpc' = "drain"
    /\ UNCHANGED <<fifoVars, stopVars, subVars, publishVars, ghostVars, signal,
                   final, snap>>

-----------------------------------------------------------------------------
(* start() and stop().                                                     *)

Start ==
    /\ ~running /\ spc = "idle" /\ starts < MaxStarts
    /\ running' = TRUE /\ starts' = starts + 1
    /\ stopReq' = FALSE /\ dpc' = "test" /\ final' = FALSE
    /\ UNCHANGED <<fifoVars, subVars, publishVars, ghostVars, signal, snap,
                   spc>>

StopBegins ==
    /\ running /\ spc = "idle"
    /\ running' = FALSE
    /\ spc' = "request"
    /\ calm' = (\A p \in Producers : ppc[p] = "idle")
    /\ UNCHANGED <<fifoVars, dispatchVars, subVars, publishVars, stopReq,
                   signal, starts, order, log, due, cutoff>>

StopRequests ==
    /\ spc = "request"
    /\ stopReq' = TRUE
    /\ spc' = "release"
    /\ UNCHANGED <<fifoVars, dispatchVars, subVars, publishVars, ghostVars,
                   running, signal, starts>>

StopReleases_NoWakeUp ==
    /\ spc = "release"
    /\ signal' = signal
    /\ spc' = "join"
    /\ UNCHANGED <<fifoVars, dispatchVars, subVars, publishVars, ghostVars,
                   running, stopReq, starts>>

StopReleases ==
    /\ spc = "release"
    /\ signal' = signal + 1
    /\ spc' = "join"
    /\ UNCHANGED <<fifoVars, dispatchVars, subVars, publishVars, ghostVars,
                   running, stopReq, starts>>

StopJoins ==
    /\ spc = "join" /\ dpc = "exited"
    /\ spc' = "idle" /\ dpc' = "off"
    /\ UNCHANGED <<fifoVars, subVars, publishVars, ghostVars, running, stopReq,
                   signal, final, snap, starts>>

-----------------------------------------------------------------------------

PublishStep(p) == PublishEnqueues(p) \/ PublishSignals(p)

\* What the dispatch thread does without the help of the clock.
DispatchStep ==
    \/ DispatchTests \/ DispatchWakes \/ DispatchTakes \/ DispatchReleases
    \/ DispatchFindsEmpty \/ DeliverSnapshots \/ DeliverCalls \/ DeliverEnds

StopStep == StopRequests \/ StopReleases \/ StopJoins

Next ==
    \/ \E p \in Producers :
         \/ PublishDrops(p) \/ PublishClaims(p)
         \/ PublishStep(p)
    \/ (\E f \in Filters : Subscribe(f)) \/ (\E i \in SubIds : Unsubscribe(i))
    \/ DispatchStep \/ DispatchTimesOut
    \/ Start \/ StopBegins \/ StopStep

\* Threads that can run do; handlers return.  The time-out of the dispatch loop
\* gets no fairness: nothing may depend on it.
Fairness ==
    /\ WF_vars(DispatchStep)
    /\ WF_vars(StopStep)
    /\ \A p \in Producers : WF_vars(PublishStep(p))

Spec == Init /\ [][Next]_vars /\ Fairness

-----------------------------------------------------------------------------
(* Properties.                                                             *)

\* Types of queue and bus.
TypeOK ==
    /\ q \in Seq(Ticket) /\ Occupied <= Capacity
    /\ hand \in [Consumers -> Items \cup {Nothing}] /\ holds \subseteq Consumers
    /\ running \in BOOLEAN /\ stopReq \in BOOLEAN /\ final \in BOOLEAN
    /\ signal \in Nat /\ starts \in 0 .. MaxStarts
    /\ dpc \in {"off", "test", "wait", "drain", "dequeue", "snapshot", "call",
                "exited"}
    /\ spc \in {"idle", "request", "release", "join"}
    /\ ppc \in [Producers -> {"idle", "enqueue", "signal"}]
    /\ subs \in Seq([id : SubIds, filter : Filters])
    /\ snap \in Seq([id : SubIds, filter : Filters])
    /\ nextId \in 1 .. MaxSubs + 1
    /\ fresh \in Seq(Items)

\* Where event e stands in the order of claims.
Position(e) == CHOOSE k \in DOMAIN order : order[k] = e

\* A subscriber sees events once and in the order in which they entered the
\* queue, across stops and restarts; and it has missed none: when an event
\* reaches it, so has every earlier one that was due to it.
DeliveredInOrder ==
    \A i \in SubIds :
        /\ \A j, k \in DOMAIN log[i] :
              j < k => Position(log[i][j]) < Position(log[i][k])
        /\ cutoff[i] = {} =>
              \A k \in DOMAIN log[i] : \A e \in due[i] :
                  Position(e) < Position(log[i][k]) =>
                      \E j \in DOMAIN log[i] : log[i][j] = e

\* After unsubscribe() has returned its handler may still be called, because
\* deliver() works on a snapshot, but with one event at most.
AtMostOneLateCall ==
    \A i \in SubIds : \A n \in cutoff[i] : Len(log[i]) <= n + 1

Stopped == ~running /\ spc = "idle" /\ starts > 0

\* If no publish() overlaps stop(), stop() leaves no event in the queue.
StopDrainsWhenCalm == Stopped /\ calm => q = <<>>

\* While the bus runs, an event in the queue reaches every subscriber that was
\* there before it, with no help from the time-out: no wake-up is lost.
EventuallyDelivered ==
    \A i \in SubIds, e \in Items :
        (e \in due[i] /\ running) ~>
            (~running \/ cutoff[i] # {} \/ \E k \in DOMAIN log[i] : log[i][k] = e)

\* stop() returns, whether the dispatch thread waits, drains or delivers, with no
\* help from the time-out.
StopReturns == spc # "idle" ~> spc = "idle"
=============================================================================
