----------------------------- MODULE IrspServer -----------------------------
(***************************************************************************)
(* irsp/server/irsp_server.cpp on core/tag_engine/tag_engine.cpp: how a    *)
(* tag written by one thread becomes a push to a client that another       *)
(* thread serves, and how the server stops in the middle of it.            *)
(*                                                                         *)
(* Four kinds of threads: pushers (plugins, the scheduler) that write tags *)
(* and route the change themselves, inside TagEngine::write; the event     *)
(* bus, which calls onEvent; the service thread, in lws_service, the only  *)
(* one that talks to clients; and the thread that calls start and stop.    *)
(*                                                                         *)
(* A value is its version: the number of changes of its tag so far.  A     *)
(* write of an equal value returns at once and is left out.  Everything    *)
(* done under mutex_ is one step, except a SET whose plugin pushes a tag   *)
(* from onWrite: the service thread then runs TagEngine::write and         *)
(* routeTag itself, holding mutex_, which is recursive.                    *)
(***************************************************************************)
EXTENDS Naturals, SequencesExt, FiniteSetsExt

CONSTANTS Pushers,           \* threads that write tags
          Service,           \* the service thread
          Tags, Conns,
          MaxVersion,        \* bound: changes of a tag
          MaxRequests,       \* bound: requests of a client
          MaxEvents,         \* bound: events that are published
          MaxStarts,         \* bound: calls of start()
          WriterPreferring   \* does a waiting writer of std::shared_mutex block new
                             \* readers?  The standard leaves it to the platform.

ASSUME ServerAssumption ==
    /\ Service \notin Pushers
    /\ {MaxVersion, MaxRequests, MaxEvents, MaxStarts} \subseteq Nat
    /\ WriterPreferring \in BOOLEAN

Threads == Pushers \cup {Service}

VARIABLES
    store,       \* TagEngine::shards_: the version of each tag, 0 if it was never written
    callback,    \* TagEngine::changeCallback_ is set
    pc, pushing, \* where a thread is in TagEngine::write, and with which tag
    busPc,       \* where the bus thread is in onEvent
    subscribed,  \* eventSubId_: the bus has the server's handler
    events,      \* events published so far
    status,      \* Conn: "new", "open", "gone" (peer lost), "ended" (closed by us), "closed"
    hello, subs, eventSub,      \* its session and subscriptions
    outbox, closing,            \* Conn::outbox, Conn::closeAfterWrite
    answered, requests,         \* replies queued, requests received
    writable,    \* lws: a writable callback is requested
    cancelled,   \* lws: lws_cancel_service was called
    got,         \* what the client has received
    svc, asker,  \* the service thread, and the connection whose SET it runs
    running, context, ctl, starts  \* running_, context_, the caller of start and stop

tagVars == <<store, callback, pc, pushing>>
busVars == <<busPc, subscribed, events>>
connVars == <<status, hello, subs, eventSub, closing, answered, requests, got>>
ctlVars == <<running, context, ctl, starts>>
vars == <<tagVars, busVars, connVars, outbox, writable, cancelled, svc, asker, ctlVars>>

Reply(n) == [kind |-> "reply", what |-> "none", n |-> n]
TagPush(t, v) == [kind |-> "tag", what |-> t, n |-> v]
EventPush == [kind |-> "event", what |-> "none", n |-> 0]

\* The entries of conns_.
Held == {c \in Conns : status[c] \in {"open", "gone", "ended"}}

MutexFree == svc # "set"
InCallback == {th \in Threads : pc[th] \in {"routing", "waking"}}   \* hold callbackMutex_

Appended(cs, f) == [c \in Conns |-> IF c \in cs THEN Append(outbox[c], f) ELSE outbox[c]]

Init ==
    /\ store = [t \in Tags |-> 0] /\ callback = FALSE
    /\ pc = [th \in Threads |-> "idle"] /\ pushing = [th \in Threads |-> "none"]
    /\ busPc = "idle" /\ subscribed = FALSE /\ events = 0
    /\ status = [c \in Conns |-> "new"]
    /\ hello = [c \in Conns |-> FALSE]
    /\ subs = [c \in Conns |-> {}] /\ eventSub = [c \in Conns |-> FALSE]
    /\ outbox = [c \in Conns |-> <<>>] /\ closing = [c \in Conns |-> FALSE]
    /\ answered = [c \in Conns |-> 0] /\ requests = [c \in Conns |-> 0]
    /\ writable = [c \in Conns |-> FALSE] /\ cancelled = FALSE
    /\ got = [c \in Conns |-> [replies |-> 0, seen |-> [t \in Tags |-> 0]]]
    /\ svc = "none" /\ asker = 0
    /\ running = FALSE /\ context = "none" /\ ctl = "down" /\ starts = 0

-----------------------------------------------------------------------------
(* TagEngine::write and IrspServer::routeTag.                              *)

\* writeImpl() under the shard's lock, for a value that differs.
Store(th, t) ==
    /\ store[t] < MaxVersion
    /\ store' = [store EXCEPT ![t] = @ + 1]
    /\ pc' = [pc EXCEPT ![th] = "changed"]
    /\ pushing' = [pushing EXCEPT ![th] = t]

PushTag(th, t) ==
    /\ th \in Pushers /\ pc[th] = "idle"
    /\ Store(th, t)
    /\ UNCHANGED <<callback, busVars, connVars, outbox, writable, cancelled, svc, asker, ctlVars>>

\* write() takes callbackMutex_ shared; the shard's lock is free again.
TakeCallback(th) ==
    /\ pc[th] = "changed"
    /\ WriterPreferring => ctl \notin {"register", "unregister"}
    /\ pc' = [pc EXCEPT ![th] = IF callback THEN "routing" ELSE "idle"]
    /\ UNCHANGED <<store, callback, pushing, busVars, connVars, outbox, writable, cancelled,
                   svc, asker, ctlVars>>

\* Pushes the value this thread wrote, read before the lock was taken: versions are
\* then routed in the order of the locks, not of the writes.
Route_OwnValue(th) ==
    LET t == pushing[th]
        ids == {c \in Conns : t \in subs[c]}
    IN  /\ pc[th] = "routing"
        /\ MutexFree \/ th = Service
        /\ \E v \in 1 .. store[t] :
             outbox' = Appended(ids \cap Held, TagPush(t, v))
        /\ pc' = [pc EXCEPT ![th] = IF ids = {} THEN "idle" ELSE "waking"]
        /\ UNCHANGED <<store, callback, pushing, busVars, connVars, writable, cancelled,
                       svc, asker, ctlVars>>

\* Returns without a wake-up.
Route_NoWakeUp(th) ==
    LET t == pushing[th]
        ids == {c \in Conns : t \in subs[c]}
    IN  /\ pc[th] = "routing"
        /\ MutexFree \/ th = Service
        /\ outbox' = Appended(ids \cap Held, TagPush(t, store[t]))
        /\ pc' = [pc EXCEPT ![th] = "idle"]
        /\ UNCHANGED <<store, callback, pushing, busVars, connVars, writable, cancelled,
                       svc, asker, ctlVars>>

\* routeTag() under mutex_: the tag is read again, so the frame has the value of now.
Route(th) ==
    LET t == pushing[th]
        ids == {c \in Conns : t \in subs[c]}
    IN  /\ pc[th] = "routing"
        /\ MutexFree \/ th = Service
        /\ outbox' = Appended(ids \cap Held, TagPush(t, store[t]))
        /\ pc' = [pc EXCEPT ![th] = IF ids = {} THEN "idle" ELSE "waking"]
        /\ UNCHANGED <<store, callback, pushing, busVars, connVars, writable, cancelled,
                       svc, asker, ctlVars>>

\* lws_cancel_service(); then the callback returns and callbackMutex_ is released.
Wake(th) ==
    /\ pc[th] = "waking"
    /\ cancelled' = (cancelled \/ context = "alive")
    /\ pc' = [pc EXCEPT ![th] = "idle"]
    /\ UNCHANGED <<store, callback, pushing, busVars, connVars, outbox, writable,
                   svc, asker, ctlVars>>

-----------------------------------------------------------------------------
(* The bus thread: deliver() has copied the subscriptions, then onEvent().  *)

BusTakesHandler ==
    /\ busPc = "idle" /\ subscribed /\ events < MaxEvents
    /\ events' = events + 1
    /\ busPc' = "calling"
    /\ UNCHANGED <<tagVars, subscribed, connVars, outbox, writable, cancelled, svc, asker, ctlVars>>

OnEvent ==
    LET ids == {c \in Conns : eventSub[c]}
    IN  /\ busPc = "calling"
        /\ MutexFree
        /\ outbox' = Appended(ids \cap Held, EventPush)
        /\ busPc' = IF ids = {} THEN "idle" ELSE "waking"
        /\ UNCHANGED <<tagVars, subscribed, events, connVars, writable, cancelled,
                       svc, asker, ctlVars>>

OnEventWakes ==
    /\ busPc = "waking"
    /\ cancelled' = (cancelled \/ context = "alive")
    /\ busPc' = "idle"
    /\ UNCHANGED <<tagVars, subscribed, events, connVars, outbox, writable, svc, asker, ctlVars>>

-----------------------------------------------------------------------------
(* The service thread: dispatchCallback(), then serviceLoop() tests running_. *)

Loops == svc' = IF running THEN "wait" ELSE "ended"

Established(c) ==
    /\ svc = "wait" /\ status[c] = "new"
    /\ \A d \in Conns : d < c => status[d] # "new"    \* nextConnId_
    /\ status' = [status EXCEPT ![c] = "open"]
    /\ Loops
    /\ UNCHANGED <<tagVars, busVars, hello, subs, eventSub, closing, answered, requests, got,
                   outbox, writable, cancelled, asker, ctlVars>>

Request(c) ==
    /\ svc = "wait" /\ status[c] = "open" /\ requests[c] < MaxRequests
    /\ requests' = [requests EXCEPT ![c] = @ + 1]
    /\ UNCHANGED <<busVars, status, got, cancelled, ctlVars>>

\* Replies overtake the pushes that wait.
Answers_First(c) ==
    /\ answered' = [answered EXCEPT ![c] = @ + 1]
    /\ outbox' = [outbox EXCEPT ![c] = <<Reply(answered[c] + 1)>> \o @]
    /\ writable' = [writable EXCEPT ![c] = TRUE]
    /\ Loops
    /\ UNCHANGED <<tagVars, asker>>

\* The reply is queued and a writable callback requested.
Answers(c) ==
    /\ answered' = [answered EXCEPT ![c] = @ + 1]
    /\ outbox' = [outbox EXCEPT ![c] = Append(@, Reply(answered[c] + 1))]
    /\ writable' = [writable EXCEPT ![c] = TRUE]
    /\ Loops
    /\ UNCHANGED <<tagVars, asker>>

\* An empty frame or an empty line: no reply, but the callback is requested.
ReceiveEmpty(c) ==
    /\ Request(c)
    /\ writable' = [writable EXCEPT ![c] = TRUE]
    /\ Loops
    /\ UNCHANGED <<tagVars, hello, subs, eventSub, closing, answered, outbox, asker>>

ReceiveHello(c) ==
    /\ Request(c) /\ Answers(c)
    /\ hello' = [hello EXCEPT ![c] = TRUE]
    /\ UNCHANGED <<subs, eventSub, closing>>

\* Any command that changes nothing: refused before HELLO, refused by the
\* dispatcher, a query, or HELLO with a version that is not supported.
ReceiveQuery(c) ==
    /\ Request(c) /\ Answers(c)
    /\ UNCHANGED <<hello, subs, eventSub, closing>>

\* (UN)WATCH, (UN)SUBSCRIBE, SUBEVENT, UNSUBEVENT.
ReceiveSubscription(c) ==
    /\ Request(c) /\ hello[c] /\ Answers(c)
    /\ \/ /\ \E T \in SUBSET Tags : subs' = [subs EXCEPT ![c] = T]
          /\ UNCHANGED eventSub
       \/ /\ \E on \in BOOLEAN : eventSub' = [eventSub EXCEPT ![c] = on]
          /\ UNCHANGED subs
    /\ UNCHANGED <<hello, closing>>

\* BYE, also before HELLO, or a frame that cannot be decoded.
ReceiveLast(c) ==
    /\ Request(c) /\ Answers(c)
    /\ closing' = [closing EXCEPT ![c] = TRUE]
    /\ UNCHANGED <<hello, subs, eventSub>>

\* SET whose plugin pushes a tag from onWrite(); any other SET is a query here.
ReceiveSet(c, t) ==
    /\ Request(c) /\ hello[c]
    /\ Store(Service, t)
    /\ svc' = "set" /\ asker' = c
    /\ UNCHANGED <<callback, hello, subs, eventSub, closing, answered, outbox, writable>>

\* onWrite() has returned: the reply of the SET.
SetReplies(c) ==
    /\ svc = "set" /\ asker = c /\ pc[Service] = "idle"
    /\ Answers(c)
    /\ UNCHANGED <<busVars, status, hello, subs, eventSub, closing, requests, got, cancelled,
                   ctlVars>>

\* What the client does with a frame.
Delivered(c, f) ==
    got' = [got EXCEPT ![c] =
              CASE f.kind = "reply" -> [@ EXCEPT !.replies = f.n]
                [] f.kind = "tag" -> [@ EXCEPT !.seen[f.what] = f.n]
                [] OTHER -> @]

\* Asks for no further callback.
Writable_AsksOnce(c) ==
    /\ svc = "wait" /\ status[c] = "open" /\ writable[c]
    /\ IF outbox[c] = <<>>
       THEN /\ status' = IF closing[c] THEN [status EXCEPT ![c] = "ended"] ELSE status
            /\ writable' = [writable EXCEPT ![c] = FALSE]
            /\ UNCHANGED <<outbox, got>>
       ELSE /\ Delivered(c, Head(outbox[c]))
            /\ outbox' = [outbox EXCEPT ![c] = Tail(@)]
            /\ writable' = [writable EXCEPT ![c] = FALSE]
            /\ status' = IF closing[c] /\ Len(outbox[c]) = 1
                         THEN [status EXCEPT ![c] = "ended"] ELSE status
    /\ Loops
    /\ UNCHANGED <<tagVars, busVars, hello, subs, eventSub, closing, answered, requests,
                   cancelled, asker, ctlVars>>

\* Closes after the next frame.
Writable_ClosesEarly(c) ==
    /\ svc = "wait" /\ status[c] = "open" /\ writable[c]
    /\ IF outbox[c] = <<>>
       THEN /\ status' = IF closing[c] THEN [status EXCEPT ![c] = "ended"] ELSE status
            /\ writable' = [writable EXCEPT ![c] = FALSE]
            /\ UNCHANGED <<outbox, got>>
       ELSE /\ Delivered(c, Head(outbox[c]))
            /\ outbox' = [outbox EXCEPT ![c] = Tail(@)]
            /\ writable' = [writable EXCEPT ![c] = Len(outbox[c]) > 1]
            /\ status' = IF closing[c] THEN [status EXCEPT ![c] = "ended"] ELSE status
    /\ Loops
    /\ UNCHANGED <<tagVars, busVars, hello, subs, eventSub, closing, answered, requests,
                   cancelled, asker, ctlVars>>

\* SERVER_WRITEABLE: one frame per callback, oldest first, and another callback if
\* there is more; the connection ends when it is closing and nothing is left.
Writable(c) ==
    /\ svc = "wait" /\ status[c] = "open" /\ writable[c]
    /\ IF outbox[c] = <<>>
       THEN /\ status' = IF closing[c] THEN [status EXCEPT ![c] = "ended"] ELSE status
            /\ writable' = [writable EXCEPT ![c] = FALSE]
            /\ UNCHANGED <<outbox, got>>
       ELSE /\ Delivered(c, Head(outbox[c]))
            /\ outbox' = [outbox EXCEPT ![c] = Tail(@)]
            /\ writable' = [writable EXCEPT ![c] = Len(outbox[c]) > 1]
            /\ status' = IF closing[c] /\ Len(outbox[c]) = 1
                         THEN [status EXCEPT ![c] = "ended"] ELSE status
    /\ Loops
    /\ UNCHANGED <<tagVars, busVars, hello, subs, eventSub, closing, answered, requests,
                   cancelled, asker, ctlVars>>

\* lws_write() fails, with the frame already taken, or the peer has gone.
WriteFails(c) ==
    /\ svc = "wait" /\ status[c] = "open"
    /\ status' = [status EXCEPT ![c] = "gone"]
    /\ \/ /\ writable[c] /\ outbox[c] # <<>>
          /\ outbox' = [outbox EXCEPT ![c] = Tail(@)]
       \/ UNCHANGED outbox
    /\ writable' = [writable EXCEPT ![c] = FALSE]
    /\ Loops
    /\ UNCHANGED <<tagVars, busVars, hello, subs, eventSub, closing, answered, requests, got,
                   cancelled, asker, ctlVars>>

\* EVENT_WAIT_CANCELLED: a callback for every connection that has frames to send.
WaitCancelled ==
    /\ svc = "wait" /\ cancelled
    /\ cancelled' = FALSE
    /\ writable' = [c \in Conns |-> writable[c] \/ (c \in Held /\ outbox[c] # <<>>)]
    /\ Loops
    /\ UNCHANGED <<tagVars, busVars, connVars, outbox, asker, ctlVars>>

\* onSessionClosed(), and conns_ loses the connection with its outbox.
Erased(cs) ==
    /\ status' = [c \in Conns |-> IF c \in cs THEN "closed" ELSE status[c]]
    /\ subs' = [c \in Conns |-> IF c \in cs THEN {} ELSE subs[c]]
    /\ eventSub' = [c \in Conns |-> eventSub[c] /\ c \notin cs]
    /\ outbox' = [c \in Conns |-> IF c \in cs THEN <<>> ELSE outbox[c]]
    /\ writable' = [c \in Conns |-> writable[c] /\ c \notin cs]

Closed(c) ==
    /\ svc = "wait" /\ status[c] \in {"gone", "ended"}
    /\ Erased({c})
    /\ Loops
    /\ UNCHANGED <<tagVars, busVars, hello, closing, answered, requests, got, cancelled, asker,
                   ctlVars>>

-----------------------------------------------------------------------------
(* start() and stop(), from one thread.                                    *)

\* running_, then lws_create_context(), which may fail, then the service thread.
Start ==
    /\ ctl = "down" /\ starts < MaxStarts
    /\ starts' = starts + 1
    /\ \/ /\ running' = TRUE /\ context' = "alive" /\ svc' = "wait"
          /\ cancelled' = FALSE
          /\ ctl' = "register"
       \/ UNCHANGED <<running, context, svc, cancelled, ctl>>
    /\ UNCHANGED <<tagVars, busVars, connVars, outbox, writable, asker>>

\* setChangeCallback() takes callbackMutex_ exclusively.
Register ==
    /\ ctl = "register" /\ InCallback = {}
    /\ callback' = TRUE
    /\ ctl' = "subscribe"
    /\ UNCHANGED <<store, pc, pushing, busVars, connVars, outbox, writable, cancelled, svc,
                   asker, running, context, starts>>

Subscribe ==
    /\ ctl = "subscribe"
    /\ subscribed' = TRUE
    /\ ctl' = "up"
    /\ UNCHANGED <<tagVars, busPc, events, connVars, outbox, writable, cancelled, svc, asker,
                   running, context, starts>>

Stop ==
    /\ ctl = "up"
    /\ running' = FALSE
    /\ ctl' = "unregister"
    /\ UNCHANGED <<tagVars, busVars, connVars, outbox, writable, cancelled, svc, asker,
                   context, starts>>

\* Takes the callback away while it may be running.
Unregister_NoLock ==
    /\ ctl = "unregister"
    /\ callback' = FALSE
    /\ ctl' = "unsubscribe"
    /\ UNCHANGED <<store, pc, pushing, busVars, connVars, outbox, writable, cancelled, svc,
                   asker, running, context, starts>>

\* setChangeCallback(nullptr) waits for the callbacks that are running.
Unregister ==
    /\ ctl = "unregister" /\ InCallback = {}
    /\ callback' = FALSE
    /\ ctl' = "unsubscribe"
    /\ UNCHANGED <<store, pc, pushing, busVars, connVars, outbox, writable, cancelled, svc,
                   asker, running, context, starts>>

\* EventBus::unsubscribe() does not wait for a handler that was copied.
Unsubscribe ==
    /\ ctl = "unsubscribe"
    /\ subscribed' = FALSE
    /\ ctl' = "cancel"
    /\ UNCHANGED <<tagVars, busPc, events, connVars, outbox, writable, cancelled, svc, asker,
                   running, context, starts>>

\* request_stop() without the wake-up.
StopWakes_NoCancel ==
    /\ ctl = "cancel"
    /\ ctl' = "join"
    /\ UNCHANGED <<tagVars, busVars, connVars, outbox, writable, cancelled, svc, asker,
                   running, context, starts>>

StopWakes ==
    /\ ctl = "cancel"
    /\ cancelled' = TRUE
    /\ ctl' = "join"
    /\ UNCHANGED <<tagVars, busVars, connVars, outbox, writable, svc, asker,
                   running, context, starts>>

\* join() has returned; lws_context_destroy() closes every connection.
StopDestroys ==
    /\ ctl = "join" /\ svc = "ended"
    /\ Erased(Held)
    /\ context' = "none" /\ ctl' = "down"
    /\ svc' = "none" /\ cancelled' = FALSE
    /\ UNCHANGED <<tagVars, busVars, hello, closing, answered, requests, got, asker,
                   running, starts>>

-----------------------------------------------------------------------------
WriteSteps(th) == TakeCallback(th) \/ Route(th) \/ Wake(th)
BusSteps == OnEvent \/ OnEventWakes

Receive(c) ==
    \/ ReceiveEmpty(c) \/ ReceiveHello(c) \/ ReceiveQuery(c) \/ ReceiveSubscription(c)
    \/ ReceiveLast(c) \/ \E t \in Tags : ReceiveSet(c, t)

StartSteps == Register \/ Subscribe
StopSteps == Unregister \/ Unsubscribe \/ StopWakes \/ StopDestroys

Next ==
    \/ \E th \in Pushers, t \in Tags : PushTag(th, t)
    \/ \E th \in Threads : WriteSteps(th)
    \/ BusTakesHandler \/ BusSteps
    \/ \E c \in Conns : \/ Established(c) \/ Receive(c) \/ SetReplies(c)
                        \/ Writable(c) \/ WriteFails(c) \/ Closed(c)
    \/ WaitCancelled
    \/ Start \/ StartSteps \/ Stop \/ StopSteps

Spec == Init /\ [][Next]_vars

\* Every thread goes on, and lws serves what is pending.
Fairness ==
    /\ \A th \in Threads : WF_vars(WriteSteps(th))
    /\ WF_vars(BusSteps)
    /\ \A c \in Conns : WF_vars(Writable(c)) /\ WF_vars(Closed(c)) /\ WF_vars(SetReplies(c))
    /\ WF_vars(WaitCancelled)
    /\ WF_vars(StartSteps) /\ WF_vars(StopSteps)

FairSpec == Spec /\ Fairness

-----------------------------------------------------------------------------
(* Properties.                                                             *)

TypeOK ==
    /\ store \in [Tags -> 0 .. MaxVersion] /\ callback \in BOOLEAN
    /\ pc \in [Threads -> {"idle", "changed", "routing", "waking"}]
    /\ pushing \in [Threads -> Tags \cup {"none"}]
    /\ busPc \in {"idle", "calling", "waking"} /\ subscribed \in BOOLEAN
    /\ events \in 0 .. MaxEvents
    /\ status \in [Conns -> {"new", "open", "gone", "ended", "closed"}]
    /\ hello \in [Conns -> BOOLEAN] /\ eventSub \in [Conns -> BOOLEAN]
    /\ subs \in [Conns -> SUBSET Tags]
    /\ \A c \in Conns : \A f \in ToSet(outbox[c]) : f.kind \in {"reply", "tag", "event"}
    /\ closing \in [Conns -> BOOLEAN] /\ writable \in [Conns -> BOOLEAN]
    /\ answered \in [Conns -> 0 .. MaxRequests] /\ requests \in [Conns -> 0 .. MaxRequests]
    /\ cancelled \in BOOLEAN /\ running \in BOOLEAN
    /\ got \in [Conns -> [replies : 0 .. MaxRequests, seen : [Tags -> 0 .. MaxVersion]]]
    /\ svc \in {"none", "wait", "set", "ended"} /\ asker \in Conns \cup {0}
    /\ context \in {"none", "alive"} /\ starts \in 0 .. MaxStarts
    /\ ctl \in {"down", "register", "subscribe", "up", "unregister", "unsubscribe", "cancel",
                "join"}
    /\ (svc = "none") = (context = "none")
    /\ \A c \in Conns \ Held : outbox[c] = <<>> /\ subs[c] = {}

RepliesIn(box) == {i \in DOMAIN box : box[i].kind = "reply"}
PushesIn(box, t) == {i \in DOMAIN box : box[i].kind = "tag" /\ box[i].what = t}

\* Whatever threads write a tag and in whatever order they come to the lock, a
\* client never sees an older value of a tag after a newer one.
PushesNeverGoBack ==
    \A c \in Conns, t \in Tags :
        LET box == outbox[c]
        IN  \A i \in PushesIn(box, t) :
               /\ got[c].seen[t] <= box[i].n
               /\ \A j \in PushesIn(box, t) : i < j => box[i].n <= box[j].n

\* Replies reach the client in the order of its requests, none skipped and none
\* twice, between whatever pushes: what it has and what is queued are the replies
\* 1 to answered.  The clients correlate by position only.
RepliesInOrder ==
    \A c \in {d \in Conns : status[d] = "open"} :
        LET box == outbox[c]
        IN  /\ {box[i].n : i \in RepliesIn(box)} = got[c].replies + 1 .. answered[c]
            /\ \A i, j \in RepliesIn(box) : i < j => box[i].n < box[j].n

\* A frame that is queued is never forgotten: a writable callback is requested, or
\* the service thread is about to be told to request it.
NoForgottenFrame ==
    \A c \in Conns :
        status[c] = "open" /\ outbox[c] # <<>>
        => \/ writable[c] \/ cancelled
           \/ \E th \in Threads : pc[th] = "waking"
           \/ busPc = "waking"

\* The server closes a connection after BYE or a bad frame only when the client has
\* got all of its replies.
RepliesBeforeClose ==
    \A c \in Conns : status[c] = "ended" => got[c].replies = answered[c]

\* Once the context is destroyed no thread is in routeTag(), where it would use it.
NoTagCallbackLate == context = "none" => InCallback = {}

\* ... nor in onEvent(): the comment in stop() says the core callbacks are taken out
\* so that none comes in while the server stops.
NoEventCallbackLate == context = "none" => busPc = "idle"

\* A change that is being routed while a client watches the tag reaches it, or a
\* newer one does, unless it stops watching, leaves, or the server stops.
SubscriberConverges ==
    \A c \in Conns, t \in Tags, v \in 1 .. MaxVersion :
        (/\ t \in subs[c] /\ store[t] = v
         /\ \E th \in Threads : pc[th] = "routing" /\ pushing[th] = t)
        ~> (got[c].seen[t] >= v \/ t \notin subs[c] \/ status[c] # "open" \/ ~running)

\* stop() returns: whatever the other threads are doing, the service thread ends and
\* the context is destroyed.
StopReturns == ctl = "unregister" ~> ctl = "down"
=============================================================================
