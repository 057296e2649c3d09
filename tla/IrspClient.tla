------------------------------ MODULE IrspClient ------------------------------
(***************************************************************************)
(* The IRSP clients, sdk/irsp-client/Python/src/irsp_client/client.py and  *)
(* sdk/irsp-client/JS/src/client.js: calls share one connection, a request *)
(* carries no id, and a reply belongs to the oldest call that is queued.   *)
(*                                                                         *)
(* Calls are numbered in the order in which they enter _pending; call 1 is *)
(* the HELLO of connect().  The two clients differ in how a request may    *)
(* fail after that: a Python caller may be cancelled, and an exception in  *)
(* a callback ends its reader.  The server answers in order, which is      *)
(* RepliesInOrder of IrspServer.  A frame in transit is the number of the  *)
(* call it belongs to; pushes carry none and may come at any time.         *)
(***************************************************************************)
EXTENDS Naturals, Sequences

CONSTANT MaxCalls    \* bound: calls made on one connection

ASSUME ClientAssumption == MaxCalls \in Nat \ {0}

Calls == 1 .. MaxCalls
Flavours == {"py", "js"}

VARIABLES flavour,   \* which client this is
          asked,     \* calls made so far
          bye,       \* the call that is a BYE, 0 if there is none
          state,     \* of every call
          got,       \* whose reply a call received, 0 if none
          pending,   \* _pending
          link,      \* what send() finds: "none", "open", "closing", "closed"
          reader,    \* _read_loop / onmessage: "none", "on", "ended", "deaf"
          up,        \* requests given to send() that the server has not read
          down,      \* replies that the client has not read
          server,    \* its end of the connection: "up", "bye" (BYE is answered), "gone"
          \* ghost:
          unsent,    \* calls in _pending whose request never left
          cut        \* the connection ended in another way than by BYE

callVars == <<asked, bye, state, got, pending>>
wireVars == <<up, down, server>>
vars == <<flavour, callVars, link, reader, wireVars, unsent, cut>>

Init ==
    /\ flavour \in Flavours
    /\ asked = 0 /\ bye = 0
    /\ state = [n \in Calls |-> "new"] /\ got = [n \in Calls |-> 0]
    /\ pending = <<>>
    /\ link = "none" /\ reader = "none"
    /\ up = <<>> /\ down = <<>> /\ server = "up"
    /\ unsent = {} /\ cut = FALSE

-----------------------------------------------------------------------------
(* Calls.                                                                  *)

\* _send() queues the call, then gives the request to the connection.
Queue(s) ==
    /\ asked < MaxCalls
    /\ asked' = asked + 1
    /\ state' = [state EXCEPT ![asked + 1] = s]
    /\ pending' = Append(pending, asked + 1)

Sent == up' = IF server = "gone" THEN up ELSE Append(up, asked + 1)

Connect ==
    /\ link = "none"
    /\ Queue("waiting") /\ Sent
    /\ link' = "open" /\ reader' = "on"
    /\ UNCHANGED <<flavour, bye, got, down, server, unsent, cut>>

Ask ==
    /\ link = "open"
    /\ Queue("waiting") /\ Sent
    /\ UNCHANGED <<flavour, bye, got, link, reader, down, server, unsent, cut>>

AskBye ==
    /\ link = "open" /\ bye = 0
    /\ Queue("waiting") /\ Sent
    /\ bye' = asked + 1
    /\ UNCHANGED <<flavour, got, link, reader, down, server, unsent, cut>>

\* The request cannot be encoded, or, in Python, the connection is not open (the
\* JavaScript client looks at readyState first and queues nothing).  The caller gets
\* an exception; the entry stays in _pending.
AskFails ==
    /\ link = "open" \/ (flavour = "py" /\ link \in {"closing", "closed"})
    /\ Queue("failed")
    /\ unsent' = unsent \cup {asked + 1}
    /\ UNCHANGED <<flavour, bye, got, link, reader, wireVars, cut>>

Without(s, n) == SelectSeq(s, LAMBDA m : m # n)

\* Tidies up: the call leaves _pending although its reply will come.
Abandon_LeavesQueue(n) ==
    /\ flavour = "py" /\ state[n] = "waiting"
    /\ state' = [state EXCEPT ![n] = "abandoned"]
    /\ pending' = Without(pending, n)
    /\ UNCHANGED <<flavour, asked, bye, got, link, reader, wireVars, unsent, cut>>

\* The task that awaits the reply is cancelled; its entry keeps its place.
Abandon(n) ==
    /\ flavour = "py" /\ state[n] = "waiting"
    /\ state' = [state EXCEPT ![n] = "abandoned"]
    /\ UNCHANGED <<flavour, asked, bye, got, pending, link, reader, wireVars, unsent, cut>>

\* The task is cancelled while ws.send() waits for its turn to write: the request
\* is withdrawn, its entry stays.
Withdraw(i) ==
    /\ flavour = "py" /\ i \in DOMAIN up /\ state[up[i]] = "waiting"
    /\ state' = [state EXCEPT ![up[i]] = "abandoned"]
    /\ unsent' = unsent \cup {up[i]}
    /\ up' = [j \in 1 .. Len(up) - 1 |-> IF j < i THEN up[j] ELSE up[j + 1]]
    /\ UNCHANGED <<flavour, asked, bye, got, pending, link, reader, down, server, cut>>

-----------------------------------------------------------------------------
(* The server and the connection.                                          *)

Answer ==
    /\ server # "gone" /\ up # <<>>
    /\ up' = Tail(up) /\ down' = Append(down, Head(up))
    /\ server' = IF Head(up) = bye THEN "bye" ELSE server
    /\ UNCHANGED <<flavour, callVars, link, reader, unsent, cut>>

\* After BYE the server closes once everything it queued is written.
ServerCloses ==
    /\ server = "bye"
    /\ server' = "gone" /\ up' = <<>>
    /\ UNCHANGED <<flavour, callVars, link, reader, down, unsent, cut>>

\* The connection ends; of what the server wrote some first part has arrived.
Ends ==
    /\ server # "gone" /\ link # "none"
    /\ server' = "gone" /\ up' = <<>>
    /\ \E k \in 0 .. Len(down) : down' = SubSeq(down, 1, k)
    /\ cut' = TRUE
    /\ UNCHANGED <<flavour, callVars, link, reader, unsent>>

\* It is lost, or the peer answers a close, or does not in time.
Lost == link # "closing" /\ Ends
CloseEnds == link = "closing" /\ Ends

\* The Python connection knows of the end before the reader has read all there is.
LinkNoticesEnd ==
    /\ flavour = "py" /\ server = "gone" /\ link = "open"
    /\ link' = "closed"
    /\ UNCHANGED <<flavour, callVars, reader, wireVars, unsent, cut>>

-----------------------------------------------------------------------------
(* The reader: _read_loop() and _on_frame(), onmessage and onclose.        *)

\* A reply takes the oldest entry, and is dropped when nobody waits for that any
\* more.  A browser delivers no frame once close() was called.
ReadReply ==
    /\ reader = "on" /\ down # <<>>
    /\ flavour = "js" => link = "open"
    /\ LET first == {pending[i] : i \in DOMAIN pending \cap {1}}
           taken == {n \in first : state[n] = "waiting"}
       IN  /\ state' = [n \in Calls |-> IF n \in taken THEN "answered" ELSE state[n]]
           /\ got' = [n \in Calls |-> IF n \in taken THEN Head(down) ELSE got[n]]
    /\ pending' = IF pending = <<>> THEN pending ELSE Tail(pending)
    /\ down' = Tail(down)
    /\ UNCHANGED <<flavour, asked, bye, link, reader, up, server, unsent, cut>>

\* Every call in _pending is told that the connection is closed.
FailPending ==
    /\ pending' = <<>>
    /\ state' = [n \in Calls |->
                    IF state[n] = "waiting" /\ \E i \in DOMAIN pending : pending[i] = n
                    THEN "failed" ELSE state[n]]

\* A push is handed to the callbacks and touches no call, unless one of them raises
\* in Python: the exception leaves _on_frame() and ends the loop, and the
\* connection stays open.
CallbackRaises ==
    /\ flavour = "py" /\ reader = "on"
    /\ FailPending
    /\ reader' = "deaf"
    /\ cut' = TRUE
    /\ UNCHANGED <<flavour, asked, bye, got, link, wireVars, unsent>>

\* Leaves the entries where they are.
ReaderEnds_KeepsPending ==
    /\ reader = "on" /\ server = "gone"
    /\ down = <<>> \/ link = "closing"
    /\ reader' = "ended" /\ link' = "closed"
    /\ UNCHANGED <<flavour, callVars, wireVars, unsent, cut>>

ReaderEnds ==
    /\ reader = "on" /\ server = "gone"
    /\ down = <<>> \/ link = "closing"
    /\ FailPending
    /\ reader' = "ended" /\ link' = "closed"
    /\ UNCHANGED <<flavour, asked, bye, got, wireVars, unsent, cut>>

-----------------------------------------------------------------------------
(* close() and bye().                                                      *)

Close ==
    /\ link = "open"
    /\ link' = "closing" /\ cut' = TRUE
    /\ UNCHANGED <<flavour, callVars, reader, wireVars, unsent>>

\* Closes without waiting for the reply.
ByeCloses_AtOnce ==
    /\ bye # 0 /\ link = "open"
    /\ link' = "closing"
    /\ UNCHANGED <<flavour, callVars, reader, wireVars, unsent, cut>>

\* bye() closes when its call is over, however it ended.
ByeCloses ==
    /\ bye # 0 /\ link = "open"
    /\ state[bye] \in {"answered", "failed"}
    /\ link' = "closing"
    /\ UNCHANGED <<flavour, callVars, reader, wireVars, unsent, cut>>

-----------------------------------------------------------------------------

Next ==
    \/ Connect \/ Ask \/ AskBye \/ AskFails
    \/ (\E n \in Calls : Abandon(n)) \/ (\E i \in Calls : Withdraw(i))
    \/ Answer \/ ServerCloses \/ Lost \/ CloseEnds \/ LinkNoticesEnd
    \/ ReadReply \/ CallbackRaises \/ ReaderEnds
    \/ Close \/ ByeCloses

\* The server answers, the event loop runs, and a close that has begun ends, by
\* its own time-out if need be.  Connections need not be lost.
Fairness ==
    /\ WF_vars(Answer) /\ WF_vars(ServerCloses) /\ WF_vars(CloseEnds)
    /\ WF_vars(ReadReply) /\ WF_vars(ReaderEnds) /\ WF_vars(ByeCloses)

Spec == Init /\ [][Next]_vars /\ Fairness

-----------------------------------------------------------------------------
(* Properties.                                                             *)

\* Types of the client's state.
TypeOK ==
    /\ flavour \in Flavours
    /\ asked \in 0 .. MaxCalls /\ bye \in 0 .. MaxCalls
    /\ state \in [Calls -> {"new", "waiting", "answered", "failed", "abandoned"}]
    /\ got \in [Calls -> 0 .. MaxCalls]
    /\ pending \in Seq(Calls) /\ up \in Seq(Calls) /\ down \in Seq(Calls)
    /\ link \in {"none", "open", "closing", "closed"}
    /\ reader \in {"none", "on", "ended", "deaf"}
    /\ server \in {"up", "bye", "gone"}
    /\ unsent \subseteq Calls /\ cut \in BOOLEAN

\* Neither call n nor one before it was queued without being sent.
Clean(n) == \A m \in 1 .. n : m \notin unsent

\* A call receives the reply to its own request, whoever gives up waiting, whatever is
\* lost and however the connection ends, as long as no request up to its own
\* stayed behind in _pending without being sent: from there on every reply goes to
\* an earlier call than its own.
RepliesGoToTheirRequest ==
    \A n \in Calls : got[n] # 0 /\ Clean(n) => got[n] = n

\* bye() loses nothing: unless the connection ends in another way, no call made
\* before it fails because of it.
ByeLosesNothing ==
    \A n \in Calls : ~cut /\ n < bye /\ state[n] = "failed" => ~Clean(n)

\* Every call ends, with a reply or an exception, but for two cases: a request up to
\* its own was never sent, so that one reply too few comes; or a callback has
\* raised, and from then on nobody reads replies or notices the end.
EveryCallEnds ==
    \A n \in Calls :
        state[n] = "waiting" ~> (state[n] # "waiting" \/ ~Clean(n) \/ reader = "deaf")
=============================================================================
