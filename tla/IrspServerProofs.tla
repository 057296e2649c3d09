-------------------------- MODULE IrspServerProofs --------------------------
(***************************************************************************)
(* For any number of pushers, tags and clients: the frames of a client     *)
(* reach it in order (RepliesInOrder, PushesNeverGoBack), none is          *)
(* forgotten (NoForgottenFrame), the server ends a connection only when    *)
(* its replies are out (RepliesBeforeClose), and no thread is in routeTag  *)
(* once the context is destroyed (NoTagCallbackLate).  The rest of the     *)
(* state (Flags, SubsInv, Limits) matters to its type only (TypeOK).       *)
(*                                                                         *)
(* The last one carries the others: while a thread is in the callback,     *)
(* setChangeCallback(nullptr) has not returned, so the context is there to *)
(* be woken; and while the service thread runs a SET nothing closes the    *)
(* connection that asked.  Of the queue of a client every action does one  *)
(* of a few things: it appends a reply, it appends a push of the value of  *)
(* now, it sends the first frame, or it empties the queue.                 *)
(***************************************************************************)
EXTENDS IrspServer, SequenceTheorems, TLAPS

Frames == {f \in [kind : {"reply", "tag", "event"}, what : Tags \cup {"none"}, n : Nat] :
             f.kind = "tag" => f.what \in Tags}

TypeInv ==
    /\ store \in [Tags -> Nat]
    /\ pc \in [Threads -> {"idle", "changed", "routing", "waking"}]
    /\ pushing \in [Threads -> Tags \cup {"none"}]
    /\ \A th \in Threads : pc[th] # "idle" => pushing[th] \in Tags
    /\ status \in [Conns -> {"new", "open", "gone", "ended", "closed"}]
    /\ outbox \in [Conns -> Seq(Frames)]
    /\ writable \in [Conns -> BOOLEAN]
    /\ answered \in [Conns -> Nat]
    /\ got \in [Conns -> [replies : Nat, seen : [Tags -> Nat]]]

\* Where the server is between start() and stop() says who can be where.
Phases ==
    /\ context = IF ctl = "down" THEN "none" ELSE "alive"
    /\ (svc = "none") <=> (ctl = "down")
    /\ callback => ctl \in {"subscribe", "up", "unregister"}
    /\ \A th \in InCallback : ctl \in {"subscribe", "up", "unregister"}
    /\ \A c \in Held : ctl # "down"

\* The service thread writes a tag only for a SET, of a client that is there.
SetInv ==
    /\ pc[Service] # "idle" => svc = "set"
    /\ svc = "set" => asker \in Conns /\ status[asker] = "open"

\* The replies in a queue are those from g + 1 to a, in this order.
Replies(box, g, a) ==
    /\ {box[i].n : i \in RepliesIn(box)} = g + 1 .. a
    /\ \A i, j \in RepliesIn(box) : i < j => box[i].n < box[j].n

\* The values of t in a queue only grow, from the one the client has seen to that of now.
Pushes(box, t, low, high) ==
    \A i \in PushesIn(box, t) :
        /\ low <= box[i].n /\ box[i].n <= high
        /\ \A j \in PushesIn(box, t) : i < j => box[i].n <= box[j].n

Queue(c) ==
    /\ status[c] \in {"new", "closed"} => outbox[c] = <<>>
    /\ got[c].replies <= answered[c]
    /\ status[c] = "open" => Replies(outbox[c], got[c].replies, answered[c])
    /\ status[c] \in {"new", "ended"} => got[c].replies = answered[c]
    /\ \A t \in Tags : /\ got[c].seen[t] <= store[t]
                       /\ Pushes(outbox[c], t, got[c].seen[t], store[t])

Queues == \A c \in Conns : Queue(c)

IInv == TypeInv /\ Phases /\ SetInv /\ Queues /\ NoForgottenFrame

-----------------------------------------------------------------------------
(* What is done with a queue.                                              *)

LEMMA AppendFrame ==
    ASSUME NEW box \in Seq(Frames), NEW f \in Frames
    PROVE  /\ Append(box, f) \in Seq(Frames)
           /\ DOMAIN Append(box, f) = DOMAIN box \cup {Len(box) + 1}
           /\ Len(box) \in Nat /\ DOMAIN box = 1 .. Len(box)
           /\ \A i \in DOMAIN box : Append(box, f)[i] = box[i] /\ box[i] \in Frames
           /\ Append(box, f)[Len(box) + 1] = f
           /\ Append(box, f) # <<>>
<1>1. /\ Append(box, f) \in Seq(Frames) /\ Len(Append(box, f)) = Len(box) + 1
      /\ Len(box) \in Nat /\ DOMAIN box = 1 .. Len(box)
  OBVIOUS
<1>2. DOMAIN Append(box, f) = 1 .. Len(box) + 1
  BY <1>1
<1>3. Append(box, f) # <<>>
  BY <1>1
<1> QED
  BY <1>1, <1>2, <1>3

LEMMA TailFrames ==
    ASSUME NEW box \in Seq(Frames), box # <<>>
    PROVE  /\ Tail(box) \in Seq(Frames) /\ Head(box) \in Frames /\ Head(box) = box[1]
           /\ Len(box) \in Nat /\ Len(box) >= 1 /\ DOMAIN box = 1 .. Len(box)
           /\ DOMAIN Tail(box) = 1 .. Len(box) - 1
           /\ \A i \in DOMAIN Tail(box) : Tail(box)[i] = box[i + 1] /\ i + 1 \in DOMAIN box
           /\ \A i \in DOMAIN box : box[i] \in Frames
           /\ Tail(box) = <<>> <=> Len(box) = 1
<1>1. Len(box) \in Nat /\ Len(box) >= 1 /\ DOMAIN box = 1 .. Len(box)
  OBVIOUS
<1>2. Tail(box) \in Seq(Frames) /\ Len(Tail(box)) = Len(box) - 1 /\ Head(box) = box[1]
  BY <1>1
<1>3. DOMAIN Tail(box) = 1 .. Len(box) - 1
  BY <1>2
<1>4. \A i \in DOMAIN Tail(box) : Tail(box)[i] = box[i + 1] /\ i + 1 \in DOMAIN box
  BY <1>1, <1>3
<1>5. \A i \in DOMAIN box : box[i] \in Frames
  OBVIOUS
<1>6. Tail(box) = <<>> <=> Len(box) = 1
  <2>1. \A q \in Seq(Frames) : q = <<>> <=> Len(q) = 0
    OBVIOUS
  <2>2. Tail(box) = <<>> <=> Len(Tail(box)) = 0
    BY <1>2, <2>1
  <2> QED
    BY <1>1, <1>2, <2>2
<1> QED
  BY <1>1, <1>2, <1>3, <1>4, <1>5, <1>6

\* The next reply at the end.
LEMMA RepliesAppend ==
    ASSUME NEW box \in Seq(Frames), NEW g \in Nat, NEW a \in Nat, Replies(box, g, a), g <= a
    PROVE  Replies(Append(box, Reply(a + 1)), g, a + 1)
<1> DEFINE f == Reply(a + 1)
           new == Append(box, f)
           m == Len(box) + 1
<1>1. f \in Frames /\ f.kind = "reply" /\ f.n = a + 1
  BY DEF Reply, Frames
<1> HIDE DEF f
<1>2. /\ DOMAIN new = DOMAIN box \cup {m} /\ m \in Nat
      /\ \A i \in DOMAIN box : new[i] = box[i] /\ box[i] \in Frames /\ i \in Nat /\ i < m
      /\ new[m] = f
  BY <1>1, AppendFrame
<1> HIDE DEF new, m
<1>3. RepliesIn(new) = RepliesIn(box) \cup {m}
  BY <1>1, <1>2 DEF RepliesIn
<1>4. \A i \in RepliesIn(box) : i \in DOMAIN box /\ box[i].n \in g + 1 .. a
  BY DEF Replies, RepliesIn
<1>5. {new[i].n : i \in RepliesIn(new)} = (g + 1 .. a) \cup {a + 1}
  <2>1. {new[i].n : i \in RepliesIn(new)} = {box[i].n : i \in RepliesIn(box)} \cup {f.n}
    BY <1>2, <1>3, <1>4
  <2> QED
    BY <2>1, <1>1 DEF Replies
<1>6. (g + 1 .. a) \cup {a + 1} = g + 1 .. a + 1
  OBVIOUS
<1>7. \A i, j \in RepliesIn(new) : i < j => new[i].n < new[j].n
  BY <1>1, <1>2, <1>3, <1>4 DEF Replies
<1> QED
  BY <1>5, <1>6, <1>7 DEF Replies, new, f

\* Another frame at the end.
LEMMA RepliesKeep ==
    ASSUME NEW box \in Seq(Frames), NEW f \in Frames, f.kind # "reply", NEW g, NEW a,
           Replies(box, g, a)
    PROVE  Replies(Append(box, f), g, a)
<1> DEFINE new == Append(box, f)
<1>1. /\ DOMAIN new = DOMAIN box \cup {Len(box) + 1}
      /\ \A i \in DOMAIN box : new[i] = box[i]
      /\ new[Len(box) + 1] = f /\ Len(box) + 1 \notin DOMAIN box
  BY AppendFrame
<1> HIDE DEF new
<1>2. RepliesIn(new) = RepliesIn(box)
  BY <1>1 DEF RepliesIn
<1>3. \A i \in RepliesIn(new) : new[i] = box[i]
  BY <1>1, <1>2 DEF RepliesIn
<1>4. {new[i].n : i \in RepliesIn(new)} = {box[i].n : i \in RepliesIn(box)}
  BY <1>2, <1>3
<1> QED
  BY <1>2, <1>3, <1>4 DEF Replies, new

\* The first frame is taken.
LEMMA RepliesTail ==
    ASSUME NEW box \in Seq(Frames), box # <<>>, NEW g \in Nat, NEW a \in Nat,
           Replies(box, g, a)
    PROVE  /\ Head(box).kind = "reply" => Replies(Tail(box), Head(box).n, a)
           /\ Head(box).kind # "reply" => Replies(Tail(box), g, a)
<1> DEFINE new == Tail(box)
           first == Head(box)
<1>1. /\ DOMAIN box = 1 .. Len(box) /\ Len(box) \in Nat /\ Len(box) >= 1
      /\ DOMAIN new = 1 .. Len(box) - 1
      /\ first = box[1] /\ first.n \in Nat
      /\ \A i \in DOMAIN new : new[i] = box[i + 1]
      /\ \A i \in DOMAIN box : box[i].n \in Nat
  BY TailFrames DEF Frames
<1> HIDE DEF new, first
<1>2. \A i : i \in RepliesIn(new) <=> i \in Nat \ {0} /\ i + 1 \in RepliesIn(box)
  BY <1>1 DEF RepliesIn
<1>3. \A i, j \in RepliesIn(new) : i < j => new[i].n < new[j].n
  <2> SUFFICES ASSUME NEW i \in RepliesIn(new), NEW j \in RepliesIn(new), i < j
               PROVE  new[i].n < new[j].n
    OBVIOUS
  <2>1. i + 1 \in RepliesIn(box) /\ j + 1 \in RepliesIn(box) /\ i + 1 < j + 1
    BY <1>2
  <2>2. new[i] = box[i + 1] /\ new[j] = box[j + 1]
    BY <1>1 DEF RepliesIn
  <2> QED
    BY <2>1, <2>2 DEF Replies
<1>4. {new[i].n : i \in RepliesIn(new)} = {box[i].n : i \in RepliesIn(box) \ {1}}
  <2>1. ASSUME NEW i \in RepliesIn(new)
        PROVE  i + 1 \in RepliesIn(box) \ {1} /\ new[i].n = box[i + 1].n
    BY <1>1, <1>2 DEF RepliesIn
  <2>2. ASSUME NEW i \in RepliesIn(box) \ {1}
        PROVE  i - 1 \in RepliesIn(new) /\ new[i - 1].n = box[i].n
    <3>1. i \in Nat /\ i >= 2 /\ i <= Len(box)
      BY <1>1 DEF RepliesIn
    <3>2. i - 1 \in Nat \ {0} /\ (i - 1) + 1 = i
      BY <3>1
    <3>3. i - 1 \in RepliesIn(new)
      BY <1>2, <3>2
    <3>4. new[i - 1] = box[i]
      BY <1>1, <3>1, <3>2
    <3> QED
      BY <3>3, <3>4
  <2> QED
    BY <2>1, <2>2
<1>5. CASE first.kind = "reply"
  <2>1. 1 \in RepliesIn(box) /\ box[1].n = first.n
    BY <1>1, <1>5 DEF RepliesIn
  <2>2. first.n \in g + 1 .. a /\ \A i \in RepliesIn(box) : box[i].n \in g + 1 .. a
    BY <2>1 DEF Replies
  <2>3. \A i \in RepliesIn(box) \ {1} : first.n < box[i].n
    <3> TAKE i \in RepliesIn(box) \ {1}
    <3>1. i \in RepliesIn(box) /\ 1 < i
      BY <1>1 DEF RepliesIn
    <3> QED
      BY <2>1, <3>1 DEF Replies
  <2>4. first.n = g + 1
    <3>1. g + 1 \in g + 1 .. a
      BY <2>2
    <3>2. PICK i \in RepliesIn(box) : box[i].n = g + 1
      BY <3>1 DEF Replies
    <3>3. i = 1 \/ first.n < g + 1
      BY <2>3, <3>2
    <3> QED
      BY <2>1, <2>2, <3>2, <3>3, <1>1
  <2>5. {box[i].n : i \in RepliesIn(box) \ {1}} = first.n + 1 .. a
    <3>1. ASSUME NEW i \in RepliesIn(box) \ {1} PROVE box[i].n \in first.n + 1 .. a
      BY <2>2, <2>3, <1>1
    <3>2. ASSUME NEW k \in first.n + 1 .. a
          PROVE  \E i \in RepliesIn(box) \ {1} : k = box[i].n
      <4>1. k \in g + 1 .. a /\ k # first.n
        BY <2>4, <1>1
      <4>2. PICK i \in RepliesIn(box) : box[i].n = k
        BY <4>1 DEF Replies
      <4> QED
        BY <2>1, <4>1, <4>2
    <3> QED
      BY <3>1, <3>2
  <2> QED
    BY <1>3, <1>4, <1>5, <2>5 DEF Replies, new, first
<1>6. CASE first.kind # "reply"
  <2>1. 1 \notin RepliesIn(box)
    BY <1>1, <1>6 DEF RepliesIn
  <2>2. RepliesIn(box) \ {1} = RepliesIn(box)
    BY <2>1
  <2> QED
    BY <1>3, <1>4, <1>6, <2>2 DEF Replies, new, first
<1> QED
  BY <1>5, <1>6 DEF first

\* Nothing is left: the client has everything.
LEMMA RepliesEmpty ==
    ASSUME NEW g \in Nat, NEW a \in Nat, g <= a, Replies(<<>>, g, a)
    PROVE  g = a
<1>1. RepliesIn(<<>>) = {}
  BY DEF RepliesIn
<1>2. g + 1 .. a = {}
  BY <1>1 DEF Replies
<1> QED
  BY <1>2

\* A push of the value of now at the end, or another frame.
LEMMA PushesAppend ==
    ASSUME NEW box \in Seq(Frames), NEW f \in Frames, NEW t \in Tags,
           NEW low \in Nat, NEW high \in Nat, low <= high, Pushes(box, t, low, high),
           f.kind = "tag" /\ f.what = t => f.n = high
    PROVE  Pushes(Append(box, f), t, low, high)
<1> DEFINE new == Append(box, f)
           m == Len(box) + 1
<1>1. /\ DOMAIN new = DOMAIN box \cup {m} /\ m \in Nat
      /\ \A i \in DOMAIN box : new[i] = box[i] /\ box[i].n \in Nat /\ i \in Nat /\ i < m
      /\ new[m] = f
  <2>1. /\ DOMAIN new = DOMAIN box \cup {m} /\ m \in Nat /\ new[m] = f
        /\ \A i \in DOMAIN box : new[i] = box[i] /\ box[i] \in Frames /\ i \in Nat /\ i < m
    BY AppendFrame
  <2>2. \A g \in Frames : g.n \in Nat
    BY DEF Frames
  <2> HIDE DEF new, m
  <2> QED
    BY <2>1, <2>2
<1> HIDE DEF new, m
<1>2. \A i \in PushesIn(new, t) : i \in PushesIn(box, t) \/ (i = m /\ new[i].n = high)
  BY <1>1 DEF PushesIn
<1>3. \A i \in PushesIn(box, t) : i \in DOMAIN box /\ new[i] = box[i]
  BY <1>1 DEF PushesIn
<1>4. \A i \in PushesIn(new, t) : new[i].n \in Nat /\ low <= new[i].n /\ new[i].n <= high
  BY <1>1, <1>2, <1>3 DEF Pushes
<1>5. ASSUME NEW i \in PushesIn(new, t), NEW j \in PushesIn(new, t), i < j
      PROVE  new[i].n <= new[j].n
  <2>1. CASE j = m /\ new[j].n = high
    BY <1>4, <2>1
  <2>2. CASE j \in PushesIn(box, t)
    <3>1. i # m
      BY <1>1, <1>3, <1>5, <2>2
    <3>2. i \in PushesIn(box, t)
      BY <1>2, <3>1
    <3> QED
      BY <1>3, <1>5, <2>2, <3>2 DEF Pushes
  <2> QED
    BY <1>2, <2>1, <2>2
<1> QED
  BY <1>4, <1>5 DEF Pushes, new

LEMMA PushesTail ==
    ASSUME NEW box \in Seq(Frames), box # <<>>, NEW t \in Tags,
           NEW low \in Nat, NEW high \in Nat, low <= high, Pushes(box, t, low, high)
    PROVE  LET first == Head(box)
               seen == IF first.kind = "tag" /\ first.what = t THEN first.n ELSE low
           IN  seen <= high /\ Pushes(Tail(box), t, seen, high)
<1> DEFINE new == Tail(box)
           first == Head(box)
           seen == IF first.kind = "tag" /\ first.what = t THEN first.n ELSE low
<1> SUFFICES seen <= high /\ Pushes(Tail(box), t, seen, high)
  OBVIOUS
<1>1. /\ DOMAIN box = 1 .. Len(box) /\ Len(box) \in Nat /\ Len(box) >= 1
      /\ DOMAIN new = 1 .. Len(box) - 1
      /\ first = box[1]
      /\ \A i \in DOMAIN new : new[i] = box[i + 1]
      /\ \A i \in DOMAIN box : box[i].n \in Nat
  BY TailFrames DEF Frames
<1> HIDE DEF new, first
<1>2. \A i \in PushesIn(new, t) :
        i + 1 \in PushesIn(box, t) /\ new[i] = box[i + 1] /\ i \in Nat /\ i >= 1
  BY <1>1 DEF PushesIn
<1>3. seen # low => 1 \in PushesIn(box, t) /\ seen = box[1].n
  BY <1>1 DEF PushesIn
<1>4. seen <= high
  BY <1>3 DEF Pushes
<1>5. \A i \in PushesIn(new, t) : seen <= new[i].n /\ new[i].n <= high
  <2> TAKE i \in PushesIn(new, t)
  <2>1. i + 1 \in PushesIn(box, t) /\ new[i] = box[i + 1] /\ 1 < i + 1
    BY <1>2
  <2>2. CASE seen = low
    BY <2>1, <2>2 DEF Pushes
  <2>3. CASE seen # low
    BY <1>3, <2>1, <2>3 DEF Pushes
  <2> QED
    BY <2>2, <2>3
<1>6. ASSUME NEW i \in PushesIn(new, t), NEW j \in PushesIn(new, t), i < j
      PROVE  new[i].n <= new[j].n
  <2>1. i + 1 < j + 1
    BY <1>2, <1>6
  <2> QED
    BY <1>2, <2>1 DEF Pushes
<1> HIDE DEF seen
<1> QED
  BY <1>4, <1>5, <1>6 DEF Pushes, new

-----------------------------------------------------------------------------
(* Steps that leave the queues alone.                                      *)

\* Values may have become newer.
LEMMA SameQueue ==
    ASSUME TypeInv, NEW c \in Conns, Queue(c),
           status'[c] = status[c], outbox'[c] = outbox[c],
           answered'[c] = answered[c], got'[c] = got[c],
           \A t \in Tags : store'[t] \in Nat /\ store[t] <= store'[t]
    PROVE  Queue(c)'
<1>1. ASSUME NEW t \in Tags
      PROVE  /\ got'[c].seen[t] <= store'[t]
             /\ Pushes(outbox'[c], t, got'[c].seen[t], store'[t])
  <2>1. /\ got[c].seen[t] \in Nat /\ store[t] \in Nat
        /\ \A i \in DOMAIN outbox[c] : outbox[c][i].n \in Nat
    <3>1. outbox[c] \in Seq(Frames) /\ got[c].seen[t] \in Nat /\ store[t] \in Nat
      BY DEF TypeInv
    <3>2. \A f \in Frames : f.n \in Nat
      BY DEF Frames
    <3>3. \A i \in DOMAIN outbox[c] : outbox[c][i] \in Frames
      BY <3>1
    <3> QED
      BY <3>1, <3>2, <3>3
  <2>2. got[c].seen[t] <= store[t] /\ Pushes(outbox[c], t, got[c].seen[t], store[t])
    BY DEF Queue
  <2> QED
    BY <2>1, <2>2 DEF Pushes, PushesIn
<1> QED
  BY <1>1 DEF Queue

LEMMA SameQueues ==
    ASSUME IInv, UNCHANGED <<status, outbox, answered, got>>,
           \A t \in Tags : store'[t] \in Nat /\ store[t] <= store'[t]
    PROVE  Queues'
  BY SameQueue DEF IInv, Queues

LEMMA SameFrames ==
    ASSUME IInv, UNCHANGED <<status, outbox>>, cancelled => cancelled',
           busPc = "waking" => busPc' = "waking",
           \A c \in Conns : writable[c] => writable'[c],
           \A th \in Threads : pc[th] = "waking" => pc'[th] = "waking"
    PROVE  NoForgottenFrame'
  BY DEF IInv, NoForgottenFrame

LEMMA SameStore ==
    ASSUME IInv, UNCHANGED store
    PROVE  \A t \in Tags : store'[t] \in Nat /\ store[t] <= store'[t]
  BY DEF IInv, TypeInv

LEMMA ServiceThread == Service \in Threads /\ Service \notin Pushers /\ Pushers \subseteq Threads
  BY ServerAssumption DEF Threads

LEMMA InitHolds == Init => IInv
<1> SUFFICES ASSUME Init PROVE IInv
  OBVIOUS
<1>1. TypeInv
  BY DEF Init, TypeInv
<1>2. Phases /\ SetInv /\ NoForgottenFrame
  BY ServiceThread DEF Init, Phases, SetInv, NoForgottenFrame, InCallback, Held
<1>3. Queues
  <2> SUFFICES ASSUME NEW c \in Conns PROVE Queue(c)
    BY DEF Queues
  <2>1. outbox[c] = <<>> /\ answered[c] = 0 /\ got[c].replies = 0 /\ status[c] = "new"
        /\ \A t \in Tags : got[c].seen[t] = 0 /\ store[t] = 0
    BY DEF Init
  <2>2. \A t \in Tags : PushesIn(<<>>, t) = {}
    BY DEF PushesIn
  <2>3. \A t \in Tags : Pushes(<<>>, t, 0, 0)
    BY <2>2 DEF Pushes
  <2> QED
    BY <2>1, <2>3 DEF Queue
<1> QED
  BY <1>1, <1>2, <1>3 DEF IInv

\* A write by a pusher, or by the service thread for a SET.
LEMMA PushInv ==
    ASSUME IInv, NEW th \in Pushers, NEW t \in Tags, PushTag(th, t)
    PROVE  IInv'
<1>1. /\ store' = [store EXCEPT ![t] = @ + 1] /\ pc' = [pc EXCEPT ![th] = "changed"]
      /\ pushing' = [pushing EXCEPT ![th] = t] /\ pc[th] = "idle"
      /\ UNCHANGED <<callback, busVars, connVars, outbox, writable, cancelled, svc, asker, ctlVars>>
  BY DEF PushTag, Store
<1>2. TypeInv'
  BY <1>1, ServiceThread DEF IInv, TypeInv, connVars
<1>3. Phases' /\ SetInv'
  BY <1>1, ServiceThread
     DEF IInv, TypeInv, Phases, SetInv, connVars, ctlVars, InCallback, Held
<1>4. Queues'
  BY <1>1, SameQueues DEF IInv, TypeInv, connVars
<1>5. NoForgottenFrame'
  BY <1>1, SameFrames DEF IInv, TypeInv, connVars, busVars
<1> QED
  BY <1>2, <1>3, <1>4, <1>5 DEF IInv

LEMMA ReceiveSetInv ==
    ASSUME IInv, NEW c \in Conns, NEW t \in Tags, ReceiveSet(c, t)
    PROVE  IInv'
<1>1. /\ store' = [store EXCEPT ![t] = @ + 1] /\ pc' = [pc EXCEPT ![Service] = "changed"]
      /\ pushing' = [pushing EXCEPT ![Service] = t]
      /\ svc = "wait" /\ svc' = "set" /\ asker' = c /\ status[c] = "open"
      /\ UNCHANGED <<callback, busVars, status, got, cancelled, ctlVars, answered, outbox,
                     writable>>
  BY DEF ReceiveSet, Store, Request
<1>2. TypeInv'
  BY <1>1, ServiceThread DEF IInv, TypeInv
<1>3. Phases' /\ SetInv'
  BY <1>1, ServiceThread
     DEF IInv, TypeInv, Phases, SetInv, ctlVars, InCallback, Held
<1>4. Queues'
  BY <1>1, SameQueues DEF IInv, TypeInv
<1>5. NoForgottenFrame'
  BY <1>1, SameFrames, ServiceThread DEF IInv, TypeInv, busVars, SetInv
<1> QED
  BY <1>2, <1>3, <1>4, <1>5 DEF IInv

LEMMA TakeCallbackInv ==
    ASSUME IInv, NEW th \in Threads, TakeCallback(th)
    PROVE  IInv'
<1>1. /\ pc[th] = "changed"
      /\ pc' = [pc EXCEPT ![th] = IF callback THEN "routing" ELSE "idle"]
      /\ UNCHANGED <<store, callback, pushing, busVars, connVars, outbox, writable, cancelled,
                   svc, asker, ctlVars>>
  BY DEF TakeCallback
<1>2. TypeInv'
  BY <1>1 DEF IInv, TypeInv, connVars
<1>3. Phases' /\ SetInv'
  BY <1>1, ServiceThread
     DEF IInv, TypeInv, Phases, SetInv, connVars, ctlVars, InCallback, Held
<1>4. Queues'
  BY <1>1, SameQueues, SameStore DEF connVars
<1>5. NoForgottenFrame'
  BY <1>1, SameFrames DEF IInv, TypeInv, connVars, busVars
<1> QED
  BY <1>2, <1>3, <1>4, <1>5 DEF IInv

LEMMA WakeInv ==
    ASSUME IInv, NEW th \in Threads, Wake(th)
    PROVE  IInv'
<1>1. /\ pc[th] = "waking" /\ pc' = [pc EXCEPT ![th] = "idle"]
      /\ cancelled' = (cancelled \/ context = "alive")
      /\ UNCHANGED <<store, callback, pushing, busVars, connVars, outbox, writable,
                   svc, asker, ctlVars>>
  BY DEF Wake
<1>2. TypeInv'
  BY <1>1 DEF IInv, TypeInv, connVars
<1>3. Phases' /\ SetInv'
  BY <1>1, ServiceThread
     DEF IInv, TypeInv, Phases, SetInv, connVars, ctlVars, InCallback, Held
<1>4. Queues'
  BY <1>1, SameQueues, SameStore DEF connVars
<1>5. cancelled'
  <2>1. th \in InCallback
    BY <1>1 DEF InCallback
  <2>2. context = "alive"
    BY <2>1 DEF IInv, Phases
  <2> QED
    BY <1>1, <2>2
<1> QED
  BY <1>2, <1>3, <1>4, <1>5 DEF IInv, NoForgottenFrame

LEMMA BusTakesHandlerInv ==
    ASSUME IInv, BusTakesHandler
    PROVE  IInv'
<1>1. /\ busPc = "idle"
      /\ UNCHANGED <<tagVars, connVars, outbox, writable, cancelled, svc, asker, ctlVars>>
  BY DEF BusTakesHandler
<1>2. TypeInv' /\ Phases' /\ SetInv'
  BY <1>1 DEF IInv, TypeInv, Phases, SetInv, connVars, ctlVars, tagVars, InCallback, Held
<1>3. Queues' /\ NoForgottenFrame'
  BY <1>1, SameQueues, SameStore, SameFrames DEF connVars, tagVars
<1> QED
  BY <1>2, <1>3 DEF IInv

\* Nobody is connected any more when the context is gone.
LEMMA OnEventWakesInv ==
    ASSUME IInv, OnEventWakes
    PROVE  IInv'
<1>1. /\ cancelled' = (cancelled \/ context = "alive")
      /\ UNCHANGED <<tagVars, connVars, outbox, writable, svc, asker, ctlVars>>
  BY DEF OnEventWakes
<1>2. TypeInv' /\ Phases' /\ SetInv'
  BY <1>1 DEF IInv, TypeInv, Phases, SetInv, connVars, ctlVars, tagVars, InCallback, Held
<1>3. Queues'
  BY <1>1, SameQueues, SameStore DEF connVars, tagVars
<1>4. NoForgottenFrame'
  <2> SUFFICES ASSUME NEW c \in Conns, status'[c] = "open", outbox'[c] # <<>>
               PROVE  writable'[c] \/ cancelled' \/ \E th \in Threads : pc'[th] = "waking"
    BY DEF NoForgottenFrame
  <2>1. status[c] = "open" /\ outbox[c] # <<>> /\ writable' = writable /\ pc' = pc
    BY <1>1 DEF connVars, tagVars
  <2>2. context = "alive"
    BY <2>1 DEF IInv, Phases, Held
  <2> QED
    BY <1>1, <2>1, <2>2
<1> QED
  BY <1>2, <1>3, <1>4 DEF IInv

-----------------------------------------------------------------------------
(* Steps that append to queues.                                            *)

\* A push of the value of now, or an event, for some of the clients that are there.
LEMMA PushedQueues ==
    ASSUME IInv, NEW cs \in SUBSET Held, NEW f \in Frames, f.kind # "reply",
           outbox' = Appended(cs, f),
           f.kind = "tag" => f.n = store[f.what],
           UNCHANGED <<store, status, answered, got>>
    PROVE  Queues' /\ outbox' \in [Conns -> Seq(Frames)]
<1>1. \A c \in Conns : outbox[c] \in Seq(Frames)
  BY DEF IInv, TypeInv
<1>2. outbox' \in [Conns -> Seq(Frames)]
  BY <1>1, AppendFrame DEF Appended
<1>3. ASSUME NEW c \in Conns PROVE Queue(c)'
  <2>1. CASE c \notin cs
    <3>1. outbox'[c] = outbox[c]
      BY <2>1 DEF Appended
    <3> QED
      BY <3>1, SameQueue, SameStore DEF IInv, Queues
  <2>2. CASE c \in cs
    <3>1. outbox'[c] = Append(outbox[c], f)
      BY <2>2 DEF Appended
    <3>2. status[c] \in {"open", "gone", "ended"}
      BY <2>2 DEF Held
    <3>3. Queue(c)
      BY DEF IInv, Queues
    <3>4. status[c] = "open" => Replies(outbox'[c], got[c].replies, answered[c])
      BY <1>1, <3>1, <3>3, RepliesKeep DEF Queue
    <3>5. ASSUME NEW t \in Tags
          PROVE  got[c].seen[t] <= store[t] /\ Pushes(outbox'[c], t, got[c].seen[t], store[t])
      <4>1. got[c].seen[t] \in Nat /\ store[t] \in Nat
        BY DEF IInv, TypeInv
      <4>2. got[c].seen[t] <= store[t] /\ Pushes(outbox[c], t, got[c].seen[t], store[t])
        BY <3>3 DEF Queue
      <4> QED
        BY <1>1, <3>1, <4>1, <4>2, PushesAppend
    <3> QED
      BY <3>2, <3>3, <3>4, <3>5 DEF Queue
  <2> QED
    BY <2>1, <2>2
<1> QED
  BY <1>2, <1>3 DEF Queues

LEMMA RouteInv ==
    ASSUME IInv, NEW th \in Threads, Route(th)
    PROVE  IInv'
<1> DEFINE t == pushing[th]
           ids == {c \in Conns : t \in subs[c]}
           f == TagPush(t, store[t])
<1>1. /\ pc[th] = "routing" /\ outbox' = Appended(ids \cap Held, f)
      /\ pc' = [pc EXCEPT ![th] = IF ids = {} THEN "idle" ELSE "waking"]
      /\ UNCHANGED <<store, callback, pushing, busVars, connVars, writable, cancelled,
                     svc, asker, ctlVars>>
  BY DEF Route
<1>2. t \in Tags /\ store[t] \in Nat
  BY <1>1 DEF IInv, TypeInv
<1>3. f \in Frames /\ f.kind = "tag" /\ f.n = store[f.what]
  BY <1>2 DEF TagPush, Frames
<1> HIDE DEF t, f
<1>4. Queues' /\ outbox' \in [Conns -> Seq(Frames)]
  BY <1>1, <1>3, PushedQueues DEF connVars
<1>5. TypeInv'
  BY <1>1, <1>4 DEF IInv, TypeInv, connVars
<1>6. Phases' /\ SetInv'
  BY <1>1, ServiceThread
     DEF IInv, TypeInv, Phases, SetInv, connVars, ctlVars, InCallback, Held
<1>7. NoForgottenFrame'
  <2>1. CASE ids = {}
    <3>1. outbox' = outbox
      BY <1>1, <2>1 DEF Appended, IInv, TypeInv
    <3> QED
      BY <1>1, <3>1, SameFrames DEF IInv, TypeInv, connVars, busVars
  <2>2. CASE ids # {}
    <3>1. pc'[th] = "waking"
      BY <1>1, <2>2 DEF IInv, TypeInv
    <3> QED
      BY <3>1 DEF NoForgottenFrame
  <2> QED
    BY <2>1, <2>2
<1> QED
  BY <1>4, <1>5, <1>6, <1>7 DEF IInv

LEMMA OnEventInv ==
    ASSUME IInv, OnEvent
    PROVE  IInv'
<1> DEFINE ids == {c \in Conns : eventSub[c]}
<1>1. /\ busPc = "calling" /\ outbox' = Appended(ids \cap Held, EventPush)
      /\ busPc' = IF ids = {} THEN "idle" ELSE "waking"
      /\ UNCHANGED <<tagVars, connVars, writable, cancelled, svc, asker, ctlVars>>
  BY DEF OnEvent
<1>2. EventPush \in Frames /\ EventPush.kind = "event"
  BY DEF EventPush, Frames
<1>3. Queues' /\ outbox' \in [Conns -> Seq(Frames)]
  BY <1>1, <1>2, PushedQueues DEF connVars, tagVars
<1>4. TypeInv' /\ Phases' /\ SetInv'
  BY <1>1, <1>3 DEF IInv, TypeInv, Phases, SetInv, connVars, ctlVars, tagVars, InCallback, Held
<1>5. NoForgottenFrame'
  <2>1. CASE ids = {}
    <3>1. outbox' = outbox
      BY <1>1, <2>1 DEF Appended, IInv, TypeInv
    <3> QED
      BY <1>1, <3>1, SameFrames DEF connVars, tagVars
  <2>2. CASE ids # {}
    BY <1>1, <2>2 DEF NoForgottenFrame
  <2> QED
    BY <2>1, <2>2
<1> QED
  BY <1>3, <1>4, <1>5 DEF IInv

\* A command that is answered at once, or a SET that has come back.
LEMMA AnswersInv ==
    ASSUME IInv, NEW c \in Conns, status[c] = "open", pc[Service] = "idle", svc # "none",
           Answers(c), UNCHANGED <<busVars, status, got, cancelled, ctlVars>>
    PROVE  IInv'
<1> DEFINE f == Reply(answered[c] + 1)
<1>1. /\ answered' = [answered EXCEPT ![c] = @ + 1]
      /\ outbox' = [outbox EXCEPT ![c] = Append(@, f)]
      /\ writable' = [writable EXCEPT ![c] = TRUE]
      /\ svc' \in {"wait", "ended"} /\ UNCHANGED <<tagVars, asker>>
  BY DEF Answers, Loops
<1>2. f \in Frames /\ f.kind = "reply"
  BY DEF Reply, Frames, IInv, TypeInv
<1>3. \A d \in Conns : outbox[d] \in Seq(Frames) /\ answered[d] \in Nat /\ got[d].replies \in Nat
  BY DEF IInv, TypeInv
<1>4. TypeInv'
  <2>1. Append(outbox[c], f) \in Seq(Frames)
    BY <1>2, <1>3, AppendFrame
  <2> HIDE DEF f
  <2> QED
    BY <1>1, <2>1 DEF IInv, TypeInv, tagVars
<1>5. Phases' /\ SetInv'
  BY <1>1 DEF IInv, Phases, SetInv, tagVars, ctlVars, InCallback, Held
<1>6. ASSUME NEW d \in Conns PROVE Queue(d)'
  <2>1. CASE d # c
    <3>1. outbox'[d] = outbox[d] /\ answered'[d] = answered[d]
      BY <1>1, <2>1 DEF IInv, TypeInv
    <3> QED
      BY <1>1, <3>1, SameQueue, SameStore DEF IInv, Queues, tagVars
  <2>2. CASE d = c
    <3>1. outbox'[c] = Append(outbox[c], f) /\ answered'[c] = answered[c] + 1
      BY <1>1 DEF IInv, TypeInv
    <3>2. Queue(c)
      BY DEF IInv, Queues
    <3>3. Replies(outbox'[c], got[c].replies, answered'[c])
      BY <1>3, <3>1, <3>2, RepliesAppend DEF Queue
    <3>4. ASSUME NEW t \in Tags
          PROVE  got[c].seen[t] <= store[t] /\ Pushes(outbox'[c], t, got[c].seen[t], store[t])
      <4>1. got[c].seen[t] \in Nat /\ store[t] \in Nat
        BY DEF IInv, TypeInv
      <4>2. got[c].seen[t] <= store[t] /\ Pushes(outbox[c], t, got[c].seen[t], store[t])
        BY <3>2 DEF Queue
      <4> QED
        BY <1>2, <1>3, <3>1, <4>1, <4>2, PushesAppend
    <3>5. got[c].replies <= answered'[c]
      BY <1>3, <3>1, <3>2 DEF Queue
    <3> QED
      BY <1>1, <2>2, <3>3, <3>4, <3>5 DEF Queue, tagVars
  <2> QED
    BY <2>1, <2>2
<1>7. NoForgottenFrame'
  <2> SUFFICES ASSUME NEW d \in Conns, status'[d] = "open", outbox'[d] # <<>>
               PROVE  \/ writable'[d] \/ cancelled'
                      \/ \E th \in Threads : pc'[th] = "waking"
                      \/ busPc' = "waking"
    BY DEF NoForgottenFrame
  <2>1. CASE d = c
    BY <1>1, <2>1 DEF IInv, TypeInv
  <2>2. CASE d # c
    <3>1. outbox'[d] = outbox[d] /\ writable'[d] = writable[d]
      BY <1>1, <2>2 DEF IInv, TypeInv
    <3> QED
      BY <1>1, <3>1 DEF IInv, NoForgottenFrame, tagVars, busVars
  <2> QED
    BY <2>1, <2>2
<1> QED
  BY <1>4, <1>5, <1>6, <1>7 DEF IInv, Queues

LEMMA SetIdle ==
    ASSUME IInv, svc = "wait"
    PROVE  pc[Service] = "idle" /\ ctl # "down" /\ svc # "none"
  BY DEF IInv, Phases, SetInv

LEMMA ReceiveInv ==
    ASSUME IInv, NEW c \in Conns, Receive(c) \/ SetReplies(c)
    PROVE  IInv'
<1>1. CASE ReceiveEmpty(c)
  <2>1. /\ svc = "wait" /\ svc' \in {"wait", "ended"}
        /\ writable' = [writable EXCEPT ![c] = TRUE]
        /\ UNCHANGED <<tagVars, busVars, status, got, answered, outbox, cancelled, asker, ctlVars>>
    BY <1>1 DEF ReceiveEmpty, Request, Loops
  <2>2. TypeInv' /\ Phases' /\ SetInv'
    BY <2>1, SetIdle DEF IInv, TypeInv, Phases, SetInv, tagVars, ctlVars, InCallback, Held
  <2>3. Queues'
    BY <2>1, SameQueues, SameStore DEF tagVars
  <2>4. NoForgottenFrame'
    BY <2>1, SameFrames DEF IInv, TypeInv, tagVars, busVars
  <2> QED
    BY <2>2, <2>3, <2>4 DEF IInv
<1>2. CASE ReceiveHello(c) \/ ReceiveQuery(c) \/ ReceiveSubscription(c) \/ ReceiveLast(c)
  <2>1. Request(c) /\ Answers(c)
    BY <1>2 DEF ReceiveHello, ReceiveQuery, ReceiveSubscription, ReceiveLast
  <2>2. /\ svc = "wait" /\ status[c] = "open"
        /\ UNCHANGED <<busVars, status, got, cancelled, ctlVars>>
    BY <2>1 DEF Request
  <2> QED
    BY <2>1, <2>2, SetIdle, AnswersInv
<1>3. CASE SetReplies(c)
  <2>1. /\ svc = "set" /\ asker = c /\ pc[Service] = "idle" /\ Answers(c)
        /\ UNCHANGED <<busVars, status, got, cancelled, ctlVars>>
    BY <1>3 DEF SetReplies
  <2>2. status[c] = "open"
    BY <2>1 DEF IInv, SetInv
  <2> QED
    BY <2>1, <2>2, AnswersInv
<1>4. CASE \E t \in Tags : ReceiveSet(c, t)
  BY <1>4, ReceiveSetInv
<1> QED
  BY <1>1, <1>2, <1>3, <1>4 DEF Receive

-----------------------------------------------------------------------------
(* Connections, and what is sent to them.                                  *)

LEMMA EmptyQueue ==
    ASSUME NEW n \in Nat
    PROVE  /\ Replies(<<>>, n, n)
           /\ \A t, low, high : Pushes(<<>>, t, low, high)
<1>1. RepliesIn(<<>>) = {} /\ \A t : PushesIn(<<>>, t) = {}
  BY DEF RepliesIn, PushesIn
<1>2. n + 1 .. n = {}
  OBVIOUS
<1> QED
  BY <1>1, <1>2 DEF Replies, Pushes

LEMMA EstablishedInv ==
    ASSUME IInv, NEW c \in Conns, Established(c)
    PROVE  IInv'
<1>1. /\ svc = "wait" /\ svc' \in {"wait", "ended"} /\ status[c] = "new"
      /\ status' = [status EXCEPT ![c] = "open"]
      /\ UNCHANGED <<tagVars, busVars, answered, got, outbox, writable, cancelled, asker, ctlVars>>
  BY DEF Established, Loops
<1>2. TypeInv' /\ Phases' /\ SetInv'
  BY <1>1, SetIdle DEF IInv, TypeInv, Phases, SetInv, tagVars, ctlVars, InCallback, Held
<1>3. outbox[c] = <<>>
  BY <1>1 DEF IInv, Queues, Queue
<1>4. ASSUME NEW d \in Conns PROVE Queue(d)'
  <2>1. CASE d = c
    <3>1. Queue(c) /\ got[c].replies = answered[c] /\ answered[c] \in Nat
      BY <1>1 DEF IInv, Queues, Queue, TypeInv
    <3>2. Replies(<<>>, got[c].replies, answered[c])
      BY <3>1, EmptyQueue
    <3>3. status'[c] = "open"
      BY <1>1 DEF IInv, TypeInv
    <3> QED
      BY <1>1, <1>3, <2>1, <3>1, <3>2, <3>3 DEF Queue, tagVars
  <2>2. CASE d # c
    <3>1. status'[d] = status[d]
      BY <1>1, <2>2 DEF IInv, TypeInv
    <3> QED
      BY <1>1, <3>1, SameQueue, SameStore DEF IInv, Queues, tagVars
  <2> QED
    BY <2>1, <2>2
<1>5. NoForgottenFrame'
  <2> SUFFICES ASSUME NEW d \in Conns, status'[d] = "open", outbox'[d] # <<>>
               PROVE  \/ writable'[d] \/ cancelled'
                      \/ \E th \in Threads : pc'[th] = "waking"
                      \/ busPc' = "waking"
    BY DEF NoForgottenFrame
  <2>1. status[d] = "open"
    BY <1>1, <1>3 DEF IInv, TypeInv
  <2> QED
    BY <1>1, <2>1 DEF IInv, NoForgottenFrame, tagVars, busVars
<1> QED
  BY <1>2, <1>4, <1>5 DEF IInv, Queues

\* What the client does with the first frame.
LEMMA DeliveredGot ==
    ASSUME TypeInv, NEW c \in Conns, NEW f \in Frames, Delivered(c, f)
    PROVE  /\ got' \in [Conns -> [replies : Nat, seen : [Tags -> Nat]]]
           /\ \A d \in Conns : d # c => got'[d] = got[d]
           /\ got'[c].replies = IF f.kind = "reply" THEN f.n ELSE got[c].replies
           /\ \A t \in Tags : got'[c].seen[t] = IF f.kind = "tag" /\ f.what = t THEN f.n
                                                ELSE got[c].seen[t]
<1>0. f.n \in Nat /\ f.kind \in {"reply", "tag", "event"} /\ (f.kind = "tag" => f.what \in Tags)
  BY DEF Frames
<1>1. got \in [Conns -> [replies : Nat, seen : [Tags -> Nat]]]
  BY DEF TypeInv
<1>2. CASE f.kind = "reply"
  <2>1. got' = [got EXCEPT ![c].replies = f.n]
    BY <1>2 DEF Delivered
  <2> QED
    BY <1>0, <1>1, <1>2, <2>1
<1>3. CASE f.kind = "tag"
  <2>1. got' = [got EXCEPT ![c].seen[f.what] = f.n]
    BY <1>3 DEF Delivered
  <2> QED
    BY <1>0, <1>1, <1>3, <2>1
<1>4. CASE f.kind = "event"
  <2>1. got' = got
    BY <1>1, <1>4 DEF Delivered
  <2> QED
    BY <1>1, <1>4, <2>1
<1> QED
  BY <1>0, <1>2, <1>3, <1>4

LEMMA SentQueue ==
    ASSUME IInv, NEW c \in Conns, status[c] = "open", outbox[c] # <<>>,
           Delivered(c, Head(outbox[c])), outbox'[c] = Tail(outbox[c]),
           UNCHANGED <<store, answered>>,
           status'[c] = "open" \/ (status'[c] = "ended" /\ outbox'[c] = <<>>)
    PROVE  Queue(c)'
<1> DEFINE f == Head(outbox[c])
<1>1. /\ outbox[c] \in Seq(Frames) /\ f \in Frames /\ f.n \in Nat
      /\ answered[c] \in Nat /\ got[c].replies \in Nat
      /\ \A t \in Tags : got[c].seen[t] \in Nat /\ store[t] \in Nat
  <2>1. outbox[c] \in Seq(Frames)
    BY DEF IInv, TypeInv
  <2>2. f \in Frames
    BY <2>1, TailFrames
  <2>3. f.n \in Nat
    BY <2>2 DEF Frames
  <2> QED
    BY <2>1, <2>2, <2>3 DEF IInv, TypeInv
<1>2. Queue(c)
  BY DEF IInv, Queues
<1>3. /\ got'[c].replies = IF f.kind = "reply" THEN f.n ELSE got[c].replies
      /\ \A t \in Tags : got'[c].seen[t] = IF f.kind = "tag" /\ f.what = t THEN f.n
                                           ELSE got[c].seen[t]
  BY <1>1, DeliveredGot DEF IInv
<1>4. Replies(outbox'[c], got'[c].replies, answered[c])
  BY <1>1, <1>2, <1>3, RepliesTail DEF Queue
<1>5. got'[c].replies \in Nat /\ got'[c].replies <= answered[c]
  <2>1. CASE f.kind = "reply"
    <3>1. f = outbox[c][1] /\ 1 \in RepliesIn(outbox[c])
      BY <1>1, <2>1, TailFrames DEF RepliesIn
    <3>2. f.n \in got[c].replies + 1 .. answered[c]
      BY <1>2, <3>1 DEF Queue, Replies
    <3> QED
      BY <1>1, <1>3, <2>1, <3>2
  <2>2. CASE f.kind # "reply"
    BY <1>1, <1>2, <1>3, <2>2 DEF Queue
  <2> QED
    BY <2>1, <2>2
<1>6. outbox'[c] = <<>> => got'[c].replies = answered[c]
  BY <1>1, <1>4, <1>5, RepliesEmpty
<1>7. ASSUME NEW t \in Tags
      PROVE  /\ got'[c].seen[t] <= store[t]
             /\ Pushes(outbox'[c], t, got'[c].seen[t], store[t])
  <2>1. got[c].seen[t] <= store[t] /\ Pushes(outbox[c], t, got[c].seen[t], store[t])
    BY <1>2 DEF Queue
  <2> HIDE DEF f
  <2> QED
    BY <1>1, <1>3, <2>1, PushesTail DEF f
<1> HIDE DEF f
<1> QED
  BY <1>4, <1>5, <1>6, <1>7 DEF Queue

LEMMA WritableInv ==
    ASSUME IInv, NEW c \in Conns, Writable(c)
    PROVE  IInv'
<1>1. /\ svc = "wait" /\ svc' \in {"wait", "ended"} /\ status[c] = "open"
      /\ UNCHANGED <<tagVars, busVars, answered, cancelled, asker, ctlVars>>
  BY DEF Writable, Loops
<1>2. outbox[c] \in Seq(Frames) /\ answered[c] \in Nat /\ got[c].replies \in Nat
  BY DEF IInv, TypeInv
<1>3. CASE outbox[c] = <<>>
  <2>1. /\ status' \in {status, [status EXCEPT ![c] = "ended"]}
        /\ writable' = [writable EXCEPT ![c] = FALSE]
        /\ UNCHANGED <<outbox, got>>
    BY <1>3 DEF Writable
  <2>2. TypeInv' /\ Phases' /\ SetInv'
    BY <1>1, <2>1, SetIdle DEF IInv, TypeInv, Phases, SetInv, tagVars, ctlVars, InCallback, Held
  <2>3. ASSUME NEW d \in Conns PROVE Queue(d)'
    <3>1. CASE status'[d] = status[d]
      BY <1>1, <2>1, <3>1, SameQueue, SameStore DEF IInv, Queues, tagVars
    <3>2. CASE status'[d] # status[d]
      <4>1. d = c /\ status'[c] = "ended"
        BY <1>1, <2>1, <3>2 DEF IInv, TypeInv
      <4>2. Queue(c)
        BY DEF IInv, Queues
      <4>3. got[c].replies = answered[c]
        BY <1>1, <1>2, <1>3, <4>2, RepliesEmpty DEF Queue
      <4> QED
        BY <1>1, <2>1, <4>1, <4>2, <4>3 DEF Queue, tagVars
    <3> QED
      BY <3>1, <3>2
  <2>4. NoForgottenFrame'
    <3> SUFFICES ASSUME NEW d \in Conns, status'[d] = "open", outbox'[d] # <<>>
                 PROVE  \/ writable'[d] \/ cancelled'
                        \/ \E th \in Threads : pc'[th] = "waking"
                        \/ busPc' = "waking"
      BY DEF NoForgottenFrame
    <3>1. d # c /\ status[d] = "open" /\ writable'[d] = writable[d]
      BY <1>1, <1>3, <2>1 DEF IInv, TypeInv
    <3> QED
      BY <1>1, <2>1, <3>1 DEF IInv, NoForgottenFrame, tagVars, busVars
  <2> QED
    BY <2>2, <2>3, <2>4 DEF IInv, Queues
<1>4. CASE outbox[c] # <<>>
  <2>1. /\ Delivered(c, Head(outbox[c]))
        /\ outbox' = [outbox EXCEPT ![c] = Tail(@)]
        /\ writable' = [writable EXCEPT ![c] = Len(outbox[c]) > 1]
        /\ status' = IF closing[c] /\ Len(outbox[c]) = 1
                     THEN [status EXCEPT ![c] = "ended"] ELSE status
    BY <1>4 DEF Writable
  <2>2. /\ Head(outbox[c]) \in Frames /\ Tail(outbox[c]) \in Seq(Frames)
        /\ (Tail(outbox[c]) = <<>> <=> Len(outbox[c]) = 1)
        /\ Len(outbox[c]) \in Nat /\ Len(outbox[c]) >= 1
    BY <1>2, <1>4, TailFrames
  <2>3. /\ outbox'[c] = Tail(outbox[c]) /\ writable'[c] = (Len(outbox[c]) > 1)
        /\ \A d \in Conns : d # c => /\ outbox'[d] = outbox[d] /\ writable'[d] = writable[d]
                                     /\ status'[d] = status[d]
        /\ \/ status'[c] = "open"
           \/ status'[c] = "ended" /\ Len(outbox[c]) = 1
    BY <1>1, <2>1 DEF IInv, TypeInv
  <2>4. /\ got' \in [Conns -> [replies : Nat, seen : [Tags -> Nat]]]
        /\ \A d \in Conns : d # c => got'[d] = got[d]
    BY <2>1, <2>2, DeliveredGot DEF IInv
  <2>5. TypeInv'
    <3>1. /\ outbox' \in [Conns -> Seq(Frames)] /\ writable' \in [Conns -> BOOLEAN]
          /\ status' \in [Conns -> {"new", "open", "gone", "ended", "closed"}]
      BY <2>1, <2>2 DEF IInv, TypeInv
    <3> QED
      BY <1>1, <2>4, <3>1 DEF IInv, TypeInv, tagVars
  <2>6. Phases' /\ SetInv'
    BY <1>1, <2>3, SetIdle DEF IInv, Phases, SetInv, tagVars, ctlVars, InCallback, Held
  <2>7. ASSUME NEW d \in Conns PROVE Queue(d)'
    <3>1. CASE d # c
      BY <1>1, <2>3, <2>4, <3>1, SameQueue, SameStore DEF IInv, Queues, tagVars
    <3>2. CASE d = c
      BY <1>1, <1>4, <2>1, <2>2, <2>3, <3>2, SentQueue DEF tagVars
    <3> QED
      BY <3>1, <3>2
  <2>8. NoForgottenFrame'
    <3> SUFFICES ASSUME NEW d \in Conns, status'[d] = "open", outbox'[d] # <<>>
                 PROVE  \/ writable'[d] \/ cancelled'
                        \/ \E th \in Threads : pc'[th] = "waking"
                        \/ busPc' = "waking"
      BY DEF NoForgottenFrame
    <3>1. CASE d = c
      <4>1. Tail(outbox[c]) # <<>>
        BY <2>3, <3>1
      <4>2. Len(outbox[c]) # 1 /\ Len(outbox[c]) \in Nat /\ Len(outbox[c]) >= 1
        BY <2>2, <4>1
      <4>3. \A n \in Nat : n # 1 /\ n >= 1 => n > 1
        OBVIOUS
      <4>4. Len(outbox[c]) > 1
        BY <4>2, <4>3
      <4> QED
        BY <2>3, <3>1, <4>4
    <3>2. CASE d # c
      BY <1>1, <2>3, <3>2 DEF IInv, NoForgottenFrame, tagVars, busVars
    <3> QED
      BY <3>1, <3>2
  <2> QED
    BY <2>5, <2>6, <2>7, <2>8 DEF IInv, Queues
<1> QED
  BY <1>3, <1>4

LEMMA WriteFailsInv ==
    ASSUME IInv, NEW c \in Conns, WriteFails(c)
    PROVE  IInv'
<1>1. /\ svc = "wait" /\ svc' \in {"wait", "ended"} /\ status[c] = "open"
      /\ status' = [status EXCEPT ![c] = "gone"]
      /\ \/ outbox[c] # <<>> /\ outbox' = [outbox EXCEPT ![c] = Tail(@)]
         \/ UNCHANGED outbox
      /\ writable' = [writable EXCEPT ![c] = FALSE]
      /\ UNCHANGED <<tagVars, busVars, answered, got, cancelled, asker, ctlVars>>
  BY DEF WriteFails, Loops
<1>2. outbox[c] \in Seq(Frames) /\ Queue(c)
  BY DEF IInv, TypeInv, Queues
<1>3. /\ outbox' \in [Conns -> Seq(Frames)]
      /\ outbox'[c] = outbox[c] \/ (outbox[c] # <<>> /\ outbox'[c] = Tail(outbox[c]))
      /\ \A d \in Conns : d # c => /\ outbox'[d] = outbox[d] /\ writable'[d] = writable[d]
                                   /\ status'[d] = status[d]
      /\ status'[c] = "gone"
  BY <1>1, <1>2, TailFrames DEF IInv, TypeInv
<1>4. TypeInv' /\ Phases' /\ SetInv'
  BY <1>1, <1>3, SetIdle DEF IInv, TypeInv, Phases, SetInv, tagVars, ctlVars, InCallback, Held
<1>5. ASSUME NEW d \in Conns PROVE Queue(d)'
  <2>1. CASE d # c
    BY <1>1, <1>3, <2>1, SameQueue, SameStore DEF IInv, Queues, tagVars
  <2>2. CASE d = c
    <3>1. ASSUME NEW t \in Tags PROVE Pushes(outbox'[c], t, got[c].seen[t], store[t])
      <4>1. /\ got[c].seen[t] \in Nat /\ store[t] \in Nat /\ got[c].seen[t] <= store[t]
            /\ Pushes(outbox[c], t, got[c].seen[t], store[t])
        BY <1>2 DEF IInv, TypeInv, Queue
      <4>2. CASE outbox[c] # <<>> /\ outbox'[c] = Tail(outbox[c])
        <5> DEFINE f == Head(outbox[c])
                   seen == IF f.kind = "tag" /\ f.what = t THEN f.n ELSE got[c].seen[t]
        <5>1. Pushes(outbox'[c], t, seen, store[t])
          BY <1>2, <4>1, <4>2, PushesTail
        <5>2. got[c].seen[t] <= seen /\ seen \in Nat
          <6>1. f = outbox[c][1] /\ f \in Frames /\ 1 \in DOMAIN outbox[c]
            BY <1>2, <4>2, TailFrames
          <6>2. f.n \in Nat
            BY <6>1 DEF Frames
          <6>3. seen # got[c].seen[t] => 1 \in PushesIn(outbox[c], t) /\ seen = f.n
            BY <6>1 DEF PushesIn
          <6> HIDE DEF f
          <6> QED
            BY <4>1, <6>1, <6>2, <6>3 DEF Pushes
        <5>3. \A i \in DOMAIN outbox'[c] : outbox'[c][i].n \in Nat
          BY <1>2, <4>2, TailFrames DEF Frames
        <5> HIDE DEF seen
        <5> QED
          BY <4>1, <5>1, <5>2, <5>3 DEF Pushes, PushesIn
      <4> QED
        BY <1>3, <4>1, <4>2
    <3> QED
      BY <1>1, <1>2, <1>3, <2>2, <3>1 DEF Queue, tagVars
  <2> QED
    BY <2>1, <2>2
<1>6. NoForgottenFrame'
  <2> SUFFICES ASSUME NEW d \in Conns, status'[d] = "open", outbox'[d] # <<>>
               PROVE  \/ writable'[d] \/ cancelled'
                      \/ \E th \in Threads : pc'[th] = "waking"
                      \/ busPc' = "waking"
    BY DEF NoForgottenFrame
  <2>1. d # c
    BY <1>3
  <2> QED
    BY <1>1, <1>3, <2>1 DEF IInv, NoForgottenFrame, tagVars, busVars
<1> QED
  BY <1>4, <1>5, <1>6 DEF IInv, Queues

LEMMA WaitCancelledInv ==
    ASSUME IInv, WaitCancelled
    PROVE  IInv'
<1>1. /\ svc = "wait" /\ svc' \in {"wait", "ended"}
      /\ writable' = [c \in Conns |-> writable[c] \/ (c \in Held /\ outbox[c] # <<>>)]
      /\ UNCHANGED <<tagVars, busVars, connVars, outbox, asker, ctlVars>>
  BY DEF WaitCancelled, Loops
<1>2. TypeInv' /\ Phases' /\ SetInv'
  <2>1. writable' \in [Conns -> BOOLEAN]
    BY <1>1 DEF IInv, TypeInv
  <2> QED
    BY <1>1, <2>1, SetIdle
       DEF IInv, TypeInv, Phases, SetInv, tagVars, connVars, ctlVars, InCallback, Held
<1>3. Queues'
  BY <1>1, SameQueues, SameStore DEF tagVars, connVars
<1>4. NoForgottenFrame'
  BY <1>1 DEF NoForgottenFrame, Held, connVars
<1> QED
  BY <1>2, <1>3, <1>4 DEF IInv

\* The connections of cs are gone, with their queues.
LEMMA ErasedQueues ==
    ASSUME IInv, NEW cs \in SUBSET {c \in Conns : status[c] # "new"}, Erased(cs),
           UNCHANGED <<store, answered, got>>
    PROVE  /\ Queues'
           /\ outbox' \in [Conns -> Seq(Frames)]
           /\ writable' \in [Conns -> BOOLEAN]
           /\ status' \in [Conns -> {"new", "open", "gone", "ended", "closed"}]
           /\ \A c \in Conns : IF c \in cs THEN status'[c] = "closed"
                               ELSE /\ status'[c] = status[c] /\ outbox'[c] = outbox[c]
                                    /\ writable'[c] = writable[c]
<1>1. /\ status' = [c \in Conns |-> IF c \in cs THEN "closed" ELSE status[c]]
      /\ outbox' = [c \in Conns |-> IF c \in cs THEN <<>> ELSE outbox[c]]
      /\ writable' = [c \in Conns |-> writable[c] /\ c \notin cs]
  BY DEF Erased
<1>2. outbox' \in [Conns -> Seq(Frames)]
  BY <1>1 DEF IInv, TypeInv
<1>3. /\ writable' \in [Conns -> BOOLEAN]
      /\ \A c \in Conns \ cs : writable'[c] = writable[c]
  BY <1>1 DEF IInv, TypeInv
<1>4. status' \in [Conns -> {"new", "open", "gone", "ended", "closed"}]
  BY <1>1 DEF IInv, TypeInv
<1>5. ASSUME NEW c \in Conns PROVE Queue(c)'
  <2>1. CASE c \notin cs
    <3>1. status'[c] = status[c] /\ outbox'[c] = outbox[c]
      BY <1>1, <2>1
    <3> QED
      BY <3>1, SameQueue, SameStore DEF IInv, Queues
  <2>2. CASE c \in cs
    <3>1. status'[c] = "closed" /\ outbox'[c] = <<>>
      BY <1>1, <2>2
    <3>2. \A t \in Tags : Pushes(<<>>, t, got[c].seen[t], store[t])
      BY EmptyQueue
    <3> QED
      BY <3>1, <3>2 DEF IInv, Queues, Queue
  <2> QED
    BY <2>1, <2>2
<1> QED
  BY <1>1, <1>2, <1>3, <1>4, <1>5 DEF Queues

LEMMA ClosedInv ==
    ASSUME IInv, NEW c \in Conns, Closed(c)
    PROVE  IInv'
<1>1. /\ svc = "wait" /\ svc' \in {"wait", "ended"} /\ status[c] \in {"gone", "ended"}
      /\ Erased({c})
      /\ UNCHANGED <<tagVars, busVars, answered, got, cancelled, asker, ctlVars>>
  BY DEF Closed, Loops
<1>2. /\ Queues'
      /\ outbox' \in [Conns -> Seq(Frames)]
      /\ writable' \in [Conns -> BOOLEAN]
      /\ status' \in [Conns -> {"new", "open", "gone", "ended", "closed"}]
      /\ \A d \in Conns : IF d = c THEN status'[d] = "closed"
                          ELSE /\ status'[d] = status[d] /\ outbox'[d] = outbox[d]
                               /\ writable'[d] = writable[d]
  <2>1. {c} \in SUBSET {d \in Conns : status[d] # "new"}
    BY <1>1
  <2>2. UNCHANGED <<store, answered, got>>
    BY <1>1 DEF tagVars
  <2> QED
    BY <1>1, <2>1, <2>2, ErasedQueues
<1>3. TypeInv' /\ Phases' /\ SetInv'
  BY <1>1, <1>2, SetIdle DEF IInv, TypeInv, Phases, SetInv, tagVars, ctlVars, InCallback, Held
<1>4. NoForgottenFrame'
  BY <1>1, <1>2 DEF IInv, NoForgottenFrame, tagVars, busVars
<1> QED
  BY <1>2, <1>3, <1>4 DEF IInv

-----------------------------------------------------------------------------
(* start() and stop().                                                     *)

LEMMA StartInv ==
    ASSUME IInv, Start
    PROVE  IInv'
<1>1. CASE UNCHANGED <<context, svc, cancelled, ctl>>
  <2>1. UNCHANGED <<tagVars, busVars, connVars, outbox, writable, asker>>
    BY DEF Start
  <2>2. TypeInv' /\ Phases' /\ SetInv'
    BY <1>1, <2>1 DEF IInv, TypeInv, Phases, SetInv, tagVars, connVars, InCallback, Held
  <2>3. Queues' /\ NoForgottenFrame'
    BY <1>1, <2>1, SameQueues, SameStore, SameFrames DEF tagVars, connVars, busVars
  <2> QED
    BY <2>2, <2>3 DEF IInv
<1>2. CASE ctl = "down" /\ context' = "alive" /\ svc' = "wait" /\ ctl' = "register"
  <2>1. UNCHANGED <<tagVars, busVars, connVars, outbox, writable, asker>>
    BY DEF Start
  <2>2. svc = "none" /\ InCallback = {} /\ Held = {} /\ ~callback
    BY <1>2 DEF IInv, Phases
  <2>3. pc[Service] = "idle"
    BY <2>2 DEF IInv, SetInv
  <2>4. TypeInv' /\ Phases' /\ SetInv'
    BY <1>2, <2>1, <2>2, <2>3
       DEF IInv, TypeInv, Phases, SetInv, tagVars, connVars, InCallback, Held
  <2>5. Queues'
    BY <1>2, <2>1, SameQueues, SameStore DEF tagVars, connVars
  <2>6. NoForgottenFrame'
    BY <2>1, <2>2 DEF NoForgottenFrame, Held, connVars
  <2> QED
    BY <2>4, <2>5, <2>6 DEF IInv
<1> QED
  BY <1>1, <1>2 DEF Start

\* The steps of start() and stop() between the two ends.
LEMMA MiddleInv ==
    ASSUME IInv,
           Register \/ Subscribe \/ Stop \/ Unregister \/ Unsubscribe \/ StopWakes
    PROVE  IInv'
<1>1. /\ ctl \in {"register", "subscribe", "up", "unregister", "unsubscribe", "cancel"}
      /\ ctl' \in {"subscribe", "up", "unregister", "unsubscribe", "cancel", "join"}
      /\ cancelled => cancelled'
      /\ UNCHANGED <<store, pc, pushing, busPc, connVars, outbox, writable, svc, asker, context>>
  BY DEF Register, Subscribe, Stop, Unregister, Unsubscribe, StopWakes, tagVars, busVars
<1>2. /\ callback' => ctl' \in {"subscribe", "up", "unregister"}
      /\ InCallback # {} => ctl' \in {"subscribe", "up", "unregister"}
  BY DEF IInv, Phases, Register, Subscribe, Stop, Unregister, Unsubscribe, StopWakes, tagVars
<1>3. TypeInv' /\ Phases' /\ SetInv'
  BY <1>1, <1>2 DEF IInv, TypeInv, Phases, SetInv, connVars, InCallback, Held
<1>4. Queues' /\ NoForgottenFrame'
  BY <1>1, SameQueues, SameStore, SameFrames DEF connVars
<1> QED
  BY <1>3, <1>4 DEF IInv

LEMMA StopDestroysInv ==
    ASSUME IInv, StopDestroys
    PROVE  IInv'
<1>1. /\ ctl = "join" /\ svc = "ended" /\ Erased(Held)
      /\ context' = "none" /\ ctl' = "down" /\ svc' = "none"
      /\ UNCHANGED <<tagVars, busVars, answered, got, asker>>
  BY DEF StopDestroys
<1>2. InCallback = {} /\ ~callback /\ pc[Service] = "idle"
  BY <1>1 DEF IInv, Phases, SetInv
<1>3. /\ Queues'
      /\ outbox' \in [Conns -> Seq(Frames)]
      /\ writable' \in [Conns -> BOOLEAN]
      /\ status' \in [Conns -> {"new", "open", "gone", "ended", "closed"}]
      /\ \A c \in Conns : IF c \in Held THEN status'[c] = "closed"
                          ELSE status'[c] = status[c]
  <2>1. Held \in SUBSET {d \in Conns : status[d] # "new"}
    BY DEF Held
  <2>2. UNCHANGED <<store, answered, got>>
    BY <1>1 DEF tagVars
  <2> QED
    BY <1>1, <2>1, <2>2, ErasedQueues
<1>4. \A c \in Conns : status'[c] \notin {"open", "gone", "ended"}
  BY <1>3 DEF Held
<1>5. TypeInv' /\ Phases' /\ SetInv'
  BY <1>1, <1>2, <1>3, <1>4 DEF IInv, TypeInv, Phases, SetInv, tagVars, InCallback, Held
<1>6. NoForgottenFrame'
  BY <1>4 DEF NoForgottenFrame
<1> QED
  BY <1>3, <1>5, <1>6 DEF IInv

LEMMA Inductive == IInv /\ [Next]_vars => IInv'
<1> SUFFICES ASSUME IInv, [Next]_vars PROVE IInv'
  OBVIOUS
<1>1. CASE UNCHANGED vars
  <2>1. TypeInv' /\ Phases' /\ SetInv'
    BY <1>1 DEF IInv, TypeInv, Phases, SetInv, InCallback, Held, vars, tagVars, connVars, ctlVars
  <2>2. Queues' /\ NoForgottenFrame'
    BY <1>1, SameQueues, SameStore, SameFrames DEF vars, tagVars, connVars, busVars
  <2> QED
    BY <2>1, <2>2 DEF IInv
<1>2. CASE \E th \in Pushers, t \in Tags : PushTag(th, t)
  BY <1>2, PushInv
<1>3. CASE \E th \in Threads : WriteSteps(th)
  BY <1>3, TakeCallbackInv, RouteInv, WakeInv DEF WriteSteps
<1>4. CASE BusTakesHandler \/ BusSteps
  BY <1>4, BusTakesHandlerInv, OnEventInv, OnEventWakesInv DEF BusSteps
<1>5. CASE \E c \in Conns : \/ Established(c) \/ Receive(c) \/ SetReplies(c)
                            \/ Writable(c) \/ WriteFails(c) \/ Closed(c)
  BY <1>5, EstablishedInv, ReceiveInv, WritableInv, WriteFailsInv, ClosedInv
<1>6. CASE WaitCancelled
  BY <1>6, WaitCancelledInv
<1>7. CASE Start \/ StartSteps \/ Stop \/ StopSteps
  BY <1>7, StartInv, MiddleInv, StopDestroysInv DEF StartSteps, StopSteps
<1> QED
  BY <1>1, <1>2, <1>3, <1>4, <1>5, <1>6, <1>7 DEF Next

-----------------------------------------------------------------------------
(* The rest of the state, which the orders above do not depend on.         *)

Flags ==
    /\ callback \in BOOLEAN /\ subscribed \in BOOLEAN
    /\ cancelled \in BOOLEAN /\ running \in BOOLEAN
    /\ busPc \in {"idle", "calling", "waking"}
    /\ hello \in [Conns -> BOOLEAN] /\ eventSub \in [Conns -> BOOLEAN]
    /\ closing \in [Conns -> BOOLEAN]
    /\ svc \in {"none", "wait", "set", "ended"} /\ asker \in Conns \cup {0}
    /\ ctl \in {"down", "register", "subscribe", "up", "unregister", "unsubscribe", "cancel",
                "join"}

\* Only connections the server holds are subscribed to tags.
SubsInv ==
    /\ subs \in [Conns -> SUBSET Tags]
    /\ \A c \in Conns \ Held : subs[c] = {}

\* A request that has not been answered is the SET that runs, or had no reply.
Unanswered(c) == IF svc = "set" /\ asker = c THEN 1 ELSE 0

Limits ==
    /\ \A t \in Tags : store[t] <= MaxVersion
    /\ events \in 0 .. MaxEvents /\ starts \in 0 .. MaxStarts
    /\ requests \in [Conns -> 0 .. MaxRequests]
    /\ \A c \in Conns : answered[c] + Unanswered(c) <= requests[c]

LEMMA StoreBound ==
    ASSUME IInv, Limits,
           \/ store' = store
           \/ \E t \in Tags : store[t] < MaxVersion /\ store' = [store EXCEPT ![t] = @ + 1]
    PROVE  \A t \in Tags : store'[t] <= MaxVersion
<1>1. /\ store \in [Tags -> Nat] /\ MaxVersion \in Nat
      /\ \A t \in Tags : store[t] <= MaxVersion
  BY ServerAssumption DEF Limits, IInv, TypeInv
<1> QED
  BY <1>1

LEMMA WriteStepRest ==
    ASSUME IInv, Flags, SubsInv, Limits,
           \/ \E th \in Pushers, t \in Tags : PushTag(th, t)
           \/ \E th \in Threads : WriteSteps(th)
    PROVE  Flags' /\ SubsInv' /\ Limits'
<1>1. UNCHANGED <<callback, subscribed, running, busPc, events, connVars, svc, asker, ctl, starts>>
  BY DEF PushTag, WriteSteps, TakeCallback, Route, Wake, busVars, ctlVars
<1>2. cancelled' \in BOOLEAN
  BY DEF PushTag, WriteSteps, TakeCallback, Route, Wake, Flags
<1>3. \A t \in Tags : store'[t] <= MaxVersion
  <2>1. \/ store' = store
        \/ \E t \in Tags : store[t] < MaxVersion /\ store' = [store EXCEPT ![t] = @ + 1]
    BY DEF PushTag, Store, WriteSteps, TakeCallback, Route, Wake
  <2> QED
    BY <2>1, StoreBound
<1> QED
  BY <1>1, <1>2, <1>3 DEF Flags, SubsInv, Limits, Unanswered, Held, connVars

LEMMA BusStepRest ==
    ASSUME IInv, Flags, SubsInv, Limits, BusTakesHandler \/ BusSteps
    PROVE  Flags' /\ SubsInv' /\ Limits'
<1>1. UNCHANGED <<tagVars, subscribed, connVars, svc, asker, ctlVars>>
  BY DEF BusTakesHandler, BusSteps, OnEvent, OnEventWakes
<1>2. cancelled' \in BOOLEAN /\ busPc' \in {"idle", "calling", "waking"}
  BY DEF BusTakesHandler, BusSteps, OnEvent, OnEventWakes, Flags
<1>3. events' \in 0 .. MaxEvents
  <2>1. events' = events \/ (events < MaxEvents /\ events' = events + 1)
    BY DEF BusTakesHandler, BusSteps, OnEvent, OnEventWakes
  <2> QED
    BY <2>1, ServerAssumption DEF Limits
<1> QED
  BY <1>1, <1>2, <1>3 DEF Flags, SubsInv, Limits, Unanswered, Held, tagVars, connVars, ctlVars

\* A request is counted, and answered unless it is a SET or empty.
LEMMA RequestRest ==
    ASSUME IInv, Flags, SubsInv, Limits, NEW c \in Conns, Receive(c)
    PROVE  Flags' /\ SubsInv' /\ Limits'
<1>1. /\ svc = "wait" /\ status[c] = "open" /\ requests[c] < MaxRequests
      /\ requests' = [requests EXCEPT ![c] = @ + 1]
      /\ UNCHANGED <<busVars, status, cancelled, ctlVars>>
  BY DEF Receive, ReceiveEmpty, ReceiveHello, ReceiveQuery, ReceiveSubscription, ReceiveLast,
         ReceiveSet, Request
<1>2. Flags'
  <2>1. callback' = callback /\ svc' \in {"wait", "set", "ended"}
        /\ asker' \in {asker, c}
    BY DEF Receive, ReceiveEmpty, ReceiveHello, ReceiveQuery, ReceiveSubscription, ReceiveLast,
           ReceiveSet, Answers, Loops, tagVars
  <2>2. hello' \in [Conns -> BOOLEAN]
    <3>1. hello' = hello \/ hello' = [hello EXCEPT ![c] = TRUE]
      BY DEF Receive, ReceiveEmpty, ReceiveHello, ReceiveQuery, ReceiveSubscription,
             ReceiveLast, ReceiveSet
    <3> QED
      BY <3>1 DEF Flags
  <2>3. closing' \in [Conns -> BOOLEAN]
    <3>1. closing' = closing \/ closing' = [closing EXCEPT ![c] = TRUE]
      BY DEF Receive, ReceiveEmpty, ReceiveHello, ReceiveQuery, ReceiveSubscription,
             ReceiveLast, ReceiveSet
    <3> QED
      BY <3>1 DEF Flags
  <2>4. eventSub' \in [Conns -> BOOLEAN]
    <3>1. eventSub' = eventSub \/ \E on \in BOOLEAN : eventSub' = [eventSub EXCEPT ![c] = on]
      BY DEF Receive, ReceiveEmpty, ReceiveHello, ReceiveQuery, ReceiveSubscription,
             ReceiveLast, ReceiveSet
    <3> QED
      BY <3>1 DEF Flags
  <2> QED
    BY <1>1, <2>1, <2>2, <2>3, <2>4 DEF Flags, busVars, ctlVars
<1>3. SubsInv'
  <2>1. subs' = subs \/ \E T \in SUBSET Tags : subs' = [subs EXCEPT ![c] = T]
    BY DEF Receive, ReceiveEmpty, ReceiveHello, ReceiveQuery, ReceiveSubscription,
           ReceiveLast, ReceiveSet
  <2>2. c \in Held /\ Held' = Held
    BY <1>1 DEF Held
  <2> QED
    BY <2>1, <2>2 DEF SubsInv
<1>4. Limits'
  <2> USE DEF Limits, IInv, TypeInv
  <2>1. requests' \in [Conns -> 0 .. MaxRequests] /\ requests'[c] = requests[c] + 1
        /\ \A d \in Conns : d # c => requests'[d] = requests[d]
    BY <1>1, ServerAssumption
  <2>2. \A d \in Conns : answered[d] <= requests[d] /\ answered[d] \in Nat /\ requests[d] \in Nat
    BY <1>1 DEF Unanswered
  <2>3. \A t \in Tags : store'[t] <= MaxVersion
    <3>1. \/ store' = store
          \/ \E t \in Tags : store[t] < MaxVersion /\ store' = [store EXCEPT ![t] = @ + 1]
      BY DEF Receive, ReceiveEmpty, ReceiveHello, ReceiveQuery, ReceiveSubscription,
             ReceiveLast, ReceiveSet, Answers, Store, tagVars
    <3> QED
      BY <3>1, StoreBound
  <2>4. \A d \in Conns : answered'[d] + Unanswered(d)' <= requests'[d]
    <3>1. \/ svc' = "set" /\ asker' = c /\ answered' = answered
          \/ svc' # "set" /\ answered' = answered
          \/ svc' # "set" /\ answered' = [answered EXCEPT ![c] = @ + 1]
      BY <1>1 DEF Receive, ReceiveEmpty, ReceiveHello, ReceiveQuery, ReceiveSubscription,
             ReceiveLast, ReceiveSet, Answers, Loops
    <3> QED
      BY <2>1, <2>2, <3>1 DEF Unanswered
  <2> QED
    BY <1>1, <2>1, <2>3, <2>4 DEF busVars, ctlVars
<1> QED
  BY <1>2, <1>3, <1>4

LEMMA SetRepliesRest ==
    ASSUME IInv, Flags, SubsInv, Limits, NEW c \in Conns, SetReplies(c)
    PROVE  Flags' /\ SubsInv' /\ Limits'
<1>1. /\ svc = "set" /\ asker = c /\ svc' \in {"wait", "ended"}
      /\ answered' = [answered EXCEPT ![c] = @ + 1]
      /\ UNCHANGED <<tagVars, asker, busVars, status, hello, subs, eventSub, closing, requests,
                     cancelled, ctlVars>>
  BY DEF SetReplies, Answers, Loops
<1>2. Flags' /\ SubsInv'
  BY <1>1 DEF Flags, SubsInv, Held, tagVars, busVars, ctlVars
<1>3. \A d \in Conns : answered'[d] + Unanswered(d)' <= requests'[d]
  BY <1>1 DEF Limits, Unanswered, IInv, TypeInv
<1> QED
  BY <1>1, <1>2, <1>3 DEF Limits, tagVars, busVars, ctlVars

\* The service thread's other steps count nothing.
LEMMA ServeRest ==
    ASSUME IInv, Flags, SubsInv, Limits,
           \/ WaitCancelled
           \/ \E c \in Conns : Established(c) \/ Writable(c) \/ WriteFails(c)
    PROVE  Flags' /\ SubsInv' /\ Limits'
<1>1. /\ svc = "wait" /\ svc' \in {"wait", "ended"}
      /\ UNCHANGED <<tagVars, busVars, hello, subs, eventSub, closing, answered, requests, asker,
                     ctlVars>>
  BY DEF WaitCancelled, Established, Writable, WriteFails, Loops, connVars
<1>2. cancelled' \in BOOLEAN
  BY DEF WaitCancelled, Established, Writable, WriteFails, Flags
<1>3. \A c \in Conns : c \in Held => c \in Held'
  BY DEF WaitCancelled, Established, Writable, WriteFails, connVars, Held, IInv, TypeInv
<1> QED
  BY <1>1, <1>2, <1>3 DEF Flags, SubsInv, Limits, Unanswered, tagVars, busVars, ctlVars

LEMMA ErasedRest ==
    ASSUME Flags, SubsInv, NEW cs, Erased(cs)
    PROVE  /\ eventSub' \in [Conns -> BOOLEAN]
           /\ SubsInv'
<1>1. eventSub' \in [Conns -> BOOLEAN]
  BY DEF Erased
<1>2. subs' \in [Conns -> SUBSET Tags]
  BY DEF Erased, SubsInv
<1>3. \A c \in Conns \ Held' : subs'[c] = {}
  BY DEF Erased, SubsInv, Held
<1> QED
  BY <1>1, <1>2, <1>3 DEF SubsInv

LEMMA ClosedRest ==
    ASSUME IInv, Flags, SubsInv, Limits, NEW c \in Conns, Closed(c)
    PROVE  Flags' /\ SubsInv' /\ Limits'
<1>1. /\ svc = "wait" /\ svc' \in {"wait", "ended"} /\ Erased({c})
      /\ UNCHANGED <<tagVars, busVars, hello, closing, answered, requests, cancelled, asker,
                     ctlVars>>
  BY DEF Closed, Loops
<1> QED
  BY <1>1, ErasedRest DEF Flags, Limits, Unanswered, tagVars, busVars, ctlVars

LEMMA ControlRest ==
    ASSUME IInv, Flags, SubsInv, Limits, Start \/ StartSteps \/ Stop \/ StopSteps
    PROVE  Flags' /\ SubsInv' /\ Limits'
<1>1. CASE StopDestroys
  <2>1. /\ svc = "ended" /\ svc' = "none" /\ cancelled' = FALSE /\ ctl' = "down" /\ Erased(Held)
        /\ UNCHANGED <<tagVars, busVars, hello, closing, answered, requests, asker, running,
                       starts>>
    BY <1>1 DEF StopDestroys
  <2> QED
    BY <2>1, ErasedRest DEF Flags, Limits, Unanswered, tagVars, busVars
<1>2. CASE Start \/ Register \/ Subscribe \/ Stop \/ Unregister \/ Unsubscribe \/ StopWakes
  <2>1. UNCHANGED <<store, busPc, events, connVars, asker>> /\ (svc' = svc \/ svc' = "wait")
    BY <1>2 DEF Start, Register, Subscribe, Stop, Unregister, Unsubscribe, StopWakes, tagVars,
                busVars
  <2>2. /\ callback' \in BOOLEAN /\ subscribed' \in BOOLEAN
        /\ cancelled' \in BOOLEAN /\ running' \in BOOLEAN
    BY <1>2 DEF Start, Register, Subscribe, Stop, Unregister, Unsubscribe, StopWakes, tagVars,
                busVars, Flags
  <2>3. ctl' \in {"down", "register", "subscribe", "up", "unregister", "unsubscribe", "cancel",
                  "join"}
    BY <1>2 DEF Start, Register, Subscribe, Stop, Unregister, Unsubscribe, StopWakes, Flags
  <2>4. starts' \in 0 .. MaxStarts
    <3>1. starts' = starts \/ (starts < MaxStarts /\ starts' = starts + 1)
      BY <1>2 DEF Start, Register, Subscribe, Stop, Unregister, Unsubscribe, StopWakes
    <3> QED
      BY <3>1, ServerAssumption DEF Limits
  <2>5. Flags' /\ SubsInv'
    BY <2>1, <2>2, <2>3 DEF Flags, SubsInv, Held, connVars
  <2>6. \A c \in Conns : answered'[c] + Unanswered(c)' <= requests'[c]
    BY <2>1 DEF Limits, Unanswered, IInv, TypeInv, connVars
  <2> QED
    BY <2>1, <2>4, <2>5, <2>6 DEF Limits, connVars
<1> QED
  BY <1>1, <1>2 DEF StartSteps, StopSteps

LEMMA RestHolds == Init => Flags /\ SubsInv /\ Limits
<1> SUFFICES ASSUME Init PROVE Flags /\ SubsInv /\ Limits
  OBVIOUS
<1>1. Flags
  BY DEF Init, Flags
<1>2. SubsInv
  BY DEF Init, SubsInv
<1>3. Limits
  BY ServerAssumption DEF Init, Limits, Unanswered
<1> QED
  BY <1>1, <1>2, <1>3

LEMMA RestInductive ==
    IInv /\ Flags /\ SubsInv /\ Limits /\ [Next]_vars => Flags' /\ SubsInv' /\ Limits'
<1> SUFFICES ASSUME IInv, Flags, SubsInv, Limits, [Next]_vars PROVE Flags' /\ SubsInv' /\ Limits'
  OBVIOUS
<1>1. CASE UNCHANGED vars
  BY <1>1 DEF Flags, SubsInv, Limits, Unanswered, Held, vars, tagVars, busVars, connVars, ctlVars
<1>2. CASE Next
  BY <1>2, WriteStepRest, BusStepRest, RequestRest, SetRepliesRest, ServeRest, ClosedRest,
     ControlRest DEF Next
<1> QED
  BY <1>1, <1>2

-----------------------------------------------------------------------------

LEMMA Invariance == Spec => []IInv
  BY InitHolds, Inductive, PTL DEF Spec

\* The state keeps its type; a connection the server does not hold has no frame and no
\* subscription, and there is a service thread exactly while there is a context.
THEOREM ServerTypeCorrect == Spec => []TypeOK
<1>1. IInv /\ Flags /\ SubsInv /\ Limits => TypeOK
  <2> SUFFICES ASSUME IInv, Flags, SubsInv, Limits PROVE TypeOK
    OBVIOUS
  <2> USE DEF IInv, TypeInv
  <2>1. store \in [Tags -> 0 .. MaxVersion]
    BY ServerAssumption DEF Limits
  <2>2. answered \in [Conns -> 0 .. MaxRequests]
    <3>1. ASSUME NEW c \in Conns PROVE answered[c] \in 0 .. MaxRequests
      <4>1. /\ answered[c] \in Nat /\ requests[c] \in 0 .. MaxRequests /\ MaxRequests \in Nat
            /\ answered[c] + Unanswered(c) <= requests[c]
        BY ServerAssumption DEF Limits
      <4>2. Unanswered(c) \in {0, 1}
        BY DEF Unanswered
      <4> QED
        BY <4>1, <4>2
    <3> QED
      BY <3>1
  <2>3. got \in [Conns -> [replies : 0 .. MaxRequests, seen : [Tags -> 0 .. MaxVersion]]]
    <3>1. ASSUME NEW c \in Conns
          PROVE  got[c] \in [replies : 0 .. MaxRequests, seen : [Tags -> 0 .. MaxVersion]]
      <4>1. got[c] \in [replies : Nat, seen : [Tags -> Nat]]
        OBVIOUS
      <4>2. /\ got[c].replies \in Nat /\ got[c].replies <= answered[c]
            /\ got[c].seen \in [Tags -> Nat] /\ \A t \in Tags : got[c].seen[t] <= store[t]
        BY <4>1 DEF Queues, Queue
      <4>3. answered[c] \in 0 .. MaxRequests /\ \A t \in Tags : store[t] \in 0 .. MaxVersion
        BY <2>1, <2>2
      <4>4. MaxRequests \in Nat /\ MaxVersion \in Nat
        BY ServerAssumption
      <4> HIDE DEF IInv, TypeInv
      <4>5. got[c].replies \in 0 .. MaxRequests
        BY <4>2, <4>3, <4>4
      <4>6. got[c].seen \in [Tags -> 0 .. MaxVersion]
        BY <4>2, <4>3, <4>4
      <4> QED
        BY <4>1, <4>5, <4>6
    <3> QED
      BY <3>1
  <2>4. \A c \in Conns : \A f \in ToSet(outbox[c]) : f.kind \in {"reply", "tag", "event"}
    <3>1. \A f \in Frames : f.kind \in {"reply", "tag", "event"}
      BY DEF Frames
    <3>2. ASSUME NEW c \in Conns, NEW f \in ToSet(outbox[c]) PROVE f \in Frames
      <4> HIDE DEF Frames
      <4>1. outbox[c] \in Seq(Frames)
        OBVIOUS
      <4> QED
        BY <4>1 DEF ToSet
    <3> QED
      BY <3>1, <3>2
  <2>5. \A c \in Conns \ Held : outbox[c] = <<>> /\ subs[c] = {}
    BY DEF Queues, Queue, Held, SubsInv
  <2>6. context \in {"none", "alive"} /\ (svc = "none") = (context = "none")
    BY DEF Phases
  <2> QED
    BY <2>1, <2>2, <2>3, <2>4, <2>5, <2>6 DEF TypeOK, Flags, SubsInv, Limits
<1> QED
  BY <1>1, Invariance, RestHolds, RestInductive, PTL DEF Spec

\* A client never sees an older value of a tag after a newer one, whatever threads write it.
THEOREM PushesAreOrdered == Spec => []PushesNeverGoBack
<1>1. IInv => PushesNeverGoBack
  BY DEF IInv, Queues, Queue, Pushes, PushesNeverGoBack
<1> QED
  BY Invariance, <1>1, PTL

\* Replies come in the order of the requests, none skipped and none twice.
THEOREM RepliesAreOrdered == Spec => []RepliesInOrder
<1>1. IInv => RepliesInOrder
  BY DEF IInv, Queues, Queue, Replies, RepliesInOrder
<1> QED
  BY Invariance, <1>1, PTL

\* The server ends a connection only when the client has all of its replies.
THEOREM RepliesAreSent == Spec => []RepliesBeforeClose
<1>1. IInv => RepliesBeforeClose
  BY DEF IInv, Queues, Queue, RepliesBeforeClose
<1> QED
  BY Invariance, <1>1, PTL

\* For every frame that waits, a callback that will send it is requested or about to be.
THEOREM FramesAreRemembered == Spec => []NoForgottenFrame
  BY Invariance, PTL DEF IInv

\* No thread is in routeTag() once the context is destroyed.
THEOREM CallbacksEnd == Spec => []NoTagCallbackLate
<1>1. IInv => NoTagCallbackLate
  BY DEF IInv, Phases, NoTagCallbackLate
<1> QED
  BY Invariance, <1>1, PTL
=============================================================================
