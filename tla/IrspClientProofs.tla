--------------------------- MODULE IrspClientProofs ---------------------------
(***************************************************************************)
(* Theorems about IrspClient, for any number of calls.  Who gets which     *)
(* reply is decided by positions alone, so the invariant compares          *)
(* positions: in _pending, among the replies that have arrived, and among  *)
(* the requests that have not been read.                                   *)
(***************************************************************************)
EXTENDS IrspClient, TLAPS

\* The calls whose entry has left _pending: the oldest ones.
Done == asked - Len(pending)

\* _pending holds the latest calls, in order and without a gap.
PendingInv ==
    /\ Len(pending) <= asked
    /\ \A i \in DOMAIN pending : pending[i] = Done + i

\* Nothing is known of calls that have not been made.
BoundsInv ==
    /\ unsent \subseteq 1 .. asked
    /\ \A i \in DOMAIN up : up[i] <= asked
    /\ \A i \in DOMAIN down : down[i] <= asked
    /\ link = "none" => asked = 0 /\ up = <<>> /\ down = <<>>

\* The i-th reply to come belongs to the i-th entry, as far as all was sent.
RepliesAligned == \A i \in DOMAIN down : Clean(Done + i) => down[i] = Done + i

\* So does the request that the server answers next but i.
RequestsAligned ==
    \A i \in DOMAIN up :
        Clean(Done + Len(down) + i) => up[i] = Done + Len(down) + i

\* No reply comes for which there is no entry, and while all was sent there is a
\* frame for every entry.
NothingMissing ==
    /\ Done + Len(down) + Len(up) <= asked
    /\ \A x \in Done + 1 .. asked : Clean(x) => x <= Done + Len(down) + Len(up)

FlowInv ==
    /\ RepliesAligned
    /\ server # "gone" => RequestsAligned /\ NothingMissing

IInv ==
    /\ TypeOK
    /\ PendingInv
    /\ BoundsInv
    /\ reader = "on" => FlowInv
    /\ RepliesGoToTheirRequest

-----------------------------------------------------------------------------

LEMMA InitHolds == Init => IInv
  <1> SUFFICES ASSUME Init PROVE IInv
    OBVIOUS
  <1>1. TypeOK
    <2>1. 0 \in 0 .. MaxCalls
      BY ClientAssumption
    <2>2. \A S : <<>> \in Seq(S)
      OBVIOUS
    <2> QED
      BY <2>1, <2>2 DEF Init, TypeOK
  <1>2. PendingInv /\ BoundsInv
    BY DEF Init, PendingInv, Done, BoundsInv
  <1>3. RepliesGoToTheirRequest /\ reader # "on"
    BY DEF Init, RepliesGoToTheirRequest
  <1> QED
    BY <1>1, <1>2, <1>3 DEF IInv

\* The shape of _send(): a call takes the next number and the last place.
LEMMA QueueTypes ==
  ASSUME TypeOK, PendingInv, NEW s \in {"waiting", "failed"}, Queue(s)
  PROVE  /\ asked' = asked + 1 /\ asked' \in 1 .. MaxCalls
         /\ state' \in [Calls -> {"new", "waiting", "answered", "failed", "abandoned"}]
         /\ pending' \in Seq(Calls) /\ Len(pending') = Len(pending) + 1
         /\ Done' = Done /\ Done \in Nat
         /\ PendingInv'
  <1>1. asked + 1 \in Calls /\ asked \in Nat
    BY ClientAssumption DEF TypeOK, Queue, Calls
  <1>2. /\ pending' \in Seq(Calls) /\ Len(pending') = Len(pending) + 1
        /\ \A i \in 1 .. Len(pending) : pending'[i] = pending[i]
        /\ pending'[Len(pending) + 1] = asked + 1
        /\ Len(pending) \in Nat /\ DOMAIN pending = 1 .. Len(pending)
        /\ DOMAIN pending' = 1 .. Len(pending) + 1
    BY <1>1 DEF TypeOK, Queue
  <1>3. Done' = Done /\ Done \in Nat
    BY <1>1, <1>2 DEF Done, Queue, PendingInv
  <1>4. PendingInv'
    BY <1>1, <1>2, <1>3 DEF PendingInv, Queue, Done
  <1> QED
    BY <1>1, <1>2, <1>3, <1>4 DEF Queue, TypeOK, Calls

\* An unsent request makes no position cleaner.
LEMMA CleanShrinks ==
  ASSUME unsent \subseteq unsent', NEW n \in Nat
  PROVE  Clean(n)' => Clean(n)
  BY DEF Clean

LEMMA CleanBelow ==
  ASSUME NEW n \in Nat, NEW k \in Nat, k <= n, Clean(n)
  PROVE  Clean(k)
  BY DEF Clean

\* Facts about the sequences that the steps need again and again.
LEMMA Lengths ==
  ASSUME TypeOK
  PROVE  /\ Len(pending) \in Nat /\ DOMAIN pending = 1 .. Len(pending)
         /\ Len(up) \in Nat /\ DOMAIN up = 1 .. Len(up)
         /\ Len(down) \in Nat /\ DOMAIN down = 1 .. Len(down)
         /\ asked \in Nat /\ asked <= MaxCalls /\ MaxCalls \in Nat
         /\ \A i \in DOMAIN pending : pending[i] \in Nat
         /\ \A i \in DOMAIN up : up[i] \in Nat /\ up[i] >= 1
         /\ \A i \in DOMAIN down : down[i] \in Nat /\ down[i] >= 1
  BY ClientAssumption DEF TypeOK, Calls

LEMMA DoneNat ==
  ASSUME TypeOK, PendingInv
  PROVE  Done \in Nat /\ Done + Len(pending) = asked
  BY Lengths DEF Done, PendingInv

\* A step that leaves entries, replies and requests alone, or only ends the
\* server's side of the connection, keeps the alignment.
LEMMA FlowKept ==
  ASSUME TypeOK, PendingInv, FlowInv,
         asked' = asked, pending' = pending, down' = down, unsent \subseteq unsent',
         up' = up \/ server' = "gone", server = "gone" => server' = "gone"
  PROVE  FlowInv'
  <1>1. Done' = Done /\ Done \in Nat
    BY DoneNat DEF Done
  <1>2. RepliesAligned'
    <2> SUFFICES ASSUME NEW i \in DOMAIN down, Clean(Done + i)' PROVE down[i] = Done + i
      BY <1>1 DEF RepliesAligned
    <2>1. Done + i \in Nat
      BY <1>1, Lengths
    <2> QED
      BY <1>1, <2>1, CleanShrinks DEF FlowInv, RepliesAligned
  <1>3. ASSUME server' # "gone" PROVE RequestsAligned' /\ NothingMissing'
    <2>1. up' = up /\ server # "gone"
      BY <1>3
    <2>2. RequestsAligned'
      <3> SUFFICES ASSUME NEW i \in DOMAIN up, Clean(Done + Len(down) + i)'
                   PROVE  up[i] = Done + Len(down) + i
        BY <1>1, <2>1 DEF RequestsAligned
      <3>1. Done + Len(down) + i \in Nat
        BY <1>1, Lengths
      <3> QED
        BY <1>1, <2>1, <3>1, CleanShrinks DEF FlowInv, RequestsAligned
    <2>3. NothingMissing'
      <3>1. \A x \in Done + 1 .. asked : Clean(x)' => Clean(x)
        BY <1>1, Lengths, CleanShrinks
      <3> QED
        BY <1>1, <2>1, <3>1 DEF FlowInv, NothingMissing
    <2> QED
      BY <2>2, <2>3
  <1> QED
    BY <1>2, <1>3 DEF FlowInv

\* A call that is queued and sent takes the last place on both sides.
LEMMA FlowSent ==
  ASSUME TypeOK, PendingInv, FlowInv, Queue("waiting"), Sent,
         down' = down, server' = server, unsent' = unsent
  PROVE  FlowInv'
  <1>1. Done' = Done /\ Done \in Nat /\ asked' = asked + 1
    BY QueueTypes
  <1>2. RepliesAligned'
    BY <1>1 DEF FlowInv, RepliesAligned, Clean
  <1>3. ASSUME server # "gone" PROVE RequestsAligned' /\ NothingMissing'
    <2>1. /\ Len(up') = Len(up) + 1 /\ DOMAIN up' = 1 .. Len(up) + 1
          /\ \A i \in 1 .. Len(up) : up'[i] = up[i]
          /\ up'[Len(up) + 1] = asked + 1
      <3>1. up' = Append(up, asked + 1) /\ asked + 1 \in Calls
        BY <1>3, QueueTypes, Lengths DEF Sent, Calls
      <3> QED
        BY <3>1 DEF TypeOK
    <2>2. NothingMissing'
      <3> SUFFICES ASSUME NEW x \in Done + 1 .. asked + 1, Clean(x)
                   PROVE  x <= Done + Len(down) + Len(up) + 1
        BY <1>1, <1>3, <2>1, Lengths DEF FlowInv, NothingMissing, Clean
      <3>1. CASE x <= asked
        BY <1>1, <1>3, <3>1, Lengths DEF FlowInv, NothingMissing
      <3>2. CASE x = asked + 1
        <4>1. asked = Done \/ asked \in Done + 1 .. asked
          BY <1>1, Lengths, DoneNat
        <4>2. Clean(asked)
          BY <3>2, CleanBelow, Lengths
        <4> QED
          BY <1>1, <1>3, <3>2, <4>1, <4>2, Lengths DEF FlowInv, NothingMissing
      <3> QED
        BY <1>1, <3>1, <3>2, Lengths
    <2>3. RequestsAligned'
      <3> SUFFICES ASSUME NEW i \in 1 .. Len(up) + 1, Clean(Done + Len(down) + i)
                   PROVE  up'[i] = Done + Len(down) + i
        BY <1>1, <2>1 DEF RequestsAligned, Clean
      <3>1. CASE i \in 1 .. Len(up)
        BY <1>3, <2>1, <3>1, Lengths DEF FlowInv, RequestsAligned
      <3>2. CASE i = Len(up) + 1
        <4>1. Done + Len(down) + i <= asked + 1
          BY <1>1, <1>3, <3>2, Lengths DEF FlowInv, NothingMissing
        <4>2. ~(Done + Len(down) + i <= asked)
          <5> SUFFICES ASSUME Done + Len(down) + i <= asked PROVE FALSE
            OBVIOUS
          <5>1. Done + Len(down) + i \in Done + 1 .. asked
            BY <1>1, <3>2, Lengths
          <5> QED
            BY <1>1, <1>3, <3>2, <5>1, Lengths DEF FlowInv, NothingMissing
        <4> QED
          BY <1>1, <2>1, <3>2, <4>1, <4>2, Lengths
      <3> QED
        BY <3>1, <3>2, Lengths
    <2> QED
      BY <2>2, <2>3
  <1> QED
    BY <1>2, <1>3 DEF FlowInv

\* A call that is queued and not sent spoils all positions from its own on.
LEMMA FlowUnsent ==
  ASSUME TypeOK, PendingInv, FlowInv, Queue("failed"), unsent' = unsent \cup {asked + 1},
         UNCHANGED wireVars
  PROVE  FlowInv'
  <1>1. Done' = Done /\ Done \in Nat /\ asked' = asked + 1
    BY QueueTypes
  <1>2. \A n \in Nat : Clean(n)' => Clean(n) /\ n <= asked
    BY Lengths DEF Clean
  <1>3. RepliesAligned'
    BY <1>1, <1>2, Lengths DEF FlowInv, RepliesAligned, wireVars
  <1>4. ASSUME server # "gone" PROVE RequestsAligned' /\ NothingMissing'
    <2>1. RequestsAligned'
      <3> SUFFICES ASSUME NEW i \in DOMAIN up, Clean(Done + Len(down) + i)'
                   PROVE  up[i] = Done + Len(down) + i
        BY <1>1 DEF RequestsAligned, wireVars
      <3>1. Done + Len(down) + i \in Nat
        BY <1>1, Lengths
      <3> QED
        BY <1>1, <1>4, <3>1 DEF FlowInv, RequestsAligned, Clean, wireVars
    <2>2. NothingMissing'
      BY <1>1, <1>2, <1>4, Lengths DEF FlowInv, NothingMissing, wireVars
    <2> QED
      BY <2>1, <2>2
  <1> QED
    BY <1>3, <1>4 DEF FlowInv, wireVars

\* What is left of the requests when one is withdrawn.
LEMMA Withdrawn ==
  ASSUME IInv, NEW k \in Calls, Withdraw(k)
  PROVE  /\ k \in 1 .. Len(up) /\ Len(up') = Len(up) - 1
         /\ up' \in Seq(Calls) /\ DOMAIN up' = 1 .. Len(up) - 1
         /\ \A j \in 1 .. Len(up) - 1 : up'[j] = IF j < k THEN up[j] ELSE up[j + 1]
         /\ unsent' = unsent \cup {up[k]} /\ Done' = Done /\ Done \in Nat
         /\ asked' = asked /\ down' = down /\ server' = server
         /\ BoundsInv'
  <1> USE DEF IInv
  <1>1. /\ k \in 1 .. Len(up) /\ Len(up') = Len(up) - 1
        /\ up' \in Seq(Calls) /\ DOMAIN up' = 1 .. Len(up) - 1
        /\ \A j \in 1 .. Len(up) - 1 : up'[j] = IF j < k THEN up[j] ELSE up[j + 1]
    <2>1. k \in 1 .. Len(up) /\ Len(up) \in Nat
      BY Lengths DEF Withdraw
    <2>2. \A j \in 1 .. Len(up) - 1 : (IF j < k THEN up[j] ELSE up[j + 1]) \in Calls
      BY <2>1 DEF TypeOK
    <2>3. up' = [j \in 1 .. Len(up) - 1 |-> IF j < k THEN up[j] ELSE up[j + 1]]
      BY DEF Withdraw
    <2> QED
      BY <2>1, <2>2, <2>3
  <1>2. /\ unsent' = unsent \cup {up[k]} /\ Done' = Done /\ Done \in Nat
        /\ asked' = asked /\ down' = down /\ server' = server
    BY DoneNat DEF Withdraw, Done
  <1>3. BoundsInv'
    <2>1. unsent' \subseteq 1 .. asked
      <3>1. up[k] \in 1 .. asked
        <4>1. k \in DOMAIN up /\ asked \in Nat
          BY <1>1, Lengths
        <4>2. up[k] <= asked
          BY <4>1 DEF BoundsInv
        <4>3. up[k] \in Nat /\ up[k] >= 1
          BY <4>1, Lengths
        <4> QED
          BY <4>1, <4>2, <4>3
      <3>2. unsent \subseteq 1 .. asked
        BY DEF BoundsInv
      <3> QED
        BY <1>2, <3>1, <3>2
    <2>2. \A i \in DOMAIN up' : up'[i] <= asked
      <3>1. \A j \in 1 .. Len(up) : up[j] <= asked
        BY Lengths DEF BoundsInv
      <3>2. Len(up) \in Nat
        BY Lengths
      <3> QED
        BY <1>1, <3>1, <3>2
    <2>3. link' = link /\ link # "none"
      <3>1. up # <<>>
        BY <1>1
      <3> QED
        BY <3>1 DEF BoundsInv, Withdraw
    <2> QED
      BY <1>2, <2>1, <2>2, <2>3 DEF BoundsInv
  <1> QED
    BY <1>1, <1>2, <1>3

\* A request that is withdrawn spoils all positions from its own on; before it
\* nothing has moved.
LEMMA FlowWithdrawn ==
  ASSUME IInv, FlowInv, NEW k \in Calls, Withdraw(k)
  PROVE  FlowInv'
  <1> USE DEF IInv
  <1>1. /\ k \in 1 .. Len(up) /\ Len(up') = Len(up) - 1 /\ DOMAIN up' = 1 .. Len(up) - 1
        /\ \A j \in 1 .. Len(up) - 1 : up'[j] = IF j < k THEN up[j] ELSE up[j + 1]
    BY Withdrawn
  <1>2. /\ unsent' = unsent \cup {up[k]} /\ Done' = Done /\ Done \in Nat
        /\ asked' = asked /\ down' = down /\ server' = server
    BY Withdrawn
  <1>3. \A n \in Nat : Clean(n)' => Clean(n) /\ n < up[k]
    <2>1. up[k] \in Nat /\ up[k] >= 1
      BY <1>1, Lengths
    <2> SUFFICES ASSUME NEW n \in Nat, Clean(n)' PROVE Clean(n) /\ n < up[k]
      OBVIOUS
    <2>2. \A m \in 1 .. n : m \notin unsent \cup {up[k]}
      BY <1>2 DEF Clean
    <2> QED
      BY <2>1, <2>2 DEF Clean
  <1>4. RepliesAligned'
    BY <1>2, <1>3, Lengths DEF FlowInv, RepliesAligned
  <1>5. ASSUME server # "gone" PROVE RequestsAligned' /\ NothingMissing'
    <2>1. \A n \in Nat : Clean(n)' => n < Done + Len(down) + k
      <3> SUFFICES ASSUME NEW n \in Nat, Clean(n)', n >= Done + Len(down) + k PROVE FALSE
        BY <1>1, <1>2, Lengths
      <3>1. Done + Len(down) + k \in Nat /\ Clean(Done + Len(down) + k)
        BY <1>1, <1>2, <1>3, CleanBelow, Lengths
      <3>2. up[k] = Done + Len(down) + k
        BY <1>1, <1>5, <3>1, Lengths DEF FlowInv, RequestsAligned
      <3> QED
        BY <1>3, <3>2, <3>1
    <2>2. RequestsAligned'
      <3> SUFFICES ASSUME NEW i \in 1 .. Len(up) - 1, Clean(Done + Len(down) + i)'
                   PROVE  up'[i] = Done + Len(down) + i
        BY <1>1, <1>2 DEF RequestsAligned
      <3>1. Done + Len(down) + i \in Nat /\ i \in 1 .. Len(up)
        BY <1>2, Lengths
      <3>2. i < k
        BY <2>1, <3>1, <1>1, <1>2, Lengths
      <3>3. up'[i] = up[i] /\ Clean(Done + Len(down) + i)
        BY <1>1, <1>2, <3>1, <3>2 DEF Clean
      <3> QED
        BY <1>5, <3>1, <3>3, Lengths DEF FlowInv, RequestsAligned
    <2>3. NothingMissing'
      <3>1. Done + Len(down) + Len(up') <= asked
        BY <1>1, <1>2, <1>5, Lengths DEF FlowInv, NothingMissing
      <3>2. ASSUME NEW x \in Done + 1 .. asked, Clean(x)'
            PROVE  x <= Done + Len(down) + Len(up')
        BY <1>1, <1>2, <2>1, <3>2, Lengths
      <3> QED
        BY <1>2, <3>1, <3>2 DEF NothingMissing
    <2> QED
      BY <2>2, <2>3
  <1> QED
    BY <1>2, <1>4, <1>5 DEF FlowInv

\* An answered request goes from the front of one sequence to the end of the other.
LEMMA FlowAnswered ==
  ASSUME IInv, FlowInv, Answer
  PROVE  FlowInv'
  <1> USE DEF IInv
  <1>1. /\ Len(up) >= 1 /\ Len(up') = Len(up) - 1 /\ DOMAIN up' = 1 .. Len(up) - 1
        /\ \A i \in 1 .. Len(up) - 1 : up'[i] = up[i + 1]
    BY DEF Answer, TypeOK
  <1>2. /\ Len(down') = Len(down) + 1 /\ DOMAIN down' = 1 .. Len(down) + 1
        /\ \A i \in 1 .. Len(down) : down'[i] = down[i]
        /\ down'[Len(down) + 1] = up[1]
    <2>1. down' = Append(down, up[1]) /\ up[1] \in Calls
      BY <1>1 DEF Answer, TypeOK
    <2> QED
      BY <2>1 DEF TypeOK
  <1>3. /\ Done' = Done /\ Done \in Nat /\ asked' = asked /\ unsent' = unsent
        /\ server # "gone"
    BY DoneNat DEF Answer, Done, callVars
  <1>4. RepliesAligned'
    <2> SUFFICES ASSUME NEW i \in 1 .. Len(down) + 1, Clean(Done + i)
                 PROVE  down'[i] = Done + i
      BY <1>2, <1>3 DEF RepliesAligned, Clean
    <2>1. CASE i <= Len(down)
      BY <1>2, <2>1, Lengths DEF FlowInv, RepliesAligned
    <2>2. CASE i = Len(down) + 1
      <3>1. Done + Len(down) + 1 = Done + i
        BY <2>2, <1>3, Lengths
      <3> QED
        BY <1>1, <1>2, <1>3, <2>2, <3>1, Lengths DEF FlowInv, RequestsAligned
    <2> QED
      BY <2>1, <2>2, Lengths
  <1>5. RequestsAligned'
    <2> SUFFICES ASSUME NEW i \in 1 .. Len(up) - 1, Clean(Done + (Len(down) + 1) + i)
                 PROVE  up[i + 1] = Done + (Len(down) + 1) + i
      BY <1>1, <1>2, <1>3 DEF RequestsAligned, Clean
    <2>1. Done + (Len(down) + 1) + i = Done + Len(down) + (i + 1) /\ i + 1 \in 1 .. Len(up)
      BY <1>3, Lengths
    <2> QED
      BY <1>3, <2>1, Lengths DEF FlowInv, RequestsAligned
  <1>6. NothingMissing'
    BY <1>1, <1>2, <1>3, Lengths DEF FlowInv, NothingMissing, Clean
  <1> QED
    BY <1>3, <1>4, <1>5, <1>6 DEF FlowInv

\* A reply and an entry leave together; there is an entry for every reply.
LEMMA FlowRead ==
  ASSUME IInv, FlowInv, ReadReply
  PROVE  FlowInv' /\ PendingInv' /\ RepliesGoToTheirRequest'
  <1> USE DEF IInv
  <1>1. /\ Len(down) >= 1 /\ Len(down') = Len(down) - 1 /\ DOMAIN down' = 1 .. Len(down) - 1
        /\ \A i \in 1 .. Len(down) - 1 : down'[i] = down[i + 1]
        /\ Head(down) = down[1] /\ down' = Tail(down)
    BY DEF ReadReply, TypeOK
  <1>2. UNCHANGED <<asked, up, server, unsent>> /\ Done \in Nat
    BY DoneNat DEF ReadReply
  <1>3. Clean(Done + 1) => down[1] = Done + 1
    BY <1>1, Lengths DEF FlowInv, RepliesAligned
  <1>4. CASE pending = <<>>
    <2>1. Done = asked /\ pending' = pending /\ Done' = Done
      BY <1>2, <1>4, DoneNat DEF ReadReply, Done
    <2>2. state' = state /\ got' = got
      BY <1>4 DEF ReadReply, TypeOK
    <2>3. \A n \in Nat : n > asked => ~Clean(n)
      <3> SUFFICES ASSUME NEW n \in Nat, n > asked, Clean(n) PROVE FALSE
        OBVIOUS
      <3>1. Clean(asked)
        BY CleanBelow, Lengths
      <3>2. Clean(asked + 1)
        BY <3>1, Lengths DEF Clean, BoundsInv
      <3> QED
        BY <1>1, <1>3, <2>1, <3>2, Lengths DEF BoundsInv
    <2>4. server = "gone"
      BY <1>1, <2>1, Lengths DEF FlowInv, NothingMissing
    <2>5. RepliesAligned'
      <3> SUFFICES ASSUME NEW i \in 1 .. Len(down) - 1, Clean(Done + i) PROVE FALSE
        BY <1>1, <1>2, <2>1 DEF RepliesAligned, Clean
      <3> QED
        BY <1>2, <2>1, <2>3, Lengths
    <2> QED
      BY <1>2, <2>1, <2>2, <2>4, <2>5 DEF FlowInv, PendingInv, RepliesGoToTheirRequest,
         Clean, Done
  <1>5. CASE pending # <<>>
    <2>1. /\ Len(pending) >= 1 /\ Len(pending') = Len(pending) - 1
          /\ DOMAIN pending' = 1 .. Len(pending) - 1
          /\ \A i \in 1 .. Len(pending) - 1 : pending'[i] = pending[i + 1]
          /\ pending[1] = Done + 1
      <3>1. pending' = Tail(pending)
        BY <1>5 DEF ReadReply
      <3> QED
        BY <1>5, <3>1, Lengths DEF TypeOK, PendingInv
    <2>2. Done' = Done + 1
      BY <1>2, <2>1, Lengths DEF Done
    <2>3. PendingInv'
      <3> SUFFICES ASSUME NEW i \in 1 .. Len(pending) - 1
                   PROVE  pending[i + 1] = Done + 1 + i
        <4>1. Len(pending') <= asked'
          BY <1>2, <2>1, Lengths DEF PendingInv
        <4> QED
          BY <1>2, <2>1, <2>2, <4>1 DEF PendingInv
      <3>1. i + 1 \in 1 .. Len(pending) /\ i \in Nat
        BY Lengths
      <3>2. \A j \in 1 .. Len(pending) : pending[j] = Done + j
        BY Lengths DEF PendingInv
      <3>3. pending[i + 1] = Done + (i + 1)
        BY <3>1, <3>2
      <3> QED
        BY <1>2, <3>1, <3>3
    <2>4. RepliesAligned'
      <3> SUFFICES ASSUME NEW i \in 1 .. Len(down) - 1, Clean(Done + 1 + i)
                   PROVE  down[i + 1] = Done + 1 + i
        BY <1>1, <1>2, <2>2 DEF RepliesAligned, Clean
      <3>1. Done + 1 + i = Done + (i + 1) /\ i + 1 \in 1 .. Len(down)
        BY <1>2, Lengths
      <3> QED
        BY <3>1, Lengths DEF FlowInv, RepliesAligned
    <2>5. ASSUME server # "gone" PROVE RequestsAligned' /\ NothingMissing'
      <3>1. Done' + Len(down') = Done + Len(down)
        BY <1>1, <1>2, <2>2, Lengths
      <3>2. RequestsAligned'
        BY <1>2, <2>5, <3>1 DEF FlowInv, RequestsAligned, Clean
      <3>3. NothingMissing'
        BY <1>2, <2>2, <2>5, <3>1, Lengths DEF FlowInv, NothingMissing, Clean
      <3> QED
        BY <3>2, <3>3
    <2>6. RepliesGoToTheirRequest'
      <3> SUFFICES ASSUME NEW n \in Calls, got'[n] # 0, Clean(n) PROVE got'[n] = n
        BY <1>2 DEF RepliesGoToTheirRequest, Clean
      <3>1. CASE got'[n] = got[n]
        BY <3>1 DEF RepliesGoToTheirRequest
      <3>2. CASE got'[n] # got[n]
        <4>1. n = pending[1] /\ got'[n] = Head(down)
          BY <3>2 DEF ReadReply, TypeOK
        <4> QED
          BY <1>1, <1>3, <2>1, <4>1
      <3> QED
        BY <3>1, <3>2
    <2> QED
      BY <1>2, <2>3, <2>4, <2>5, <2>6 DEF FlowInv
  <1> QED
    BY <1>4, <1>5

\* Calls that fail, give up or are told of the end touch neither entries nor replies.
LEMMA FailTypes ==
  ASSUME TypeOK, FailPending
  PROVE  /\ pending' \in Seq(Calls) /\ Len(pending') = 0 /\ DOMAIN pending' = {}
         /\ state' \in [Calls -> {"new", "waiting", "answered", "failed", "abandoned"}]
  BY DEF TypeOK, FailPending

LEMMA EmptyFlow ==
  ASSUME TypeOK, PendingInv, BoundsInv, link = "none"
  PROVE  FlowInv
  <1>1. asked = 0 /\ Len(up) = 0 /\ Len(down) = 0 /\ Len(pending) = 0
    BY Lengths DEF BoundsInv, PendingInv
  <1> QED
    BY <1>1, Lengths DEF FlowInv, RepliesAligned, RequestsAligned, NothingMissing, Done

LEMMA AskKeeps ==
  ASSUME IInv, Connect \/ Ask \/ AskBye
  PROVE  IInv'
  <1> USE DEF IInv
  <1>1. Queue("waiting") /\ Sent /\ UNCHANGED <<flavour, got, down, server, unsent, cut>>
    BY DEF Connect, Ask, AskBye
  <1>2. up' \in Seq(Calls) /\ \A i \in DOMAIN up' : up'[i] <= asked + 1
    <2>1. asked + 1 \in Calls
      BY <1>1, QueueTypes, Lengths DEF Calls
    <2>2. CASE server = "gone"
      BY <1>1, <2>2, Lengths DEF Sent, TypeOK, BoundsInv
    <2>3. CASE server # "gone"
      <3>1. up' = Append(up, asked + 1)
        BY <1>1, <2>3 DEF Sent
      <3>2. \A i \in 1 .. Len(up) : up[i] <= asked
        BY Lengths DEF BoundsInv
      <3> QED
        BY <2>1, <3>1, <3>2, Lengths DEF TypeOK
    <2> QED
      BY <2>2, <2>3
  <1>3. TypeOK'
    <2>1. /\ link' \in {"none", "open", "closing", "closed"} /\ bye' \in 0 .. MaxCalls
          /\ reader' \in {"none", "on", "ended", "deaf"}
      BY QueueTypes, <1>1, Lengths DEF Connect, Ask, AskBye, TypeOK
    <2>2. asked' \in 0 .. MaxCalls
      BY QueueTypes, <1>1, Lengths
    <2> QED
      BY <1>1, <1>2, <2>1, <2>2, QueueTypes DEF TypeOK
  <1>4. PendingInv'
    BY <1>1, QueueTypes
  <1>5. BoundsInv'
    <2>1. \A i \in DOMAIN down : down[i] <= asked + 1
      BY Lengths DEF BoundsInv
    <2>2. unsent \subseteq 1 .. asked + 1
      BY Lengths DEF BoundsInv
    <2>3. asked' = asked + 1 /\ link' # "none"
      BY <1>1, QueueTypes DEF Connect, Ask, AskBye
    <2> QED
      BY <1>1, <1>2, <2>1, <2>2, <2>3 DEF BoundsInv
  <1>6. ASSUME reader' = "on" PROVE FlowInv'
    <2>1. FlowInv
      BY <1>6, EmptyFlow DEF Connect, Ask, AskBye
    <2> QED
      BY <1>1, <2>1, FlowSent
  <1>7. RepliesGoToTheirRequest'
    BY <1>1 DEF RepliesGoToTheirRequest, Clean
  <1> QED
    BY <1>3, <1>4, <1>5, <1>6, <1>7

\* The other steps by which a call loses its turn.
LEMMA FailKeeps ==
  ASSUME IInv, AskFails \/ (\E n \in Calls : Abandon(n)) \/ (\E i \in Calls : Withdraw(i))
  PROVE  IInv'
  <1> USE DEF IInv
  <1>1. CASE AskFails
    <2>1. /\ Queue("failed") /\ unsent' = unsent \cup {asked + 1}
          /\ UNCHANGED <<flavour, bye, got, link, reader, up, down, server, cut>>
      BY <1>1 DEF AskFails, wireVars
    <2>2. TypeOK'
      <3>1. asked + 1 \in Calls /\ asked' \in 0 .. MaxCalls
        BY <2>1, QueueTypes, Lengths DEF Calls
      <3> QED
        BY <2>1, <3>1, QueueTypes DEF TypeOK
    <2>3. BoundsInv'
      <3>1. \A i \in DOMAIN down : down[i] <= asked + 1
        BY Lengths DEF BoundsInv
      <3>2. \A i \in DOMAIN up : up[i] <= asked + 1
        BY Lengths DEF BoundsInv
      <3>3. unsent' \subseteq 1 .. asked + 1
        <4>1. unsent \subseteq 1 .. asked /\ asked \in Nat
          BY Lengths DEF BoundsInv
        <4> QED
          BY <2>1, <4>1
      <3>4. asked' = asked + 1 /\ link # "none"
        BY <1>1, <2>1, QueueTypes DEF AskFails
      <3> QED
        BY <2>1, <3>1, <3>2, <3>3, <3>4 DEF BoundsInv
    <2>4. RepliesGoToTheirRequest'
      BY <2>1 DEF RepliesGoToTheirRequest, Clean
    <2>5. reader' = "on" => FlowInv'
      BY <2>1, FlowUnsent DEF wireVars
    <2> QED
      BY <2>1, <2>2, <2>3, <2>4, <2>5, QueueTypes
  <1>2. ASSUME NEW n \in Calls, Abandon(n) PROVE IInv'
    <2>1. /\ UNCHANGED <<flavour, asked, bye, got, pending, link, reader, up, down, server,
                         unsent, cut>>
          /\ state' \in [Calls -> {"new", "waiting", "answered", "failed", "abandoned"}]
      BY <1>2 DEF Abandon, wireVars, TypeOK
    <2>2. TypeOK' /\ BoundsInv' /\ RepliesGoToTheirRequest' /\ PendingInv'
      BY <2>1 DEF TypeOK, BoundsInv, RepliesGoToTheirRequest, PendingInv, Clean, Done
    <2> QED
      BY <2>1, <2>2, FlowKept
  <1>3. ASSUME NEW i \in Calls, Withdraw(i) PROVE IInv'
    <2>1. /\ UNCHANGED <<flavour, asked, bye, got, pending, link, reader, down, server, cut>>
          /\ state' \in [Calls -> {"new", "waiting", "answered", "failed", "abandoned"}]
          /\ unsent' \subseteq Calls /\ unsent \subseteq unsent'
      BY <1>3 DEF Withdraw, TypeOK
    <2>2. PendingInv'
      BY <2>1 DEF PendingInv, Done
    <2>3. RepliesGoToTheirRequest'
      BY <2>1 DEF RepliesGoToTheirRequest, Clean
    <2>4. up' \in Seq(Calls) /\ BoundsInv' /\ (reader' = "on" => FlowInv')
      BY <1>3, <2>1, Withdrawn, FlowWithdrawn
    <2> QED
      BY <2>1, <2>2, <2>3, <2>4 DEF TypeOK
  <1> QED
    BY <1>1, <1>2, <1>3

\* The server and the connection move frames and lose some.
LEMMA ServerKeeps ==
  ASSUME IInv, Answer \/ ServerCloses \/ Lost \/ CloseEnds \/ LinkNoticesEnd
  PROVE  IInv'
  <1> USE DEF IInv
  <1>1. CASE Answer
    <2>1. /\ UNCHANGED <<flavour, asked, bye, state, got, pending, link, reader, unsent, cut>>
          /\ server' \in {"up", "bye", "gone"} /\ up # <<>>
          /\ up' = Tail(up) /\ down' = Append(down, up[1])
      BY <1>1 DEF Answer, callVars, TypeOK
    <2>2. 1 \in DOMAIN up /\ up[1] \in Calls /\ up[1] <= asked
      BY <2>1 DEF TypeOK, BoundsInv
    <2>3. /\ up' \in Seq(Calls) /\ DOMAIN up' = 1 .. Len(up) - 1
          /\ \A i \in 1 .. Len(up) - 1 : up'[i] = up[i + 1]
      BY <2>1 DEF TypeOK
    <2>4. /\ down' \in Seq(Calls) /\ DOMAIN down' = 1 .. Len(down) + 1
          /\ \A i \in 1 .. Len(down) : down'[i] = down[i]
          /\ down'[Len(down) + 1] = up[1]
      BY <2>1, <2>2 DEF TypeOK
    <2>5. TypeOK'
      BY <2>1, <2>3, <2>4 DEF TypeOK
    <2>6. BoundsInv'
      <3>1. \A i \in 1 .. Len(up) : up[i] <= asked
        BY Lengths DEF BoundsInv
      <3>2. \A i \in 1 .. Len(down) : down[i] <= asked
        BY Lengths DEF BoundsInv
      <3>3. \A i \in DOMAIN up' : up'[i] <= asked
        BY <2>3, <3>1, Lengths
      <3>4. \A i \in DOMAIN down' : down'[i] <= asked
        BY <2>2, <2>4, <3>2, Lengths
      <3>5. link # "none" /\ unsent \subseteq 1 .. asked
        BY <2>1 DEF BoundsInv
      <3> QED
        BY <2>1, <3>3, <3>4, <3>5 DEF BoundsInv
    <2>7. PendingInv' /\ RepliesGoToTheirRequest'
      BY <2>1 DEF PendingInv, Done, RepliesGoToTheirRequest, Clean
    <2>8. reader' = "on" => FlowInv'
      BY <1>1, <2>1, FlowAnswered
    <2> QED
      BY <2>5, <2>6, <2>7, <2>8
  <1>2. CASE ServerCloses \/ LinkNoticesEnd
    <2>1. /\ UNCHANGED <<flavour, asked, bye, state, got, pending, reader, down, unsent, cut>>
          /\ link' \in {link, "closed"} /\ server' \in {server, "gone"}
          /\ (up' = up /\ server' = server) \/ (up' = <<>> /\ server' = "gone")
      BY <1>2 DEF ServerCloses, LinkNoticesEnd, callVars, wireVars
    <2>2. up' \in Seq(Calls) /\ \A i \in DOMAIN up' : up'[i] <= asked
      <3>1. CASE up' = up
        BY <3>1 DEF TypeOK, BoundsInv
      <3>2. CASE up' = <<>>
        <4>1. <<>> \in Seq(Calls) /\ DOMAIN <<>> = {}
          OBVIOUS
        <4> QED
          BY <3>2, <4>1
      <3> QED
        BY <2>1, <3>1, <3>2
    <2>3. TypeOK'
      BY <2>1, <2>2 DEF TypeOK
    <2>4. BoundsInv'
      BY <2>1, <2>2 DEF BoundsInv
    <2>5. PendingInv' /\ RepliesGoToTheirRequest'
      BY <2>1 DEF PendingInv, Done, RepliesGoToTheirRequest, Clean
    <2>6. reader' = "on" => FlowInv'
      BY <2>1, FlowKept
    <2> QED
      BY <2>3, <2>4, <2>5, <2>6
  <1>3. CASE Lost \/ CloseEnds
    <2>1. /\ UNCHANGED <<flavour, asked, bye, state, got, pending, link, reader, unsent>>
          /\ server' = "gone" /\ up' = <<>> /\ cut' = TRUE /\ link # "none"
      BY <1>3 DEF Lost, CloseEnds, Ends, callVars
    <2>2. PICK k \in 0 .. Len(down) : down' = SubSeq(down, 1, k)
      BY <1>3 DEF Lost, CloseEnds, Ends
    <2>3. /\ down' \in Seq(Calls) /\ DOMAIN down' = 1 .. k
          /\ \A i \in 1 .. k : i \in DOMAIN down /\ down'[i] = down[i]
      BY <2>2, Lengths DEF TypeOK
    <2>4. TypeOK'
      BY <2>1, <2>3 DEF TypeOK
    <2>5. BoundsInv'
      BY <2>1, <2>3 DEF BoundsInv
    <2>6. PendingInv' /\ RepliesGoToTheirRequest'
      BY <2>1 DEF PendingInv, Done, RepliesGoToTheirRequest, Clean
    <2>7. ASSUME FlowInv PROVE FlowInv'
      BY <2>1, <2>3, <2>7 DEF FlowInv, RepliesAligned, Clean, Done
    <2> QED
      BY <2>1, <2>4, <2>5, <2>6, <2>7
  <1> QED
    BY <1>1, <1>2, <1>3

\* The reader and the closing calls.
LEMMA ReaderKeeps ==
  ASSUME IInv, ReadReply \/ CallbackRaises \/ ReaderEnds \/ Close \/ ByeCloses
  PROVE  IInv'
  <1> USE DEF IInv
  <1>1. CASE ReadReply
    <2>1. /\ UNCHANGED <<flavour, asked, bye, link, reader, up, server, unsent, cut>>
          /\ down # <<>> /\ down' = Tail(down)
          /\ reader = "on"
      BY <1>1 DEF ReadReply
    <2>2. /\ down' \in Seq(Calls) /\ DOMAIN down' = 1 .. Len(down) - 1
          /\ \A i \in 1 .. Len(down) - 1 : down'[i] = down[i + 1]
          /\ Head(down) \in 0 .. MaxCalls
      BY <2>1, Lengths DEF TypeOK, Calls
    <2>3. /\ state' \in [Calls -> {"new", "waiting", "answered", "failed", "abandoned"}]
          /\ got' \in [Calls -> 0 .. MaxCalls]
      BY <1>1, <2>2 DEF ReadReply, TypeOK
    <2>4. pending' \in Seq(Calls)
      BY <1>1 DEF ReadReply, TypeOK
    <2>5. TypeOK'
      BY <2>1, <2>2, <2>3, <2>4 DEF TypeOK
    <2>6. BoundsInv'
      <3>1. \A i \in 1 .. Len(down) : down[i] <= asked
        BY Lengths DEF BoundsInv
      <3>2. \A i \in DOMAIN down' : down'[i] <= asked
        BY <2>2, <3>1, Lengths
      <3>3. link # "none"
        BY <2>1 DEF BoundsInv
      <3> QED
        BY <2>1, <3>2, <3>3 DEF BoundsInv
    <2> QED
      BY <1>1, <2>1, <2>5, <2>6, FlowRead
  <1>2. CASE CallbackRaises \/ ReaderEnds
    <2>1. /\ UNCHANGED <<flavour, asked, bye, got, up, down, server, unsent>>
          /\ FailPending /\ reader' \in {"ended", "deaf"} /\ link' \in {link, "closed"}
          /\ cut' \in BOOLEAN
      BY <1>2 DEF CallbackRaises, ReaderEnds, wireVars, TypeOK
    <2>2. TypeOK'
      BY <2>1, FailTypes DEF TypeOK
    <2>3. PendingInv'
      BY <2>1, FailTypes, Lengths DEF PendingInv, Done
    <2>4. BoundsInv' /\ RepliesGoToTheirRequest'
      BY <2>1 DEF BoundsInv, RepliesGoToTheirRequest, Clean
    <2> QED
      BY <2>1, <2>2, <2>3, <2>4
  <1>3. CASE Close \/ ByeCloses
    <2>1. /\ UNCHANGED <<flavour, asked, bye, state, got, pending, reader, up, down, server,
                         unsent>>
          /\ link' = "closing" /\ cut' \in BOOLEAN
      BY <1>3 DEF Close, ByeCloses, callVars, wireVars, TypeOK
    <2>2. TypeOK' /\ BoundsInv'
      BY <2>1 DEF TypeOK, BoundsInv
    <2>3. PendingInv' /\ RepliesGoToTheirRequest'
      BY <2>1 DEF PendingInv, Done, RepliesGoToTheirRequest, Clean
    <2> QED
      BY <2>1, <2>2, <2>3, FlowKept
  <1> QED
    BY <1>1, <1>2, <1>3

LEMMA StutterKeeps == ASSUME IInv, UNCHANGED vars PROVE IInv'
  BY DEF IInv, vars, callVars, wireVars, TypeOK, PendingInv, Done, BoundsInv, FlowInv,
         RepliesAligned, RequestsAligned, NothingMissing, Clean, RepliesGoToTheirRequest

LEMMA InvariantHolds == Spec => []IInv
  <1>1. IInv /\ [Next]_vars => IInv'
    BY AskKeeps, FailKeeps, ServerKeeps, ReaderKeeps, StutterKeeps DEF Next
  <1> QED
    BY <1>1, InitHolds, PTL DEF Spec

-----------------------------------------------------------------------------
(* bye().                                                                  *)

\* The server has answered the BYE, so every call up to it has its reply, read or on
\* its way; and bye() closes only when its own reply has been read.
ByeInv ==
    /\ bye <= asked
    /\ bye # 0 /\ state[bye] \in {"answered", "failed"} => bye <= Done
    /\ reader # "on" => link = "none" \/ server = "gone" \/ cut
    /\ ~cut =>
         /\ link = "closing" => bye # 0 /\ bye <= Done
         /\ server # "up" => bye # 0 /\ \A x \in 1 .. bye : Clean(x) => x <= Done + Len(down)
         /\ bye = 0 => \A n \in Calls : state[n] = "failed" => n \in unsent
         /\ ByeLosesNothing

LEMMA ByeInit == Init => ByeInv
  <1> SUFFICES ASSUME Init PROVE ByeInv
    OBVIOUS
  <1>1. asked = 0 /\ bye = 0 /\ link = "none" /\ server = "up" /\ \A n \in Calls : state[n] = "new"
    BY DEF Init
  <1> QED
    BY <1>1 DEF ByeInv, ByeLosesNothing

\* A call that is queued is later than every other one.
LEMMA ByeQueued ==
  ASSUME IInv, ByeInv, Connect \/ Ask \/ AskBye \/ AskFails
  PROVE  ByeInv'
  <1>1. PICK s \in {"waiting", "failed"} :
           /\ Queue(s)
           /\ s = "failed" => AskFails
           /\ s = "waiting" => Connect \/ Ask \/ AskBye
    BY DEF Connect, Ask, AskBye, AskFails
  <1>2. /\ asked' = asked + 1 /\ asked' \in Calls /\ asked \in Nat /\ bye \in Nat
        /\ Done' = Done /\ Done \in Nat
        /\ state'[asked + 1] = s
        /\ \A n \in Calls : n # asked + 1 => state'[n] = state[n]
        /\ bye <= asked
    <2>1. /\ asked' = asked + 1 /\ asked' \in Calls /\ asked \in Nat
          /\ Done' = Done /\ Done \in Nat
      BY <1>1, QueueTypes, Lengths DEF IInv, Calls
    <2>2. bye \in Nat /\ bye <= asked
      BY DEF IInv, TypeOK, ByeInv
    <2>3. state' = [state EXCEPT ![asked + 1] = s]
      BY <1>1 DEF Queue
    <2> QED
      BY <2>1, <2>2, <2>3 DEF IInv, TypeOK
  <1>3. /\ UNCHANGED <<down, server, cut>>
        /\ link' # "none"
        /\ (link' = link /\ reader' = reader) \/ (link = "none" /\ link' = "open" /\ reader' = "on")
        /\ unsent \subseteq unsent'
        /\ s = "failed" => asked + 1 \in unsent'
        /\ bye' = bye \/ (bye = 0 /\ bye' = asked + 1 /\ s = "waiting")
    BY <1>1 DEF Connect, Ask, AskBye, AskFails, wireVars
  <1>4. \A n \in Nat : Clean(n)' => Clean(n)
    BY <1>3, CleanShrinks
  <1>5. /\ bye' <= asked'
        /\ bye' # 0 /\ state'[bye'] \in {"answered", "failed"} => bye' <= Done'
        /\ reader' # "on" => link' = "none" \/ server' = "gone" \/ cut'
    <2>1. bye # 0 => bye \in Calls
      BY <1>2 DEF IInv, TypeOK, Calls
    <2>2. bye' # 0 /\ state'[bye'] \in {"answered", "failed"} => bye' <= Done'
      BY <1>2, <1>3, <2>1 DEF ByeInv
    <2>3. reader' # "on" => link' = "none" \/ server' = "gone" \/ cut'
      BY <1>3 DEF ByeInv
    <2> QED
      BY <1>2, <1>3, <2>2, <2>3
  <1>6. ASSUME ~cut
        PROVE  /\ link' = "closing" => bye' # 0 /\ bye' <= Done'
               /\ server' # "up" => /\ bye' # 0
                                    /\ \A x \in 1 .. bye' : Clean(x)' => x <= Done' + Len(down')
    <2>1. link' = "closing" => bye' # 0 /\ bye' <= Done'
      BY <1>2, <1>3, <1>6 DEF ByeInv
    <2>2. ASSUME server # "up" PROVE bye' = bye /\ bye # 0
      BY <1>3, <1>6, <2>2 DEF ByeInv
    <2>3. ASSUME server # "up", NEW x \in 1 .. bye, Clean(x)' PROVE x <= Done + Len(down)
      <3>1. Clean(x)
        BY <1>4, <2>3
      <3> QED
        BY <1>6, <2>3, <3>1 DEF ByeInv
    <2> QED
      BY <1>2, <1>3, <2>1, <2>2, <2>3
  <1>7. ASSUME ~cut, bye' = 0, NEW n \in Calls, state'[n] = "failed" PROVE n \in unsent'
    BY <1>2, <1>3, <1>7 DEF ByeInv
  <1>8. ASSUME ~cut, NEW n \in Calls, n < bye', state'[n] = "failed" PROVE ~Clean(n)'
    <2>1. n # asked + 1
      BY <1>2, <1>3, <1>5, <1>8
    <2>2. state[n] = "failed"
      BY <1>2, <1>8, <2>1
    <2>3. CASE bye' = bye
      <3>1. ~Clean(n)
        BY <1>3, <1>8, <2>2, <2>3 DEF ByeInv, ByeLosesNothing
      <3> QED
        BY <1>4, <3>1 DEF Calls
    <2>4. CASE bye = 0
      <3>1. n \in unsent'
        BY <1>3, <1>8, <2>2, <2>4 DEF ByeInv
      <3> QED
        BY <3>1 DEF Clean, Calls
    <2> QED
      BY <1>3, <2>3, <2>4
  <1> QED
    BY <1>3, <1>5, <1>6, <1>7, <1>8 DEF ByeInv, ByeLosesNothing

\* Steps by which no call fails, is answered or leaves _pending.
LEMMA ByeSame ==
  ASSUME IInv, ByeInv, UNCHANGED <<asked, bye, pending>>, unsent \subseteq unsent', cut => cut',
         \A n \in Calls : state'[n] = state[n] \/ state'[n] = "abandoned",
         ~cut' => Len(down') >= Len(down) /\ Len(down') \in Nat,
         link = "none" => link' = "none" /\ reader' = reader,
         reader' = reader,
         ~cut' /\ link' = "closing" /\ link # "closing" => bye # 0 /\ bye <= Done,
         server = "gone" => server' = "gone",
         ~cut' /\ server' # "up" /\ server = "up" =>
             bye # 0 /\ \A x \in 1 .. bye : Clean(x) => x <= Done + Len(down')
  PROVE  ByeInv'
  <1>1. Done' = Done /\ Done \in Nat /\ Len(down) \in Nat /\ bye \in Nat /\ asked \in Nat
    BY DoneNat, Lengths DEF IInv, TypeOK, Done
  <1>2. \A n \in Nat : Clean(n)' => Clean(n)
    BY CleanShrinks
  <1>3. bye # 0 => bye \in Calls
    BY DEF IInv, TypeOK, Calls
  <1>4. /\ bye' <= asked'
        /\ bye' # 0 /\ state'[bye'] \in {"answered", "failed"} => bye' <= Done'
        /\ reader' # "on" => link' = "none" \/ server' = "gone" \/ cut'
    BY <1>1, <1>3 DEF ByeInv
  <1>5. ASSUME ~cut', link' = "closing" PROVE bye # 0 /\ bye <= Done
    BY <1>5 DEF ByeInv
  <1>6. ASSUME ~cut', server' # "up"
        PROVE  bye # 0 /\ \A x \in 1 .. bye : Clean(x)' => x <= Done + Len(down')
    <2>1. bye # 0 /\ \A x \in 1 .. bye : Clean(x) => x <= Done + Len(down')
      <3>1. CASE server = "up"
        BY <1>6, <3>1
      <3>2. CASE server # "up"
        <4>1. bye # 0 /\ \A x \in 1 .. bye : Clean(x) => x <= Done + Len(down)
          BY <1>6, <3>2 DEF ByeInv
        <4>2. \A x \in Nat : x <= Done + Len(down) => x <= Done + Len(down')
          BY <1>1, <1>6
        <4> QED
          BY <4>1, <4>2
      <3> QED
        BY <3>1, <3>2
    <2> QED
      BY <1>2, <2>1
  <1>7. ASSUME ~cut', bye = 0, NEW n \in Calls, state'[n] = "failed" PROVE n \in unsent'
    BY <1>7 DEF ByeInv
  <1>8. ASSUME ~cut', NEW n \in Calls, n < bye, state'[n] = "failed" PROVE ~Clean(n)'
    <2>1. ~Clean(n)
      BY <1>8 DEF ByeInv, ByeLosesNothing
    <2> QED
      BY <1>2, <2>1 DEF Calls
  <1> QED
    BY <1>1, <1>4, <1>5, <1>6, <1>7, <1>8 DEF ByeInv, ByeLosesNothing

\* The request that the server answers is the oldest one, so when it is the BYE all
\* that were sent before have their replies.
LEMMA ByeAnswered ==
  ASSUME IInv, ByeInv, Answer
  PROVE  ByeInv'
  <1>1. /\ server # "gone" /\ up # <<>> /\ down' = Append(down, up[1])
        /\ server' = IF up[1] = bye THEN "bye" ELSE server
        /\ UNCHANGED <<asked, bye, state, pending, link, reader, unsent, cut>>
    BY DEF Answer, callVars
  <1>2. up[1] \in Calls /\ 1 \in DOMAIN up /\ Len(down) \in Nat
    BY <1>1 DEF IInv, TypeOK
  <1>3. Len(down') = Len(down) + 1
    BY <1>1, <1>2 DEF IInv, TypeOK
  <1>4. Done \in Nat
    BY DoneNat DEF IInv
  <1>5. ASSUME ~cut, up[1] = bye
        PROVE  bye # 0 /\ \A x \in 1 .. bye : Clean(x) => x <= Done + Len(down')
    <2>1. reader = "on"
      BY <1>1, <1>5 DEF ByeInv, IInv, BoundsInv
    <2>2. RequestsAligned
      BY <1>1, <2>1 DEF IInv, FlowInv
    <2>3. bye \in Calls
      BY <1>2, <1>5
    <2>4. ASSUME NEW x \in 1 .. bye, Clean(x), ~(x <= Done + Len(down) + 1) PROVE FALSE
      <3>1. Clean(Done + Len(down) + 1)
        BY <1>2, <1>4, <2>3, <2>4, CleanBelow DEF Calls
      <3>2. up[1] = Done + Len(down) + 1
        BY <1>2, <2>2, <3>1 DEF RequestsAligned
      <3> QED
        BY <1>2, <1>4, <1>5, <2>3, <2>4, <3>2 DEF Calls
    <2>5. \A x \in 1 .. bye : Clean(x) => x <= Done + Len(down) + 1
      BY <2>4
    <2> QED
      BY <1>2, <1>3, <1>4, <2>3, <2>5 DEF Calls
  <1>6. link = "none" => FALSE
    BY <1>1 DEF IInv, BoundsInv
  <1>7. /\ \A n \in Calls : state'[n] = state[n] \/ state'[n] = "abandoned"
        /\ Len(down') >= Len(down) /\ Len(down') \in Nat
    BY <1>1, <1>2, <1>3
  <1>8. unsent \subseteq unsent' /\ (cut => cut') /\ server # "gone" /\ reader' = reader
    BY <1>1
  <1>9. ~cut' /\ server' # "up" /\ server = "up" =>
             bye # 0 /\ \A x \in 1 .. bye : Clean(x) => x <= Done + Len(down')
    BY <1>1, <1>5
  <1> QED
    BY <1>1, <1>6, <1>7, <1>8, <1>9, ByeSame

\* A reply moves its call out of _pending.
LEMMA ByeRead ==
  ASSUME IInv, ByeInv, ReadReply
  PROVE  ByeInv'
  <1>1. /\ UNCHANGED <<asked, bye, link, reader, server, unsent, cut>>
        /\ down # <<>> /\ down' = Tail(down)
        /\ pending' = IF pending = <<>> THEN pending ELSE Tail(pending)
        /\ state' = [n \in Calls |->
             IF n \in {m \in {pending[i] : i \in DOMAIN pending \cap {1}} : state[m] = "waiting"}
             THEN "answered" ELSE state[n]]
    BY DEF ReadReply
  <1>2. /\ Len(down) \in Nat /\ Len(down') \in Nat /\ Len(down) = Len(down') + 1
        /\ Done \in Nat /\ asked \in Nat /\ bye \in Nat
    BY <1>1, DoneNat, Lengths DEF IInv, TypeOK
  <1>3. /\ Done' >= Done /\ Done' \in Nat
        /\ Done' = Done + 1 \/ (Done = asked /\ Done' = asked)
        /\ \A n \in Calls : state'[n] = state[n] \/ (state'[n] = "answered" /\ n <= Done')
    <2>1. CASE pending = <<>>
      <3>1. Done = asked /\ Done' = asked
        BY <1>1, <1>2, <2>1 DEF Done
      <3>2. \A n \in Calls : state'[n] = state[n]
        BY <1>1, <2>1
      <3> QED
        BY <1>2, <3>1, <3>2
    <2>2. CASE pending # <<>>
      <3>1. /\ Len(pending') = Len(pending) - 1 /\ 1 \in DOMAIN pending
            /\ Len(pending) \in Nat
        BY <1>1, <2>2, Lengths DEF IInv, TypeOK
      <3>2. Done' = Done + 1
        <4>1. Done' = asked - Len(pending') /\ Done = asked - Len(pending)
          BY <1>1 DEF Done
        <4> QED
          BY <1>2, <3>1, <4>1
      <3>3. pending[1] = Done + 1
        BY <3>1 DEF IInv, PendingInv
      <3>4. \A n \in Calls : state'[n] # state[n] => state'[n] = "answered" /\ n = pending[1]
        BY <1>1
      <3> QED
        BY <1>2, <3>2, <3>3, <3>4
    <2> QED
      BY <2>1, <2>2
  <1>4. bye # 0 => bye \in Calls
    BY DEF IInv, TypeOK, Calls
  <1>5. bye # 0 /\ state'[bye] \in {"answered", "failed"} => bye <= Done'
    BY <1>2, <1>3, <1>4 DEF ByeInv
  <1>6. ASSUME ~cut, link = "closing" PROVE bye # 0 /\ bye <= Done'
    BY <1>2, <1>3, <1>6 DEF ByeInv
  <1>7. ASSUME ~cut, server # "up"
        PROVE  bye # 0 /\ \A x \in 1 .. bye : Clean(x) => x <= Done' + Len(down')
    <2>1. bye # 0 /\ \A x \in 1 .. bye : Clean(x) => x <= Done + Len(down)
      BY <1>7 DEF ByeInv
    <2>2. \A x \in Nat : x <= asked /\ x <= Done + Len(down) => x <= Done' + Len(down')
      BY <1>2, <1>3
    <2>3. bye <= asked
      BY DEF ByeInv
    <2> QED
      BY <1>2, <2>1, <2>2, <2>3
  <1>8. ASSUME ~cut, bye = 0, NEW n \in Calls, state'[n] = "failed" PROVE n \in unsent
    BY <1>3, <1>8 DEF ByeInv
  <1>9. ASSUME ~cut, NEW n \in Calls, n < bye, state'[n] = "failed" PROVE ~Clean(n)
    BY <1>3, <1>9 DEF ByeInv, ByeLosesNothing
  <1>10. \A n : Clean(n)' <=> Clean(n)
    BY <1>1 DEF Clean
  <1>11. bye <= asked /\ (reader # "on" => link = "none" \/ server = "gone" \/ cut)
    BY DEF ByeInv
  <1> QED
    BY <1>1, <1>5, <1>6, <1>7, <1>8, <1>9, <1>10, <1>11 DEF ByeInv, ByeLosesNothing

\* Who is still in _pending when the reader ends was called after the BYE, or has an
\* unsent request before it.
LEMMA ByeEnds ==
  ASSUME IInv, ByeInv, CallbackRaises \/ ReaderEnds
  PROVE  ByeInv'
  <1>1. /\ UNCHANGED <<asked, bye, server, unsent, down>> /\ FailPending
        /\ cut' \/ (server = "gone" /\ link' = "closed" /\ cut' = cut
                    /\ (down = <<>> \/ link = "closing"))
    BY DEF CallbackRaises, ReaderEnds, wireVars
  <1>2. Done' = asked /\ asked \in Nat /\ Done \in Nat /\ bye \in Nat
    <2>1. Done' = asked - Len(pending') /\ Len(pending') = 0
      BY <1>1, FailTypes DEF IInv, Done
    <2>2. asked \in Nat /\ Done \in Nat
      BY DoneNat, Lengths DEF IInv
    <2> QED
      BY <2>1, <2>2 DEF IInv, TypeOK
  <1>3. bye <= asked
    BY DEF ByeInv
  <1>4. ASSUME ~cut' PROVE ~cut /\ bye # 0
    BY <1>1, <1>4 DEF ByeInv
  <1>5. ASSUME ~cut', NEW n \in Calls, n < bye, state'[n] = "failed" PROVE ~Clean(n)
    <2>1. CASE state[n] = "failed"
      BY <1>4, <1>5, <2>1 DEF ByeInv, ByeLosesNothing
    <2>2. CASE state[n] # "failed"
      <3>1. PICK i \in DOMAIN pending : pending[i] = n
        BY <1>1, <1>5, <2>2 DEF FailPending
      <3>2. n > Done
        BY <1>2, <3>1, Lengths DEF IInv, PendingInv
      <3>3. CASE link = "closing"
        BY <1>2, <1>4, <1>5, <3>2, <3>3 DEF ByeInv, Calls
      <3>4. CASE down = <<>>
        <4>1. \A x \in 1 .. bye : Clean(x) => x <= Done + Len(down)
          BY <1>1, <1>4, <1>5 DEF ByeInv
        <4>2. Len(down) = 0 /\ n \in 1 .. bye
          BY <1>2, <1>5, <3>4 DEF Calls
        <4> QED
          BY <1>2, <3>2, <4>1, <4>2
      <3> QED
        BY <1>1, <1>5, <3>3, <3>4
    <2> QED
      BY <2>1, <2>2
  <1>6. \A x \in 1 .. bye : x <= Done' + Len(down)
    BY <1>2, <1>3, Lengths DEF IInv
  <1>7. \A n : Clean(n)' <=> Clean(n)
    BY <1>1 DEF Clean
  <1> QED
    BY <1>1, <1>2, <1>3, <1>4, <1>5, <1>6, <1>7 DEF ByeInv, ByeLosesNothing

LEMMA ByeStep == IInv /\ ByeInv /\ [Next]_vars => ByeInv'
  <1> SUFFICES ASSUME IInv, ByeInv, [Next]_vars PROVE ByeInv'
    OBVIOUS
  <1>1. CASE Connect \/ Ask \/ AskBye \/ AskFails
    BY <1>1, ByeQueued
  <1>2. ASSUME NEW n \in Calls, Abandon(n) PROVE ByeInv'
    BY <1>2, ByeSame, Lengths DEF Abandon, wireVars, IInv, TypeOK
  <1>3. ASSUME NEW i \in Calls, Withdraw(i) PROVE ByeInv'
    BY <1>3, ByeSame, Lengths DEF Withdraw, IInv, TypeOK
  <1>4. CASE Answer
    BY <1>4, ByeAnswered
  <1>5. CASE ServerCloses \/ LinkNoticesEnd
    BY <1>5, ByeSame, Lengths DEF ServerCloses, LinkNoticesEnd, callVars, wireVars, IInv
  <1>6. CASE Lost \/ CloseEnds
    BY <1>6, ByeSame DEF Lost, CloseEnds, Ends, callVars
  <1>7. CASE ReadReply
    BY <1>7, ByeRead
  <1>8. CASE CallbackRaises \/ ReaderEnds
    BY <1>8, ByeEnds
  <1>9. CASE Close
    BY <1>9, ByeSame DEF Close, callVars, wireVars
  <1>10. CASE ByeCloses
    <2>1. bye # 0 /\ bye <= Done
      BY <1>10 DEF ByeCloses, ByeInv
    <2> QED
      BY <1>10, <2>1, ByeSame, Lengths DEF ByeCloses, callVars, wireVars, IInv
  <1>11. CASE UNCHANGED vars
    BY <1>11, ByeSame, Lengths DEF vars, callVars, wireVars, IInv
  <1> QED
    BY <1>1, <1>2, <1>3, <1>4, <1>5, <1>6, <1>7, <1>8, <1>9, <1>10, <1>11 DEF Next

-----------------------------------------------------------------------------

\* Whatever the callers, the server and the connection do, the client's state keeps
\* its type, for any number of calls.
THEOREM ClientTypeCorrect == Spec => []TypeOK
  <1>1. IInv => TypeOK
    BY DEF IInv
  <1> QED
    BY <1>1, InvariantHolds, PTL

\* _pending matches replies with calls by position alone, and for any number of calls
\* that is right for every call up to which each request was sent.
THEOREM RepliesMatch == Spec => []RepliesGoToTheirRequest
  <1>1. IInv => RepliesGoToTheirRequest
    BY DEF IInv
  <1> QED
    BY <1>1, InvariantHolds, PTL

\* bye() loses nothing: for any number of calls, none that was made before it fails
\* unless the connection ends in another way or a request stayed behind.
THEOREM ByeIsSafe == Spec => []ByeLosesNothing
  <1>1. ByeInv /\ IInv => ByeLosesNothing
    BY DEF ByeInv, ByeLosesNothing
  <1> QED
    BY <1>1, ByeInit, ByeStep, InvariantHolds, PTL DEF Spec
=============================================================================
