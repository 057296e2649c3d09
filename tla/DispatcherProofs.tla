-------------------------- MODULE DispatcherProofs --------------------------
(***************************************************************************)
(* For any sessions, patterns and argument lists, of any length: the       *)
(* index covers the trie (IndexCovers), a topic finds exactly the          *)
(* matching patterns (MatchIsExact), only sessions that have said HELLO    *)
(* and are still there are routed to (OnlyReadyAreRouted), a command       *)
(* changes the routes of its own session only (OnlyAskedRoutesChange), and *)
(* a count of zero is the truth (ZeroMeansSilence).                        *)
(*                                                                         *)
(* unsubscribe() stops at the first '#', so a pattern that is not valid    *)
(* may reach the node of another one.  It never takes a subscription out   *)
(* of the index that the trie keeps, because every node's path is itself   *)
(* valid: the node that is reached then has another path than the pattern, *)
(* and the index loses only the pattern.                                   *)
(*                                                                         *)
(* The loop over a command's arguments and the walks of the matcher and of *)
(* the trie are recursive functions; what holds after every pass is shown  *)
(* by looking at the first pass where it would not (LeastOf).              *)
(***************************************************************************)
EXTENDS Dispatcher, FiniteSetTheorems, WellFoundedInduction, TLAPS

\* The paths of nodes: valid patterns, and each node has its parent.
Paths(N) ==
    /\ Root \in N
    /\ \A n \in N :
         /\ n \in Seq(Segments)
         /\ n = Root \/ IsValidPattern(n)
         /\ n # Root => SubSeq(n, 1, Len(n) - 1) \in N

\* A trie as the three operations leave it.
Good(T) ==
    /\ T = [at |-> T.at, patterns |-> T.patterns]
    /\ T.at = [n \in DOMAIN T.at |-> T.at[n]]
    /\ T.patterns \in [Subscribers -> SUBSET Patterns]
    /\ \A id \in Subscribers : IsFiniteSet(T.patterns[id])
    /\ Paths(DOMAIN T.at)
    /\ \A n \in DOMAIN T.at : \A id \in T.at[n] : id \in Subscribers /\ n \in T.patterns[id]

\* All but s are at the same nodes of T and of U.
OthersKeep(T, U, s) ==
    \A n, i : i # s => (i \in At(T, n) <=> i \in At(U, n))

\* Nobody has more at a node of U than of T.
NobodyGains(T, U) ==
    \A n \in DOMAIN U.at : \A i \in U.at[n] : n \in DOMAIN T.at /\ i \in T.at[n]

\* A session that is routed to is ready.
RoutesReady ==
    /\ \A n \in DOMAIN trie.at : \A s \in trie.at[n] : session[s] = "ready"
    /\ \A s \in Sessions : eventSubs[s] # NoFilter => session[s] = "ready"

\* Whom the last reply told that it has no subscription is at no node.
ZeroIsTrue ==
    reply.what = "count" /\ reply.count = 0 =>
        \A n \in DOMAIN trie.at : reply.to \notin trie.at[n]

TypeInv ==
    /\ session \in [Sessions -> {"new", "open", "ready", "closed"}]
    /\ eventSubs \in [Sessions -> Filters \cup {NoFilter}]

IInv == TypeInv /\ Good(trie) /\ RoutesReady /\ ZeroIsTrue

-----------------------------------------------------------------------------

\* A set of natural numbers that is not empty has a least element.
LEMMA LeastOf ==
  ASSUME NEW S \in SUBSET Nat, S # {}
  PROVE  \E x \in S : \A y \in S : x <= y
  <1> DEFINE R == OpToRel(<, Nat)
  <1>1. IsWellFoundedOn(R, Nat)
    BY NatLessThanWellFounded
  <1>2. \A x \in S, y \in S : y < x => <<y, x>> \in R
    BY DEF OpToRel
  <1> HIDE DEF R
  <1>3. PICK x \in S : \A y \in S : <<y, x>> \notin R
    BY <1>1, WFMin
  <1>4. \A y \in S : x <= y
    <2> TAKE y \in S
    <2>1. ~(y < x) /\ x \in Nat /\ y \in Nat
      BY <1>2, <1>3
    <2> QED
      BY <2>1
  <1> QED
    BY <1>4

-----------------------------------------------------------------------------
(* The paths of nodes.                                                     *)

\* A prefix of a valid pattern is valid or empty, and so is what comes before its end.
LEMMA PrefixesValid ==
    ASSUME NEW p \in Seq(Segments), IsValidPattern(p), NEW n \in Prefixes(p)
    PROVE  /\ n \in Seq(Segments)
           /\ n = Root \/ IsValidPattern(n)
           /\ n # Root => SubSeq(n, 1, Len(n) - 1) \in Prefixes(p)
<1>1. PICK k \in 0 .. Len(p) : n = SubSeq(p, 1, k)
  BY DEF Prefixes
<1>2. CASE k = 0
  <2>1. n = <<>>
    BY <1>1, <1>2
  <2> QED
    BY <2>1 DEF Root
<1>3. CASE k # 0
  <2>1. Len(n) = k /\ DOMAIN n = 1 .. k /\ \A i \in 1 .. k : n[i] = p[i]
    BY <1>1, <1>3
  <2>2. DOMAIN p = 1 .. Len(p)
    OBVIOUS
  <2>3. n # <<>>
    BY <2>1, <1>3
  <2>4. n \in Seq(Segments)
    BY <1>1
  <2>5. SubSeq(n, 1, Len(n) - 1) = SubSeq(p, 1, k - 1)
    BY <1>1, <1>3, <2>1
  <2>6. SubSeq(n, 1, Len(n) - 1) \in Prefixes(p)
    <3>1. k - 1 \in 0 .. Len(p)
      BY <1>3
    <3>2. \A l \in 0 .. Len(p) : SubSeq(p, 1, l) \in Prefixes(p)
      BY DEF Prefixes
    <3> QED
      BY <2>5, <3>1, <3>2
  <2>. QED
    BY <2>1, <2>2, <2>3, <2>4, <2>6 DEF IsValidPattern
<1>. QED
  BY <1>2, <1>3

\* Every path above a node is a node.
LEMMA PrefixesThere ==
    ASSUME NEW N, Paths(N), NEW n \in N
    PROVE  Prefixes(n) \subseteq N
<1> DEFINE up(d) == SubSeq(n, 1, Len(n) - d)
           S == {d \in 0 .. Len(n) : up(d) \notin N}
<1>1. n \in Seq(Segments) /\ Len(n) \in Nat
  BY DEF Paths
<1>2. ASSUME S # {} PROVE FALSE
  <2>1. PICK d \in S : \A e \in S : d <= e
    <3>1. S \in SUBSET Nat
      OBVIOUS
    <3> HIDE DEF S
    <3> QED
      BY <1>2, <3>1, LeastOf
  <2>2. up(0) = n
    BY <1>1
  <2>3. d \in 0 .. Len(n) /\ d # 0 /\ up(d) \notin N
    BY <2>1, <2>2
  <2>4. d - 1 \in 0 .. Len(n) /\ d - 1 \notin S
    BY <2>1, <2>3, <1>1
  <2>5. up(d - 1) \in N
    BY <2>4
  <2>6. Len(up(d - 1)) = Len(n) - d + 1 /\ up(d - 1) # <<>>
    <3> DEFINE k == Len(n) - (d - 1)
    <3>1. k \in 1 .. Len(n) /\ k = Len(n) - d + 1
      BY <1>1, <2>3
    <3> HIDE DEF k
    <3>2. Len(SubSeq(n, 1, k)) = k
      BY <1>1, <3>1
    <3>3. SubSeq(n, 1, k) # <<>>
      <4>1. Len(<<>>) = 0 /\ k # 0
        BY <3>1
      <4> QED
        BY <3>2, <4>1
    <3> QED
      BY <3>1, <3>2, <3>3 DEF k
  <2>7. SubSeq(up(d - 1), 1, Len(up(d - 1)) - 1) = up(d)
    BY <1>1, <2>3, <2>6
  <2> QED
    BY <2>3, <2>5, <2>6, <2>7 DEF Paths, Root
<1>3. \A l \in 0 .. Len(n) : SubSeq(n, 1, l) \in N
  <2> TAKE l \in 0 .. Len(n)
  <2>1. Len(n) - l \in 0 .. Len(n) /\ Len(n) - (Len(n) - l) = l
    BY <1>1
  <2>2. up(Len(n) - l) \in N
    BY <1>2, <2>1
  <2> QED
    BY <2>1, <2>2
<1> QED
  BY <1>3 DEF Prefixes

\* The walk along a valid pattern ends at the pattern's own node.
LEMMA NodeOfValid ==
    ASSUME NEW p \in Seq(Segments), p = Root \/ IsValidPattern(p)
    PROVE  NodeOf(p) = p
<1>1. CASE ~\E i \in DOMAIN p : p[i] = Hash
  BY <1>1 DEF NodeOf
<1>2. CASE \E i \in DOMAIN p : p[i] = Hash
  <2>1. DOMAIN p = 1 .. Len(p) /\ Len(p) \in Nat
    OBVIOUS
  <2>2. PICK i \in DOMAIN p : p[i] = Hash
    BY <1>2
  <2>3. IsValidPattern(p)
    BY <2>1, <2>2 DEF Root
  <2>4. \A j \in DOMAIN p : p[j] = Hash => j = Len(p)
    BY <2>3 DEF IsValidPattern
  <2>5. Len(p) \in DOMAIN p /\ p[Len(p)] = Hash /\ \A j \in 1 .. Len(p) - 1 : p[j] # Hash
    BY <2>1, <2>2, <2>4
  <2> DEFINE First(j) == p[j] = Hash /\ \A l \in 1 .. j - 1 : p[l] # Hash
  <2>6. (CHOOSE j \in DOMAIN p : First(j)) = Len(p)
    <3>1. First(Len(p))
      BY <2>5
    <3>2. \A j \in DOMAIN p : First(j) => j = Len(p)
      BY <2>4
    <3> HIDE DEF First
    <3>. QED
      BY <3>1, <3>2, <2>5
  <2>7. SubSeq(p, 1, Len(p)) = p
    OBVIOUS
  <2>. QED
    BY <1>2, <2>6, <2>7 DEF NodeOf
<1>. QED
  BY <1>1, <1>2

-----------------------------------------------------------------------------
(* The three operations, on any trie.                                      *)

LEMMA NodeOfNode ==
    ASSUME NEW T, Good(T), NEW n \in DOMAIN T.at
    PROVE  NodeOf(n) = n
<1>1. Paths(DOMAIN T.at)
  BY DEF Good
<1>2. n \in Seq(Segments) /\ (n = Root \/ IsValidPattern(n))
  BY <1>1 DEF Paths
<1> QED
  BY <1>2, NodeOfValid

LEMMA EmptyGood == Good(EmptyTrie)
<1>1. /\ EmptyTrie.at = [n \in {Root} |-> {}]
      /\ EmptyTrie.patterns = [id \in Subscribers |-> {}]
      /\ EmptyTrie = [at |-> EmptyTrie.at, patterns |-> EmptyTrie.patterns]
  BY DEF EmptyTrie
<1>2. Root \in Seq(Segments)
  BY DEF Root
<1>. QED
  BY <1>1, <1>2, FS_EmptySet DEF Good, Paths

LEMMA SubscribedGood ==
    ASSUME NEW T, Good(T), NEW p \in Patterns, NEW s \in Subscribers
    PROVE  Good(Subscribed(T, p, s)) /\ OthersKeep(T, Subscribed(T, p, s), s)
<1>1. CASE ~IsValidPattern(p)
  BY <1>1 DEF Subscribed, OthersKeep
<1>2. CASE IsValidPattern(p)
  <2> DEFINE nodes == DOMAIN T.at \cup Prefixes(p)
             at == [n \in nodes |-> IF n = p THEN At(T, n) \cup {s} ELSE At(T, n)]
             patterns == [T.patterns EXCEPT ![s] = @ \cup {p}]
             U == [at |-> at, patterns |-> patterns]
  <2>1. Subscribed(T, p, s) = U
    BY <1>2 DEF Subscribed
  <2>2. U.at = at /\ U.patterns = patterns /\ DOMAIN U.at = nodes
    OBVIOUS
  <2>3. /\ patterns \in [Subscribers -> SUBSET Patterns]
        /\ \A i \in Subscribers : patterns[i] = T.patterns[i] \cup (IF i = s THEN {p} ELSE {})
    BY DEF Good
  <2>4. \A i \in Subscribers : IsFiniteSet(patterns[i])
    <3> TAKE i \in Subscribers
    <3>1. IsFiniteSet(T.patterns[i]) /\ IsFiniteSet(T.patterns[i] \cup {p})
      BY FS_AddElement DEF Good
    <3>2. patterns[i] = T.patterns[i] \/ patterns[i] = T.patterns[i] \cup {p}
      BY <2>3
    <3> QED
      BY <3>1, <3>2
  <2>5. Paths(nodes)
    <3>1. p \in Seq(Segments)
      BY TrieAssumption
    <3> QED
      BY <3>1, <1>2, PrefixesValid DEF Good, Paths
  <2>6. \A n \in nodes : \A i \in at[n] :
           (n = p /\ i = s) \/ (n \in DOMAIN T.at /\ i \in T.at[n])
    BY DEF At
  <2>7. \A n \in nodes : \A i \in at[n] : i \in Subscribers /\ n \in patterns[i]
    <3> TAKE n \in nodes
    <3> TAKE i \in at[n]
    <3>1. CASE n = p /\ i = s
      BY <3>1, <2>3
    <3>2. CASE n \in DOMAIN T.at /\ i \in T.at[n]
      BY <3>2, <2>3 DEF Good
    <3> QED
      BY <3>1, <3>2, <2>6
  <2>8. at = [n \in DOMAIN at |-> at[n]]
    OBVIOUS
  <2>9. U = [at |-> U.at, patterns |-> U.patterns]
    OBVIOUS
  <2>10. \A n \in DOMAIN T.at : n \in nodes /\ T.at[n] \subseteq at[n]
    BY DEF At
  <2> HIDE DEF at, patterns, nodes, U
  <2>. QED
    <3>1. Good(U)
      BY <2>2, <2>3, <2>4, <2>5, <2>7, <2>8, <2>9 DEF Good
    <3>2. OthersKeep(T, U, s)
      BY <2>2, <2>6, <2>10 DEF OthersKeep, At
    <3> QED
      BY <2>1, <3>1, <3>2
<1>. QED
  BY <1>1, <1>2

LEMMA UnsubscribedGood ==
    ASSUME NEW T, Good(T), NEW p \in Patterns, NEW s \in Subscribers
    PROVE  LET U == Unsubscribed(T, p, s)
           IN  Good(U) /\ NobodyGains(T, U) /\ OthersKeep(T, U, s)
<1>1. CASE s \notin At(T, NodeOf(p))
  BY <1>1 DEF Unsubscribed, NobodyGains, OthersKeep
<1>2. CASE s \in At(T, NodeOf(p))
  <2> DEFINE at == [T.at EXCEPT ![NodeOf(p)] = @ \ {s}]
             patterns == [T.patterns EXCEPT ![s] = @ \ {p}]
             U == [at |-> at, patterns |-> patterns]
  <2>1. Unsubscribed(T, p, s) = U
    BY <1>2 DEF Unsubscribed
  <2>2. U.at = at /\ U.patterns = patterns
    OBVIOUS
  <2>3. DOMAIN at = DOMAIN T.at /\ at = [n \in DOMAIN at |-> at[n]]
    BY DEF Good
  <2>4. /\ patterns \in [Subscribers -> SUBSET Patterns]
        /\ \A i \in Subscribers : patterns[i] = T.patterns[i] \ (IF i = s THEN {p} ELSE {})
    BY DEF Good
  <2>5. \A i \in Subscribers : IsFiniteSet(patterns[i])
    BY <2>4, FS_Subset DEF Good
  <2>6. \A n \in DOMAIN T.at : \A i \in at[n] : i \in T.at[n] /\ ~(n = NodeOf(p) /\ i = s)
    BY DEF Good
  <2>7. \A n \in DOMAIN T.at : \A i \in at[n] : i \in Subscribers /\ n \in patterns[i]
    <3> TAKE n \in DOMAIN T.at
    <3> TAKE i \in at[n]
    <3>1. i \in Subscribers /\ n \in T.patterns[i]
      BY <2>6 DEF Good
    <3>2. n = p => NodeOf(p) = p
      BY NodeOfNode
    <3>3. ~(n = p /\ i = s)
      BY <2>6, <3>2
    <3> QED
      BY <2>4, <3>1, <3>3
  <2>8. \A n \in DOMAIN T.at : \A i \in T.at[n] : i = s \/ i \in at[n]
    BY DEF Good
  <2> HIDE DEF at, patterns
  <2>. QED
    BY <2>1, <2>2, <2>3, <2>4, <2>5, <2>6, <2>7, <2>8 DEF Good, NobodyGains, OthersKeep, At
<1>. QED
  BY <1>1, <1>2

\* unsubscribeAll() leaves nothing of the session it is called for.
LEMMA UnsubscribedAllGood ==
    ASSUME NEW T, Good(T), NEW s \in Subscribers
    PROVE  LET U == UnsubscribedAll(T, s)
           IN  /\ Good(U) /\ NobodyGains(T, U) /\ OthersKeep(T, U, s)
               /\ \A n \in DOMAIN U.at : s \notin U.at[n]
<1> DEFINE found == {p \in T.patterns[s] : s \in At(T, NodeOf(p))}
           at == [n \in DOMAIN T.at |->
                    IF \E p \in found : n = NodeOf(p) THEN T.at[n] \ {s} ELSE T.at[n]]
           patterns == [T.patterns EXCEPT ![s] = @ \ found]
           U == [at |-> at, patterns |-> patterns]
<1>1. UnsubscribedAll(T, s) = U
  BY DEF UnsubscribedAll
<1>2. U.at = at /\ U.patterns = patterns
  OBVIOUS
<1>3. DOMAIN at = DOMAIN T.at /\ at = [n \in DOMAIN at |-> at[n]]
  OBVIOUS
<1>4. /\ patterns \in [Subscribers -> SUBSET Patterns]
      /\ \A i \in Subscribers : patterns[i] = T.patterns[i] \ (IF i = s THEN found ELSE {})
  BY DEF Good
<1>5. \A i \in Subscribers : IsFiniteSet(patterns[i])
  <2> TAKE i \in Subscribers
  <2>1. patterns[i] \in SUBSET T.patterns[i] /\ IsFiniteSet(T.patterns[i])
    BY <1>4 DEF Good
  <2> QED
    BY <2>1, FS_Subset
<1>6. \A n \in DOMAIN T.at : \A i \in at[n] :
        i \in T.at[n] /\ i \in Subscribers /\ n \in T.patterns[i]
  BY DEF Good
<1>7. \A n \in DOMAIN T.at : s \notin at[n]
  <2> SUFFICES ASSUME NEW n \in DOMAIN T.at, s \in at[n] PROVE FALSE
    OBVIOUS
  <2>1. s \in T.at[n] /\ n \in T.patterns[s]
    BY <1>6
  <2>3. NodeOf(n) = n
    BY NodeOfNode
  <2>4. n \in found
    BY <2>1, <2>3 DEF At
  <2>. QED
    BY <2>3, <2>4
<1>8. \A n \in DOMAIN T.at : \A i \in at[n] : n \in patterns[i]
  BY <1>4, <1>6, <1>7
<1>9. \A n \in DOMAIN T.at : \A i \in T.at[n] : i = s \/ i \in at[n]
  OBVIOUS
<1> HIDE DEF at, patterns, found
<1>. QED
  BY <1>1, <1>2, <1>3, <1>4, <1>5, <1>6, <1>7, <1>8, <1>9 DEF Good, NobodyGains, OthersKeep, At

-----------------------------------------------------------------------------
(* The loops over the arguments.                                           *)

\* f is the trie after each of the first n arguments.
SubscribedSoFar(f, n, T, args, s) ==
    f = [k \in 0 .. n |-> IF k = 0 THEN T ELSE Subscribed(f[k - 1], args[k], s)]

LEMMA SubscribedEachSteps ==
    ASSUME NEW T, NEW args \in Seq(Patterns), NEW s
    PROVE  \E after : /\ SubscribedSoFar(after, Len(args), T, args, s)
                      /\ SubscribedEach(T, args, s) = after[Len(args)]
<1> DEFINE Steps(f, n) == SubscribedSoFar(f, n, T, args, s)
           Bad == {n \in 0 .. Len(args) : ~\E f : Steps(f, n)}
<1>1. Bad = {}
  <2> SUFFICES ASSUME Bad # {} PROVE FALSE
    OBVIOUS
  <2>1. PICK m \in Bad : \A n \in Bad : m <= n
    <3>1. Bad \in SUBSET Nat
      OBVIOUS
    <3> HIDE DEF Bad
    <3> QED
      BY <3>1, LeastOf
  <2>2. CASE m = 0
    <3>1. Steps([k \in 0 .. 0 |-> T], 0)
      BY DEF SubscribedSoFar
    <3> QED
      BY <2>1, <2>2, <3>1
  <2>3. CASE m # 0
    <3>1. m - 1 \in 0 .. Len(args) /\ m - 1 \notin Bad
      BY <2>1, <2>3
    <3>2. PICK f : Steps(f, m - 1)
      BY <3>1
    <3> DEFINE g == [k \in 0 .. m |->
                       IF k = m THEN Subscribed(f[m - 1], args[m], s) ELSE f[k]]
    <3>3. Steps(g, m)
      BY <3>2, <3>1, <2>1, <2>3 DEF SubscribedSoFar
    <3> QED
      BY <2>1, <3>3
  <2> QED
    BY <2>2, <2>3
<1>2. \E f : Steps(f, Len(args))
  <2>1. Len(args) \in 0 .. Len(args)
    OBVIOUS
  <2> QED
    BY <1>1, <2>1
<1> DEFINE After[k \in 0 .. Len(args)] ==
             IF k = 0 THEN T ELSE Subscribed(After[k - 1], args[k], s)
<1>3. Steps(After, Len(args))
  BY <1>2 DEF SubscribedSoFar
<1>4. SubscribedEach(T, args, s) = After[Len(args)]
  BY DEF SubscribedEach
<1> QED
  BY <1>3, <1>4

LEMMA SubscribedEachGood ==
    ASSUME NEW T, Good(T), NEW args \in Seq(Patterns), NEW s \in Subscribers
    PROVE  Good(SubscribedEach(T, args, s)) /\ OthersKeep(T, SubscribedEach(T, args, s), s)
<1>1. PICK after : /\ SubscribedSoFar(after, Len(args), T, args, s)
                   /\ SubscribedEach(T, args, s) = after[Len(args)]
  BY SubscribedEachSteps
<1> DEFINE Holds(U) == Good(U) /\ OthersKeep(T, U, s)
           Bad == {n \in 0 .. Len(args) : ~Holds(after[n])}
<1>2. Bad = {}
  <2> SUFFICES ASSUME Bad # {} PROVE FALSE
    OBVIOUS
  <2>1. PICK m \in Bad : \A n \in Bad : m <= n
    <3>1. Bad \in SUBSET Nat
      OBVIOUS
    <3> HIDE DEF Bad
    <3> QED
      BY <3>1, LeastOf
  <2>2. m # 0
    <3>1. after[0] = T
      BY <1>1 DEF SubscribedSoFar
    <3> QED
      BY <2>1, <3>1 DEF OthersKeep
  <2>3. m - 1 \in 0 .. Len(args) /\ m \in 0 .. Len(args) /\ Holds(after[m - 1])
    BY <2>1, <2>2
  <2>4. after[m] = Subscribed(after[m - 1], args[m], s)
    BY <1>1, <2>2, <2>3 DEF SubscribedSoFar
  <2>5. args[m] \in Patterns
    BY <2>2, <2>3
  <2>6. Good(after[m]) /\ OthersKeep(after[m - 1], after[m], s)
    BY <2>3, <2>4, <2>5, SubscribedGood
  <2>7. Holds(after[m])
    BY <2>3, <2>6 DEF OthersKeep
  <2> QED
    BY <2>1, <2>7
<1>3. Len(args) \in 0 .. Len(args)
  OBVIOUS
<1>4. Holds(after[Len(args)])
  BY <1>2, <1>3
<1> QED
  BY <1>1, <1>4

\* f is the trie after each of the first n arguments.
UnsubscribedSoFar(f, n, T, args, s) ==
    f = [k \in 0 .. n |-> IF k = 0 THEN T ELSE Unsubscribed(f[k - 1], args[k], s)]

LEMMA UnsubscribedEachSteps ==
    ASSUME NEW T, NEW args \in Seq(Patterns), NEW s
    PROVE  \E after : /\ UnsubscribedSoFar(after, Len(args), T, args, s)
                      /\ UnsubscribedEach(T, args, s) = after[Len(args)]
<1> DEFINE Steps(f, n) == UnsubscribedSoFar(f, n, T, args, s)
           Bad == {n \in 0 .. Len(args) : ~\E f : Steps(f, n)}
<1>1. Bad = {}
  <2> SUFFICES ASSUME Bad # {} PROVE FALSE
    OBVIOUS
  <2>1. PICK m \in Bad : \A n \in Bad : m <= n
    <3>1. Bad \in SUBSET Nat
      OBVIOUS
    <3> HIDE DEF Bad
    <3> QED
      BY <3>1, LeastOf
  <2>2. CASE m = 0
    <3>1. Steps([k \in 0 .. 0 |-> T], 0)
      BY DEF UnsubscribedSoFar
    <3> QED
      BY <2>1, <2>2, <3>1
  <2>3. CASE m # 0
    <3>1. m - 1 \in 0 .. Len(args) /\ m - 1 \notin Bad
      BY <2>1, <2>3
    <3>2. PICK f : Steps(f, m - 1)
      BY <3>1
    <3> DEFINE g == [k \in 0 .. m |->
                       IF k = m THEN Unsubscribed(f[m - 1], args[m], s) ELSE f[k]]
    <3>3. Steps(g, m)
      BY <3>2, <3>1, <2>1, <2>3 DEF UnsubscribedSoFar
    <3> QED
      BY <2>1, <3>3
  <2> QED
    BY <2>2, <2>3
<1>2. \E f : Steps(f, Len(args))
  <2>1. Len(args) \in 0 .. Len(args)
    OBVIOUS
  <2> QED
    BY <1>1, <2>1
<1> DEFINE After[k \in 0 .. Len(args)] ==
             IF k = 0 THEN T ELSE Unsubscribed(After[k - 1], args[k], s)
<1>3. Steps(After, Len(args))
  BY <1>2 DEF UnsubscribedSoFar
<1>4. UnsubscribedEach(T, args, s) = After[Len(args)]
  BY DEF UnsubscribedEach
<1> QED
  BY <1>3, <1>4

LEMMA UnsubscribedEachGood ==
    ASSUME NEW T, Good(T), NEW args \in Seq(Patterns), NEW s \in Subscribers
    PROVE  LET U == UnsubscribedEach(T, args, s)
           IN  Good(U) /\ NobodyGains(T, U) /\ OthersKeep(T, U, s)
<1>1. PICK after : /\ UnsubscribedSoFar(after, Len(args), T, args, s)
                   /\ UnsubscribedEach(T, args, s) = after[Len(args)]
  BY UnsubscribedEachSteps
<1> DEFINE Holds(U) == Good(U) /\ NobodyGains(T, U) /\ OthersKeep(T, U, s)
           Bad == {n \in 0 .. Len(args) : ~Holds(after[n])}
<1>2. Bad = {}
  <2> SUFFICES ASSUME Bad # {} PROVE FALSE
    OBVIOUS
  <2>1. PICK m \in Bad : \A n \in Bad : m <= n
    <3>1. Bad \in SUBSET Nat
      OBVIOUS
    <3> HIDE DEF Bad
    <3> QED
      BY <3>1, LeastOf
  <2>2. m # 0
    <3>1. after[0] = T
      BY <1>1 DEF UnsubscribedSoFar
    <3> QED
      BY <2>1, <3>1 DEF NobodyGains, OthersKeep
  <2>3. m - 1 \in 0 .. Len(args) /\ m \in 0 .. Len(args) /\ Holds(after[m - 1])
    BY <2>1, <2>2
  <2>4. after[m] = Unsubscribed(after[m - 1], args[m], s)
    BY <1>1, <2>2, <2>3 DEF UnsubscribedSoFar
  <2>5. args[m] \in Patterns
    BY <2>2, <2>3
  <2>6. /\ Good(after[m]) /\ NobodyGains(after[m - 1], after[m])
        /\ OthersKeep(after[m - 1], after[m], s)
    BY <2>3, <2>4, <2>5, UnsubscribedGood
  <2>7. Holds(after[m])
    BY <2>3, <2>6 DEF NobodyGains, OthersKeep
  <2> QED
    BY <2>1, <2>7
<1>3. Len(args) \in 0 .. Len(args)
  OBVIOUS
<1>4. Holds(after[Len(args)])
  BY <1>2, <1>3
<1> QED
  BY <1>1, <1>4

-----------------------------------------------------------------------------
(* The dispatcher's steps.                                                 *)

\* What a count of zero in the reply says of a trie.
LEMMA ZeroCount ==
    ASSUME NEW T, Good(T), NEW s \in Subscribers, Cardinality(T.patterns[s]) = 0
    PROVE  \A n \in DOMAIN T.at : s \notin T.at[n]
<1>1. T.patterns[s] = {}
  BY FS_EmptySet DEF Good
<1> QED
  BY <1>1 DEF Good

\* A session is somebody, which it is not before the first reply.
LEMMA SomebodyAtNodes ==
    ASSUME NEW T, Good(T), NEW n \in DOMAIN T.at, NEW i \in T.at[n]
    PROVE  i \in Sessions /\ i # Nobody
  BY DispatcherAssumption DEF Good, Sessions, Nobody

LEMMA InitHolds == DInit => IInv
<1> SUFFICES ASSUME DInit PROVE IInv
  OBVIOUS
<1>1. \A n \in DOMAIN trie.at : trie.at[n] = {}
  BY DEF DInit, TrieInit, EmptyTrie
<1>2. Good(trie)
  BY EmptyGood DEF DInit, TrieInit
<1>3. TypeInv /\ RoutesReady /\ ZeroIsTrue
  BY <1>1 DEF DInit, TypeInv, RoutesReady, ZeroIsTrue
<1> QED
  BY <1>2, <1>3 DEF IInv

\* What no step but a subscription does: the trie is as it was, or has lost something, and
\* the reply, where it is a new one, is true of it.
LEMMA QuietStep ==
    ASSUME IInv, Good(trie'), NobodyGains(trie, trie'), TypeInv',
           \/ reply'.what # "count"
           \/ reply' = reply
           \/ \E s \in Sessions : Counts(s, Cardinality(trie'.patterns[s])),
           \A s \in Sessions : session[s] = "ready" /\ session'[s] # "ready" =>
               /\ \A n \in DOMAIN trie'.at : s \notin trie'.at[n]
               /\ eventSubs'[s] = NoFilter,
           \A s \in Sessions : eventSubs'[s] = eventSubs[s] \/ eventSubs'[s] = NoFilter
                               \/ session'[s] = "ready"
    PROVE  IInv'
<1>1. \A n \in DOMAIN trie'.at : \A s \in trie'.at[n] : session'[s] = "ready"
  <2> TAKE n \in DOMAIN trie'.at
  <2> TAKE s \in trie'.at[n]
  <2>1. s \in Sessions
    BY SomebodyAtNodes
  <2>2. session[s] = "ready"
    BY DEF NobodyGains, IInv, RoutesReady
  <2> QED
    BY <2>1, <2>2
<1>2. \A s \in Sessions : eventSubs'[s] # NoFilter => session'[s] = "ready"
  BY DEF IInv, RoutesReady
<1>3. ZeroIsTrue'
  <2>1. CASE reply' = reply
    BY <2>1 DEF IInv, ZeroIsTrue, NobodyGains
  <2>2. CASE \E s \in Sessions : Counts(s, Cardinality(trie'.patterns[s]))
    <3>1. PICK s \in Sessions : Counts(s, Cardinality(trie'.patterns[s]))
      BY <2>2
    <3>2. reply'.to = s /\ reply'.count = Cardinality(trie'.patterns[s])
      BY <3>1 DEF Counts
    <3> QED
      BY <3>2, ZeroCount DEF ZeroIsTrue, Sessions
  <2>3. CASE reply'.what # "count"
    BY <2>3 DEF ZeroIsTrue
  <2> QED
    BY <2>1, <2>2, <2>3
<1> QED
  BY <1>1, <1>2, <1>3 DEF IInv, RoutesReady

LEMMA SameTrie ==
    ASSUME IInv, trie' = trie
    PROVE  Good(trie') /\ NobodyGains(trie, trie')
  BY DEF IInv, NobodyGains

LEMMA ConnectInv ==
    ASSUME IInv, NEW s \in Sessions, Connect(s)
    PROVE  IInv'
<1>1. Good(trie') /\ NobodyGains(trie, trie')
  BY SameTrie DEF Connect
<1>2. /\ TypeInv'
      /\ reply' = reply /\ eventSubs' = eventSubs
      /\ \A i \in Sessions : session[i] = "ready" => session'[i] = "ready"
  BY DEF Connect, IInv, TypeInv
<1> QED
  BY <1>1, <1>2, QuietStep

LEMMA ClosedInv ==
    ASSUME IInv, NEW s \in Sessions, OnSessionClosed(s)
    PROVE  IInv'
<1>1. /\ Good(trie') /\ NobodyGains(trie, trie')
      /\ \A n \in DOMAIN trie'.at : s \notin trie'.at[n]
  BY UnsubscribedAllGood DEF OnSessionClosed, IInv, Sessions
<1>2. /\ TypeInv'
      /\ reply' = reply
      /\ \A i \in Sessions :
           IF i = s THEN eventSubs'[i] = NoFilter
                    ELSE eventSubs'[i] = eventSubs[i] /\ session'[i] = session[i]
  BY DEF OnSessionClosed, IInv, TypeInv
<1> QED
  BY <1>1, <1>2, QuietStep

\* Commands that change neither the trie nor a count.
LEMMA PlainCommandInv ==
    ASSUME IInv, NEW s \in Sessions,
           NotReady(s) \/ Hello(s) \/ OtherCommand(s) \/ SubEvent(s) \/ UnsubEvent(s)
    PROVE  IInv'
<1>1. Good(trie') /\ NobodyGains(trie, trie')
  BY SameTrie DEF NotReady, Hello, OtherCommand, SubEvent, UnsubEvent
<1>2. reply'.what # "count"
  BY DEF NotReady, Hello, OtherCommand, SubEvent, UnsubEvent, Says
<1>3. CASE NotReady(s) \/ Hello(s) \/ OtherCommand(s)
  <2>1. eventSubs' = eventSubs
    BY <1>3 DEF NotReady, Hello, OtherCommand
  <2>2. session' = session \/ session' = [session EXCEPT ![s] = "ready"]
    BY <1>3 DEF NotReady, Hello, OtherCommand
  <2>3. TypeInv' /\ \A i \in Sessions : session[i] = "ready" => session'[i] = "ready"
    BY <2>1, <2>2 DEF IInv, TypeInv
  <2> QED
    BY <1>1, <1>2, <2>1, <2>3, QuietStep
<1>4. CASE SubEvent(s) \/ UnsubEvent(s)
  <2>1. /\ session' = session /\ session[s] = "ready"
        /\ \E f \in Filters \cup {NoFilter} :
              eventSubs' = eventSubs \/ eventSubs' = [eventSubs EXCEPT ![s] = f]
    BY <1>4 DEF SubEvent, UnsubEvent
  <2>2. TypeInv' /\ \A i \in Sessions : eventSubs'[i] = eventSubs[i] \/ i = s
    BY <2>1 DEF IInv, TypeInv
  <2> QED
    BY <1>1, <1>2, <2>1, <2>2, QuietStep
<1> QED
  BY <1>3, <1>4

LEMMA UnsubscribeInv ==
    ASSUME IInv, NEW s \in Sessions, NEW args \in Arguments, Unsubscribe(s, args)
    PROVE  IInv'
<1>1. args \in Seq(Patterns) /\ s \in Subscribers /\ Good(trie)
  BY DispatcherAssumption DEF IInv, Sessions
<1>2. Good(trie') /\ NobodyGains(trie, trie')
  <2>1. CASE args = <<>>
    BY <1>1, <2>1, UnsubscribedAllGood DEF Unsubscribe
  <2>2. CASE args # <<>>
    BY <1>1, <2>2, UnsubscribedEachGood DEF Unsubscribe
  <2> QED
    BY <2>1, <2>2
<1>3. TypeInv' /\ session' = session /\ eventSubs' = eventSubs
  BY DEF Unsubscribe, IInv, TypeInv
<1>4. Counts(s, Cardinality(trie'.patterns[s]))
  BY DEF Unsubscribe
<1> QED
  BY <1>2, <1>3, <1>4, QuietStep

LEMMA SubscribeInv ==
    ASSUME IInv, NEW s \in Sessions, NEW args \in Arguments,
           Watch(s, args) \/ Subscribe(s, args)
    PROVE  IInv'
<1>1. session[s] = "ready" /\ session' = session /\ eventSubs' = eventSubs /\ TypeInv'
  BY DEF Watch, Subscribe, IInv, TypeInv
<1>2. CASE Refuse(s, args)
  <2>1. Good(trie') /\ NobodyGains(trie, trie')
    BY <1>2, SameTrie DEF Refuse
  <2>2. reply'.what # "count"
    BY <1>2 DEF Refuse, Says
  <2> QED
    BY <1>1, <2>1, <2>2, QuietStep
<1>3. CASE Accept(s, args)
  <2>1. Good(trie') /\ OthersKeep(trie, trie', s)
    BY <1>3, SubscribedEachGood, DispatcherAssumption DEF Accept, IInv, Sessions
  <2>2. RoutesReady'
    BY <1>1, <2>1 DEF IInv, RoutesReady, OthersKeep, At
  <2>3. reply'.to = s /\ reply'.count = Cardinality(trie'.patterns[s])
    BY <1>3 DEF Accept, Counts
  <2>4. ZeroIsTrue'
    BY <2>1, <2>3, ZeroCount DEF ZeroIsTrue, Sessions
  <2> QED
    BY <1>1, <2>1, <2>2, <2>4 DEF IInv
<1> QED
  BY <1>2, <1>3 DEF Watch, Subscribe

LEMMA Inductive == IInv /\ [DNext]_dvars => IInv'
<1> SUFFICES ASSUME IInv, [DNext]_dvars PROVE IInv'
  OBVIOUS
<1>1. CASE UNCHANGED dvars
  BY <1>1 DEF dvars, IInv, TypeInv, RoutesReady, ZeroIsTrue
<1>2. CASE DNext
  BY <1>2, ConnectInv, ClosedInv, PlainCommandInv, UnsubscribeInv, SubscribeInv
     DEF DNext, Command
<1> QED
  BY <1>1, <1>2

-----------------------------------------------------------------------------
(* Matching.                                                               *)

\* What the pairwise matcher computes: what the definition of the wildcards says.
LEMMA WalkIsStands ==
    ASSUME NEW p \in Seq(Segments), NEW t \in Seq(Segments), IsValidPattern(p), IsConcrete(t)
    PROVE  Matches(p, t) <=> Stands(p, t)
<1> DEFINE L == Len(p)
           fixed == IF p[L] = Hash THEN L - 1 ELSE L
           Agree(j) == j <= Len(t) /\ p[j] \in {Plus, t[j]}
           From(i) == /\ \A j \in i .. fixed : Agree(j)
                      /\ i = L + 1 \/ p[L] # Hash => Len(t) = L
           Step(w, i) == IF i > L THEN Len(t) = L
                         ELSE IF p[i] = Hash THEN TRUE
                         ELSE IF i > Len(t) THEN FALSE
                         ELSE (p[i] = Plus \/ p[i] = t[i]) /\ w[i + 1]
           Walk[i \in 1 .. L + 1] == Step(Walk, i)
<1>1. L \in Nat \ {0} /\ Len(t) \in Nat /\ fixed \in {L - 1, L}
  BY DEF IsValidPattern
<1>2. \A j \in 1 .. L : p[j] = Hash => j = L
  BY DEF IsValidPattern
<1>3. ASSUME NEW w, NEW i \in 1 .. L + 1, i <= L => (w[i + 1] <=> From(i + 1))
      PROVE  Step(w, i) <=> From(i)
  <2> HIDE DEF L
  <2>1. CASE i = L + 1
    BY <1>1, <2>1
  <2>2. CASE i <= L /\ p[i] = Hash
    BY <1>1, <1>2, <2>2
  <2>3. CASE i <= L /\ p[i] # Hash
    <3>1. i <= fixed
      BY <1>1, <2>3
    <3>2. From(i) <=> Agree(i) /\ From(i + 1)
      BY <1>1, <2>3, <3>1
    <3>3. Step(w, i) <=> Agree(i) /\ w[i + 1]
      BY <1>1, <2>3
    <3> QED
      BY <1>3, <2>3, <3>2, <3>3
  <2> QED
    BY <1>1, <2>1, <2>2, <2>3
<1>4. \E f : f = [i \in 1 .. L + 1 |-> Step(f, i)]
  <2> DEFINE f == [i \in 1 .. L + 1 |-> From(i)]
  <2>1. \A i \in 1 .. L + 1 : i <= L => (f[i + 1] <=> From(i + 1))
    <3>1. \A i \in 1 .. L + 1 : i <= L => i + 1 \in 1 .. L + 1
      BY <1>1
    <3> HIDE DEF From, L
    <3> QED
      BY <3>1
  <2>2. \A i \in 1 .. L + 1 : Step(f, i) <=> From(i)
    <3> HIDE DEF Step, From, f
    <3> QED
      BY <1>3, <2>1
  <2>3. \A i \in 1 .. L + 1 : Step(f, i) \in BOOLEAN /\ From(i) \in BOOLEAN
    BY <1>1, <2>1
  <2> HIDE DEF From, Step
  <2>4. f = [i \in 1 .. L + 1 |-> Step(f, i)]
    BY <2>2, <2>3
  <2> QED
    BY <2>4
<1>5. Walk = [i \in 1 .. L + 1 |-> Step(Walk, i)]
  <2> HIDE DEF Step
  <2> QED
    BY <1>4
<1>6. \A i \in 1 .. L + 1 : Walk[i] <=> Step(Walk, i)
  <2> HIDE DEF Step, Walk
  <2> QED
    BY <1>5
<1>7. Walk[1] <=> From(1)
  <2> HIDE DEF Step, From, Walk, L
  <2> DEFINE Bad == {d \in 0 .. L : ~(Walk[L + 1 - d] <=> From(L + 1 - d))}
  <2>1. Bad = {}
    <3> SUFFICES ASSUME Bad # {} PROVE FALSE
      OBVIOUS
    <3>1. PICK m \in Bad : \A d \in Bad : m <= d
      <4>1. Bad \in SUBSET Nat
        OBVIOUS
      <4> HIDE DEF Bad
      <4> QED
        BY <4>1, LeastOf
    <3> DEFINE i == L + 1 - m
    <3>2. i \in 1 .. L + 1 /\ ~(Walk[i] <=> From(i))
      BY <1>1, <3>1
    <3>3. i <= L => (Walk[i + 1] <=> From(i + 1))
      <4> SUFFICES ASSUME i <= L PROVE Walk[i + 1] <=> From(i + 1)
        OBVIOUS
      <4>1. m - 1 \in 0 .. L /\ m - 1 \notin Bad /\ i + 1 = L + 1 - (m - 1)
        BY <1>1, <3>1
      <4> QED
        BY <4>1
    <3> HIDE DEF i
    <3> QED
      BY <1>3, <1>6, <3>2, <3>3
  <2>2. L \in 0 .. L /\ L + 1 - L = 1
    BY <1>1
  <2> QED
    BY <2>1, <2>2
<1>8. Matches(p, t) <=> Walk[1]
  BY DEF Matches
<1>9. From(1) <=> Stands(p, t)
  <2>1. Stands(p, t) <=> /\ IF p[L] = Hash THEN Len(t) >= fixed ELSE Len(t) = fixed
                         /\ \A i \in 1 .. fixed : p[i] \in {Plus, t[i]}
    BY DEF Stands
  <2>2. From(1) <=> /\ \A j \in 1 .. fixed : j <= Len(t) /\ p[j] \in {Plus, t[j]}
                    /\ p[L] # Hash => Len(t) = L
    BY <1>1
  <2>3. (\A j \in 1 .. fixed : j <= Len(t)) <=> Len(t) >= fixed
    BY <1>1
  <2> QED
    BY <1>1, <2>1, <2>2, <2>3
<1> HIDE DEF Walk, From
<1> QED
  BY <1>7, <1>8, <1>9

\* What the walk through the trie computes: those at the nodes of the matching patterns.
LEMMA MatchIsUnion ==
    ASSUME Good(trie), NEW t \in Seq(Segments)
    PROVE  Match(t) = UNION {trie.at[p] : p \in {q \in DOMAIN trie.at : Matches(q, t)}}
<1> DEFINE N == DOMAIN trie.at
           Fitting(k) == {n \in N : Len(n) = k /\ \A i \in 1 .. k : n[i] \in {Plus, t[i]}}
           Step(f, k) == IF k = 0 THEN {Root}
                         ELSE N \cap UNION {{Append(n, t[k]), Append(n, Plus)} : n \in f[k - 1]}
           Reach[k \in 0 .. Len(t)] == Step(Reach, k)
           Found == UNION ({At(trie, Append(n, Hash)) : n \in UNION {Reach[k] : k \in 0 .. Len(t)}}
                           \cup {At(trie, n) : n \in Reach[Len(t)]})
           ByPattern == UNION {trie.at[p] : p \in {q \in N : Matches(q, t)}}
<1>1. Paths(N) /\ Len(t) \in Nat
  BY DEF Good
<1>2. ASSUME ~IsConcrete(t) PROVE Match(t) = ByPattern
  <2>1. Match(t) = {}
    BY <1>2 DEF Match
  <2>2. \A q : ~Matches(q, t)
    BY <1>2 DEF Matches
  <2> QED
    BY <2>1, <2>2
<1>3. ASSUME NEW f, NEW k \in 0 .. Len(t), k # 0 => f[k - 1] = Fitting(k - 1)
      PROVE  Step(f, k) = Fitting(k)
  <2>1. CASE k = 0
    <3>1. Fitting(0) = {Root}
      BY <1>1 DEF Paths, Root
    <3> QED
      BY <2>1, <3>1
  <2>2. CASE k # 0
    <3> HIDE DEF N
    <3>1. k \in Nat \ {0} /\ k - 1 \in Nat /\ f[k - 1] = Fitting(k - 1)
      BY <1>1, <1>3, <2>2
    <3>2. ASSUME NEW n \in Step(f, k) PROVE n \in Fitting(k)
      <4>1. PICK m \in Fitting(k - 1) : n \in {Append(m, t[k]), Append(m, Plus)}
        BY <2>2, <3>1, <3>2
      <4>2. n \in N /\ m \in Seq(Segments) /\ Len(m) = k - 1
        BY <1>1, <2>2, <3>2, <4>1 DEF Paths
      <4>3. Len(n) = k /\ n[k] \in {t[k], Plus} /\ \A i \in 1 .. k - 1 : n[i] = m[i]
        <5>1. PICK x \in {t[k], Plus} : n = Append(m, x)
          BY <4>1
        <5>2. Len(n) = Len(m) + 1 /\ n[Len(m) + 1] = x /\ \A i \in 1 .. Len(m) : n[i] = m[i]
          BY <4>2, <5>1
        <5> QED
          BY <3>1, <4>2, <5>2
      <4> QED
        BY <3>1, <4>1, <4>2, <4>3
    <3>3. ASSUME NEW n \in Fitting(k) PROVE n \in Step(f, k)
      <4> DEFINE m == SubSeq(n, 1, k - 1)
      <4>1. n \in Seq(Segments) /\ Len(n) = k /\ n # Root /\ n \in N
        BY <1>1, <3>1, <3>3 DEF Paths, Root
      <4>2. m \in N
        BY <1>1, <4>1 DEF Paths
      <4>3. Len(m) = k - 1 /\ \A i \in 1 .. k - 1 : m[i] = n[i]
        BY <3>1, <4>1
      <4>4. m \in Fitting(k - 1)
        <5> HIDE DEF m
        <5>1. \A i \in 1 .. k - 1 : m[i] \in {Plus, t[i]}
          BY <3>1, <3>3, <4>3
        <5> QED
          BY <4>2, <4>3, <5>1
      <4>5. n = Append(m, n[k]) /\ n[k] \in {Plus, t[k]}
        BY <3>1, <3>3, <4>1
      <4> HIDE DEF m
      <4> QED
        BY <2>2, <3>1, <4>1, <4>4, <4>5
    <3> QED
      BY <3>2, <3>3
  <2> QED
    BY <2>1, <2>2
<1>4. \E f : f = [k \in 0 .. Len(t) |-> Step(f, k)]
  <2> DEFINE f == [k \in 0 .. Len(t) |-> Fitting(k)]
  <2>1. \A k \in 0 .. Len(t) : k # 0 => f[k - 1] = Fitting(k - 1)
    <3>1. \A k \in 0 .. Len(t) : k # 0 => k - 1 \in 0 .. Len(t)
      BY <1>1
    <3> HIDE DEF Fitting
    <3> QED
      BY <3>1
  <2>2. \A k \in 0 .. Len(t) : Step(f, k) = Fitting(k)
    <3> HIDE DEF Step, Fitting, f
    <3> QED
      BY <1>3, <2>1
  <2> HIDE DEF Step, Fitting
  <2>3. f = [k \in 0 .. Len(t) |-> Step(f, k)]
    BY <2>2
  <2> QED
    BY <2>3
<1>5. Reach = [k \in 0 .. Len(t) |-> Step(Reach, k)]
  <2> HIDE DEF Step
  <2> QED
    BY <1>4
<1>6. \A k \in 0 .. Len(t) : Reach[k] = Fitting(k)
  <2> HIDE DEF Step, Fitting, Reach
  <2> DEFINE Bad == {k \in 0 .. Len(t) : Reach[k] # Fitting(k)}
  <2> SUFFICES ASSUME Bad # {} PROVE FALSE
    OBVIOUS
  <2>1. PICK m \in Bad : \A k \in Bad : m <= k
    <3>1. Bad \in SUBSET Nat
      BY <1>1
    <3> HIDE DEF Bad
    <3> QED
      BY <3>1, LeastOf
  <2>2. m # 0 => m - 1 \in 0 .. Len(t) /\ m - 1 \notin Bad
    BY <1>1, <2>1
  <2>3. Reach[m] = Step(Reach, m)
    BY <1>5, <2>1
  <2> QED
    BY <1>3, <2>1, <2>2, <2>3
<1>7. ASSUME IsConcrete(t) PROVE Match(t) = Found
  BY <1>7 DEF Match
<1> HIDE DEF Reach, Step
<1>8. ASSUME IsConcrete(t), NEW i \in Found PROVE i \in ByPattern
  <2> SUFFICES \E q \in N : Matches(q, t) /\ i \in trie.at[q]
    OBVIOUS
  <2>1. \/ \E k \in 0 .. Len(t) : \E n \in Fitting(k) : i \in At(trie, Append(n, Hash))
        \/ \E n \in Fitting(Len(t)) : i \in At(trie, n)
    <3> DEFINE All == UNION {Reach[k] : k \in 0 .. Len(t)}
               ByHash == {At(trie, Append(n, Hash)) : n \in All}
               Themselves == {At(trie, n) : n \in Reach[Len(t)]}
    <3>1. PICK S \in ByHash \cup Themselves : i \in S
      BY <1>8
    <3>2. CASE S \in ByHash
      BY <1>6, <3>1, <3>2
    <3>3. CASE S \in Themselves
      BY <1>1, <1>6, <3>1, <3>3
    <3> QED
      BY <3>1, <3>2, <3>3
  <2>2. ASSUME NEW k \in 0 .. Len(t), NEW n \in Fitting(k), i \in At(trie, Append(n, Hash))
        PROVE  \E q \in N : Matches(q, t) /\ i \in trie.at[q]
    <3> DEFINE q == Append(n, Hash)
    <3>1. q \in N /\ i \in trie.at[q]
      BY <2>2 DEF At
    <3>2. n \in Seq(Segments) /\ Len(n) = k
      BY <1>1 DEF Paths
    <3>3. Len(q) = k + 1 /\ q[k + 1] = Hash /\ \A j \in 1 .. k : q[j] = n[j]
      BY <3>2
    <3>4. q \in Seq(Segments) /\ IsValidPattern(q)
      <4> HIDE DEF q
      <4>1. q # Root
        BY <1>1, <3>3 DEF Root
      <4> QED
        BY <1>1, <3>1, <4>1 DEF Paths
    <3>5. Stands(q, t)
      BY <1>1, <3>3 DEF Stands
    <3> HIDE DEF q
    <3> QED
      BY <1>8, <3>1, <3>4, <3>5, WalkIsStands
  <2>3. ASSUME NEW n \in Fitting(Len(t)), i \in At(trie, n)
        PROVE  \E q \in N : Matches(q, t) /\ i \in trie.at[q]
    <3>1. n \in N /\ i \in trie.at[n] /\ n \in Seq(Segments) /\ Len(n) = Len(t)
      BY <1>1, <2>3 DEF At, Paths
    <3>2. Len(t) > 0 /\ \A j \in 1 .. Len(t) : t[j] # Hash
      BY <1>8 DEF IsConcrete, IsValidPattern
    <3>3. IsValidPattern(n)
      BY <1>1, <3>1, <3>2 DEF Paths, Root
    <3>4. \A j \in 1 .. Len(t) : n[j] \in {Plus, t[j]}
      OBVIOUS
    <3>5. n[Len(n)] # Hash
      BY <1>1, <3>1, <3>2, <3>4 DEF Plus, Hash
    <3>6. Stands(n, t)
      BY <3>1, <3>4, <3>5 DEF Stands
    <3> QED
      BY <1>8, <3>1, <3>3, <3>6, WalkIsStands
  <2> QED
    BY <2>1, <2>2, <2>3
<1>9. ASSUME IsConcrete(t), NEW i \in ByPattern PROVE i \in Found
  <2>1. PICK q \in N : Matches(q, t) /\ i \in trie.at[q]
    OBVIOUS
  <2>2. q \in Seq(Segments) /\ IsValidPattern(q)
    BY <1>1, <2>1 DEF Paths, Matches
  <2>3. Stands(q, t) /\ Len(q) \in Nat \ {0} /\ q # Root
    BY <1>9, <2>1, <2>2, WalkIsStands DEF IsValidPattern, Root
  <2>4. CASE q[Len(q)] = Hash
    <3> DEFINE k == Len(q) - 1
               n == SubSeq(q, 1, k)
    <3>1. k \in 0 .. Len(t) /\ \A j \in 1 .. k : q[j] \in {Plus, t[j]}
      BY <1>1, <2>3, <2>4 DEF Stands
    <3>2. n \in N
      BY <1>1, <2>3 DEF Paths
    <3>3. Len(n) = k /\ \A j \in 1 .. k : n[j] = q[j]
      <4>1. k \in Nat /\ k <= Len(q)
        BY <2>3
      <4> HIDE DEF k
      <4> QED
        BY <2>2, <4>1
    <3>4. q = Append(n, Hash)
      BY <2>2, <2>3, <2>4
    <3>5. n \in Fitting(k)
      BY <3>1, <3>2, <3>3
    <3> HIDE DEF n, k
    <3>6. n \in Reach[k] /\ i \in At(trie, Append(n, Hash))
      BY <1>6, <2>1, <3>1, <3>4, <3>5 DEF At
    <3> QED
      BY <3>1, <3>6
  <2>5. CASE q[Len(q)] # Hash
    <3>1. Len(q) = Len(t) /\ \A j \in 1 .. Len(t) : q[j] \in {Plus, t[j]}
      BY <2>3, <2>5 DEF Stands
    <3>2. q \in Reach[Len(t)] /\ i \in At(trie, q)
      BY <1>1, <1>6, <2>1, <3>1 DEF At
    <3> QED
      BY <3>2
  <2> QED
    BY <2>4, <2>5
<1> HIDE DEF Found, ByPattern
<1>10. ASSUME IsConcrete(t) PROVE Match(t) = ByPattern
  BY <1>7, <1>8, <1>9, <1>10
<1>11. Match(t) = ByPattern
  BY <1>2, <1>10
<1> QED
  BY <1>11 DEF ByPattern, N

LEMMA MatchExact == Good(trie) => MatchIsExact
<1> SUFFICES ASSUME Good(trie) PROVE MatchIsExact
  OBVIOUS
<1>1. ASSUME NEW t \in Topics, NEW p \in Patterns
      PROVE  Matches(p, t) <=> IsValidPattern(p) /\ IsConcrete(t) /\ Stands(p, t)
  <2>1. p \in Seq(Segments) /\ t \in Seq(Segments)
    BY TrieAssumption
  <2>2. Matches(p, t) => IsValidPattern(p) /\ IsConcrete(t)
    BY DEF Matches
  <2> QED
    BY <2>1, <2>2, WalkIsStands
<1>2. ASSUME NEW t \in Topics
      PROVE  Match(t) = UNION {trie.at[p] : p \in {q \in DOMAIN trie.at : Matches(q, t)}}
  BY MatchIsUnion, TrieAssumption
<1> QED
  BY <1>1, <1>2 DEF MatchIsExact

-----------------------------------------------------------------------------

\* A walk through the trie finds those at some node, whichever nodes it reaches.
LEMMA MatchFindsAtNodes ==
    ASSUME NEW t, NEW s \in Match(t)
    PROVE  \E n \in DOMAIN trie.at : s \in trie.at[n]
<1> DEFINE Reach[k \in 0 .. Len(t)] ==
             IF k = 0 THEN {Root}
             ELSE DOMAIN trie.at
                  \cap UNION {{Append(n, t[k]), Append(n, Plus)} : n \in Reach[k - 1]}
           Ends == Reach[Len(t)]
           All == UNION {Reach[k] : k \in 0 .. Len(t)}
           ByHash == {At(trie, Append(n, Hash)) : n \in All}
           Themselves == {At(trie, n) : n \in Ends}
<1>1. Match(t) = UNION (ByHash \cup Themselves)
  BY DEF Match
<1> HIDE DEF Reach, Ends, All
<1>2. \A S \in ByHash \cup Themselves : \E n : S = At(trie, n)
  OBVIOUS
<1> HIDE DEF ByHash, Themselves
<1>3. PICK S \in ByHash \cup Themselves : s \in S
  BY <1>1
<1>4. PICK n : s \in At(trie, n)
  BY <1>2, <1>3
<1> QED
  BY <1>4 DEF At

\* Matching yields a subscriber by the nodes it is at, so it yields the others as before.
LEMMA OthersMatch ==
    ASSUME Good(trie), Good(trie)', NEW s, OthersKeep(trie, trie', s),
           NEW t \in Topics, NEW i, i # s
    PROVE  (i \in Match(t)) <=> (i \in Match(t)')
<1>1. MatchIsExact /\ MatchIsExact'
  BY MatchExact, PTL
<1> QED
  BY <1>1 DEF MatchIsExact, OthersKeep, At

LEMMA GoodTyped == Good(trie) => TrieTypeOK
<1> SUFFICES ASSUME Good(trie) PROVE TrieTypeOK
  OBVIOUS
<1>1. DOMAIN trie = {"at", "patterns"}
  BY DEF Good
<1>2. \A n \in DOMAIN trie.at :
        trie.at[n] \subseteq Subscribers /\ Prefixes(n) \subseteq DOMAIN trie.at
  BY PrefixesThere DEF Good
<1> QED
  BY <1>1, <1>2 DEF Good, Paths, TrieTypeOK

\* Whatever is subscribed and unsubscribed, the paths of the nodes are closed upwards.
THEOREM TrieTypeCorrect == TrieSpec => []TrieTypeOK
<1>1. TrieInit => Good(trie)
  BY EmptyGood DEF TrieInit
<1>2. Good(trie) /\ [TrieNext]_trie => Good(trie)'
  BY SubscribedGood, UnsubscribedGood, UnsubscribedAllGood DEF TrieNext
<1> QED
  BY <1>1, <1>2, GoodTyped, PTL DEF TrieSpec

ReplyTyped ==
    reply \in [to : Sessions \cup {Nobody}, what : Errors \cup {"value", "count"}, count : Nat]

LEMMA SaysTyped ==
    ASSUME NEW s \in Sessions, NEW w \in Errors \cup {"value"}, Says(s, w)
    PROVE  ReplyTyped'
  BY DEF Says, ReplyTyped, Sessions

LEMMA CountsTyped ==
    ASSUME NEW s \in Sessions, Good(trie'), Counts(s, Cardinality(trie'.patterns[s]))
    PROVE  ReplyTyped'
<1>1. Cardinality(trie'.patterns[s]) \in Nat
  BY FS_CardinalityType DEF Good, Sessions
<1> QED
  BY <1>1 DEF Counts, ReplyTyped, Sessions

\* The state of the dispatcher keeps its type; what it replies is one of the replies.
THEOREM DispatcherTypeCorrect == DSpec => []DispatcherTypeOK
<1>1. DInit => ReplyTyped
  BY DEF DInit, ReplyTyped
<1>2. IInv /\ IInv' /\ ReplyTyped /\ [DNext]_dvars => ReplyTyped'
  <2> SUFFICES ASSUME Good(trie'), ReplyTyped, [DNext]_dvars PROVE ReplyTyped'
    BY DEF IInv
  <2>1. ASSUME NEW s \in Sessions, Connect(s) \/ OnSessionClosed(s) PROVE ReplyTyped'
    BY <2>1 DEF Connect, OnSessionClosed, ReplyTyped
  <2>2. ASSUME NEW s \in Sessions, NotReady(s) \/ Hello(s) \/ OtherCommand(s) \/ SubEvent(s)
                                   \/ UnsubEvent(s)
        PROVE  ReplyTyped'
    BY <2>2, SaysTyped DEF NotReady, Hello, OtherCommand, SubEvent, UnsubEvent, Errors
  <2>3. ASSUME NEW s \in Sessions, NEW args \in Arguments, Watch(s, args) \/ Subscribe(s, args)
        PROVE  ReplyTyped'
    BY <2>3, SaysTyped, CountsTyped DEF Watch, Subscribe, Accept, Refuse, Errors
  <2>4. ASSUME NEW s \in Sessions, NEW args \in Arguments, Unsubscribe(s, args)
        PROVE  ReplyTyped'
    BY <2>4, CountsTyped DEF Unsubscribe
  <2>5. CASE UNCHANGED dvars
    BY <2>5 DEF dvars, ReplyTyped
  <2> QED
    BY <2>1, <2>2, <2>3, <2>4, <2>5 DEF DNext, Command
<1>3. IInv /\ ReplyTyped => DispatcherTypeOK
  BY GoodTyped DEF IInv, TypeInv, ReplyTyped, DispatcherTypeOK
<1> QED
  BY <1>1, <1>2, <1>3, InitHolds, Inductive, PTL DEF DSpec

\* The reverse index covers the trie, whatever is subscribed and unsubscribed, by any
\* patterns: unsubscribeAll(), on the end of a connection, leaves nothing.
THEOREM IndexAlwaysCovers == DSpec => []IndexCovers
<1>1. IInv => IndexCovers
  BY DEF IInv, Good, IndexCovers
<1> QED
  BY InitHolds, Inductive, <1>1, PTL DEF DSpec

\* The same for the trie alone, under any client.
THEOREM TrieAlwaysCovers == TrieSpec => []IndexCovers
<1>1. TrieInit => Good(trie)
  BY EmptyGood DEF TrieInit
<1>2. Good(trie) /\ [TrieNext]_trie => Good(trie)'
  BY SubscribedGood, UnsubscribedGood, UnsubscribedAllGood DEF TrieNext
<1>3. Good(trie) => IndexCovers
  BY DEF Good, IndexCovers
<1> QED
  BY <1>1, <1>2, <1>3, PTL DEF TrieSpec

\* Tags and events are routed only to sessions that said HELLO and are still there.
THEOREM RoutedAreReady == DSpec => []OnlyReadyAreRouted
<1>1. IInv => OnlyReadyAreRouted
  <2> SUFFICES ASSUME IInv PROVE OnlyReadyAreRouted
    OBVIOUS
  <2>1. ASSUME NEW t, NEW s \in Match(t) PROVE session[s] = "ready"
    BY <2>1, MatchFindsAtNodes DEF IInv, RoutesReady
  <2>2. ASSUME NEW v, NEW c, NEW s \in EventSubscribers(v, c) PROVE session[s] = "ready"
    BY <2>2 DEF IInv, RoutesReady, EventSubscribers
  <2> QED
    BY <2>1, <2>2 DEF OnlyReadyAreRouted
<1> QED
  BY InitHolds, Inductive, <1>1, PTL DEF DSpec

\* A client that is told it has no subscription left is sent nothing any more.
THEOREM ZeroIsSilence == DSpec => []ZeroMeansSilence
<1>1. IInv => ZeroMeansSilence
  BY MatchFindsAtNodes DEF IInv, ZeroIsTrue, ZeroMeansSilence
<1> QED
  BY InitHolds, Inductive, <1>1, PTL DEF DSpec

\* The walk through the trie, the pairwise matcher and the meaning of the wildcards agree.
THEOREM MatchIsAlwaysExact == DSpec => []MatchIsExact
<1>1. IInv => MatchIsExact
  BY MatchExact DEF IInv
<1> QED
  BY InitHolds, Inductive, <1>1, PTL DEF DSpec

\* Whose routes and filter a step may change.
RoutesChangeFor(s) ==
    \/ eventSubs'[s] # eventSubs[s]
    \/ \E t \in Topics : (s \in Match(t)) # (s \in Match(t)')

\* A step that leaves the trie alone changes no route.
LEMMA SameRoutes ==
    ASSUME trie' = trie, NEW s, RoutesChangeFor(s)
    PROVE  eventSubs'[s] # eventSubs[s]
<1>1. \A t \in Topics : Match(t)' = Match(t)
  BY DEF Match
<1> QED
  BY <1>1 DEF RoutesChangeFor

\* A step that changes only what s subscribes to changes the routes of s only.
LEMMA OnlyOwnRoutes ==
    ASSUME Good(trie), Good(trie)', NEW s, OthersKeep(trie, trie', s),
           NEW i, RoutesChangeFor(i), eventSubs'[i] = eventSubs[i]
    PROVE  i = s
<1> SUFFICES ASSUME i # s PROVE FALSE
  OBVIOUS
<1>1. PICK t \in Topics : (i \in Match(t)) # (i \in Match(t)')
  BY DEF RoutesChangeFor
<1> QED
  BY <1>1, OthersMatch

LEMMA OnlyAskedStep ==
    ASSUME IInv, IInv', [DNext]_dvars, NEW i \in Sessions, RoutesChangeFor(i)
    PROVE  \/ i = reply'.to /\ reply'.what \notin Errors
           \/ session'[i] # session[i]
<1> USE DEF IInv
<1>1. CASE UNCHANGED dvars
  BY <1>1, SameRoutes DEF dvars
<1>2. ASSUME NEW s \in Sessions, Connect(s) PROVE FALSE
  BY <1>2, SameRoutes DEF Connect
<1>3. ASSUME NEW s \in Sessions, OnSessionClosed(s) PROVE session'[i] # session[i]
  <2>1. OthersKeep(trie, trie', s)
    BY <1>3, UnsubscribedAllGood DEF OnSessionClosed, Sessions
  <2>2. i = s
    <3>1. CASE eventSubs'[i] = eventSubs[i]
      BY <2>1, <3>1, OnlyOwnRoutes
    <3>2. CASE eventSubs'[i] # eventSubs[i]
      BY <1>3, <3>2 DEF OnSessionClosed, TypeInv
    <3> QED
      BY <3>1, <3>2
  <2> QED
    BY <1>3, <2>2 DEF OnSessionClosed, TypeInv
<1>4. ASSUME NEW s \in Sessions,
             NotReady(s) \/ Hello(s) \/ OtherCommand(s) \/ SubEvent(s) \/ UnsubEvent(s)
      PROVE  i = reply'.to /\ reply'.what \notin Errors
  <2>1. eventSubs'[i] # eventSubs[i]
    BY <1>4, SameRoutes DEF NotReady, Hello, OtherCommand, SubEvent, UnsubEvent
  <2>2. SubEvent(s) \/ UnsubEvent(s)
    BY <1>4, <2>1 DEF NotReady, Hello, OtherCommand
  <2>3. i = s
    BY <2>1, <2>2 DEF SubEvent, UnsubEvent, TypeInv
  <2>4. Says(s, "value")
    BY <2>1, <2>2 DEF SubEvent, UnsubEvent
  <2> QED
    BY <2>3, <2>4 DEF Says, Errors
<1>5. ASSUME NEW s \in Sessions, NEW args \in Arguments,
             Watch(s, args) \/ Subscribe(s, args) \/ Unsubscribe(s, args)
      PROVE  i = reply'.to /\ reply'.what \notin Errors
  <2>1. eventSubs'[i] = eventSubs[i]
    BY <1>5 DEF Watch, Subscribe, Unsubscribe
  <2>2. ~Refuse(s, args)
    BY <2>1, SameRoutes DEF Refuse
  <2>3. OthersKeep(trie, trie', s) /\ \E n : Counts(s, n)
    <3>1. args \in Seq(Patterns) /\ s \in Subscribers
      BY DispatcherAssumption DEF Sessions
    <3>2. CASE Accept(s, args)
      BY <3>1, <3>2, SubscribedEachGood DEF Accept
    <3>3. CASE Unsubscribe(s, args)
      <4>1. CASE args = <<>>
        BY <3>1, <3>3, <4>1, UnsubscribedAllGood DEF Unsubscribe
      <4>2. CASE args # <<>>
        BY <3>1, <3>3, <4>2, UnsubscribedEachGood DEF Unsubscribe
      <4> QED
        BY <4>1, <4>2
    <3> QED
      BY <1>5, <2>2, <3>2, <3>3 DEF Watch, Subscribe
  <2>4. i = s
    BY <2>1, <2>3, OnlyOwnRoutes
  <2> QED
    BY <2>3, <2>4 DEF Counts, Errors
<1> QED
  BY <1>1, <1>2, <1>3, <1>4, <1>5 DEF DNext, Command

\* Routes change only for the session that asked and was not refused, or that is closed:
\* the others share the trie's nodes and keep what they have.
THEOREM OnlyAskedAlwaysChange == DSpec => OnlyAskedRoutesChange
<1>1. IInv /\ IInv' /\ [DNext]_dvars =>
        [LET changed == {s \in Sessions :
                           \/ eventSubs'[s] # eventSubs[s]
                           \/ \E t \in Topics : (s \in Match(t)) # (s \in Match(t)')}
         IN  \A s \in changed :
               \/ s = reply'.to /\ reply'.what \notin Errors
               \/ session'[s] # session[s]]_dvars
  BY OnlyAskedStep DEF RoutesChangeFor
<1> QED
  BY InitHolds, Inductive, <1>1, PTL DEF DSpec, OnlyAskedRoutesChange
=============================================================================
