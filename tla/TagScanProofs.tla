---------------------------- MODULE TagScanProofs ----------------------------
(***************************************************************************)
(* Theorems about TagScan, for any names, shards, patterns and page sizes. *)
(* The cursor is all that links two pages; the invariant says what it      *)
(* stands for: of the names up to it, those that stayed have been listed,  *)
(* and nothing beyond it has.                                              *)
(***************************************************************************)
EXTENDS TagScan, FiniteSetTheorems, TLAPS

Listed == earlier \cup page
Walking == phase \in {"copying", "between"}

\* Snapshots and replies contain tags that exist or have existed.
ListedExisted ==
    /\ copied \subseteq ever
    /\ Listed \subseteq ever \cap pattern

\* The snapshot has every tag of the shards it has passed, if the tag stayed.
SnapshotCovers ==
    phase = "copying" => \A n \in always : ShardOf[n] < shard => n \in copied

\* The cursor divides the names.
CursorDivides ==
    Walking =>
        /\ \A x \in Listed : x <= Start
        /\ \A n \in always \cap pattern : n <= Start => n \in Listed

IInv ==
    /\ TypeOK
    /\ ListedExisted
    /\ SnapshotCovers
    /\ CursorDivides
    /\ ListedOnce
    /\ ScanComplete

-----------------------------------------------------------------------------

\* What is not above a member of the k lowest is one of them.
LEMMA LowestIsClosed ==
  ASSUME NEW S, S \subseteq Names, NEW k \in Nat,
         NEW m \in Lowest(S, k), NEW n \in S, n <= m
  PROVE  n \in Lowest(S, k)
  <1> DEFINE below(x) == {y \in S : y < x}
  <1>1. Names \subseteq Nat /\ IsFiniteSet(Names)
    BY ScanAssumption
  <1>2. below(n) \subseteq below(m) /\ below(m) \subseteq Names
    <2>1. m \in Nat /\ n \in Nat /\ S \subseteq Nat
      BY <1>1 DEF Lowest
    <2>2. \A y \in S : y < n => y < m
      BY <2>1
    <2> QED
      BY <2>2
  <1>3. IsFiniteSet(below(m))
    BY <1>1, <1>2, FS_Subset
  <1>4. /\ Cardinality(below(n)) <= Cardinality(below(m))
        /\ IsFiniteSet(below(n))
    BY <1>2, <1>3, FS_Subset
  <1>5. Cardinality(below(m)) \in Nat /\ Cardinality(below(n)) \in Nat
    BY <1>3, <1>4, FS_CardinalityType
  <1>6. Cardinality(below(m)) < k
    BY DEF Lowest
  <1>7. Cardinality(below(n)) < k
    BY <1>4, <1>5, <1>6
  <1> QED
    BY <1>7 DEF Lowest

LEMMA InitHolds == Init => IInv
  BY ScanAssumption
  DEF Init, IInv, TypeOK, ListedExisted, Listed, SnapshotCovers, CursorDivides, Walking,
      ListedOnce, ScanComplete, EndIsTheEnd

LEMMA WriteKeeps ==
  ASSUME IInv, NEW n \in Names, Write(n) \/ Remove(n)
  PROVE  IInv'
  <1>1. /\ UNCHANGED <<phase, pattern, cursor, shard, copied, page, earlier>>
        /\ always' \subseteq always /\ ever \subseteq ever' /\ ever' \subseteq Names
        /\ always' \subseteq present' /\ present' \subseteq ever' /\ present' \subseteq Names
    BY DEF IInv, TypeOK, Write, Remove, requestVars
  <1>2. TypeOK' /\ ListedExisted'
    BY <1>1 DEF IInv, TypeOK, ListedExisted, Listed
  <1>3. SnapshotCovers' /\ CursorDivides'
    BY <1>1 DEF IInv, SnapshotCovers, CursorDivides, Walking, Start, Listed
  <1>4. ListedOnce' /\ ScanComplete'
    BY <1>1 DEF IInv, ListedOnce, ScanComplete, EndIsTheEnd
  <1> QED
    BY <1>2, <1>3, <1>4 DEF IInv

LEMMA BeginKeeps ==
  ASSUME IInv, NEW p \in Patterns, ScanBegins(p)
  PROVE  IInv'
  <1>1. TypeOK'
    BY ScanAssumption DEF IInv, TypeOK, ScanBegins
  <1>2. SnapshotCovers'
    <2>1. \A n \in present : ~(ShardOf[n] < 1)
      BY ScanAssumption DEF IInv, TypeOK
    <2> QED
      BY <2>1 DEF ScanBegins, SnapshotCovers
  <1>3. CursorDivides'
    <2>1. Listed' = {} /\ Start' = 0 /\ always' \subseteq Nat \ {0}
      BY ScanAssumption DEF ScanBegins, Listed, Start, IInv, TypeOK
    <2> QED
      BY <2>1 DEF CursorDivides
  <1>4. ListedExisted' /\ ListedOnce' /\ ScanComplete'
    BY DEF ScanBegins, ListedExisted, Listed, ListedOnce, ScanComplete, EndIsTheEnd
  <1> QED
    BY <1>1, <1>2, <1>3, <1>4 DEF IInv

LEMMA ContinueKeeps ==
  ASSUME IInv, ScanContinues
  PROVE  IInv'
  <1>1. TypeOK'
    BY ScanAssumption DEF IInv, TypeOK, ScanContinues
  <1>2. SnapshotCovers'
    <2>1. \A n \in always : ~(ShardOf[n] < 1)
      BY ScanAssumption DEF IInv, TypeOK
    <2> QED
      BY <2>1 DEF ScanContinues, SnapshotCovers
  <1>3. CursorDivides'
    BY DEF IInv, ScanContinues, CursorDivides, Walking, Start, Listed
  <1>4. ListedExisted' /\ ListedOnce' /\ ScanComplete'
    BY DEF IInv, ScanContinues, ListedExisted, Listed, ListedOnce, ScanComplete, EndIsTheEnd
  <1> QED
    BY <1>1, <1>2, <1>3, <1>4 DEF IInv

LEMMA CopyKeeps ==
  ASSUME IInv, CopyShard
  PROVE  IInv'
  <1>1. TypeOK'
    <2>1. shard' \in 1 .. Shards + 1
      BY ScanAssumption DEF IInv, TypeOK, CopyShard
    <2>2. copied' \subseteq Names
      BY DEF IInv, TypeOK, CopyShard
    <2> QED
      BY <2>1, <2>2 DEF IInv, TypeOK, CopyShard
  <1>2. SnapshotCovers'
    <2> SUFFICES ASSUME NEW n \in always, ShardOf[n] < shard + 1
                 PROVE  n \in copied \cup {x \in present : ShardOf[x] = shard}
      BY DEF CopyShard, SnapshotCovers
    <2>1. ShardOf[n] \in Nat /\ shard \in Nat /\ n \in present
      BY ScanAssumption DEF IInv, TypeOK
    <2>2. CASE ShardOf[n] < shard
      BY <2>2 DEF IInv, SnapshotCovers, CopyShard
    <2>3. CASE ShardOf[n] = shard
      BY <2>1, <2>3
    <2> QED
      BY <2>1, <2>2, <2>3
  <1>3. CursorDivides'
    BY DEF IInv, CopyShard, CursorDivides, Walking, Start, Listed
  <1>4. ListedExisted' /\ ListedOnce' /\ ScanComplete'
    BY DEF IInv, TypeOK, CopyShard, ListedExisted, Listed, ListedOnce, ScanComplete, EndIsTheEnd
  <1> QED
    BY <1>1, <1>2, <1>3, <1>4 DEF IInv

LEMMA ReplyKeeps ==
  ASSUME IInv, NEW count \in Counts, Reply(count)
  PROVE  IInv'
  <1>1. /\ phase = "copying" /\ UNCHANGED <<present, pattern, shard, copied, always, ever>>
        /\ earlier' = Listed
        /\ phase' = IF cursor' = Zero THEN "done" ELSE "between"
    BY DEF Reply, Listed
  <1>2. /\ page' \subseteq Found /\ Found \subseteq copied \cap pattern
        /\ cursor' \in Names \cup {Zero}
    <2>1. Found \subseteq copied \cap pattern
      BY DEF Found
    <2>2. CASE LastPage(count)
      BY <2>1, <2>2 DEF LastPage
    <2>3. CASE FullPage(count)
      BY <2>1, <2>3 DEF FullPage, Lowest, IInv, TypeOK
    <2> QED
      BY <2>1, <2>2, <2>3 DEF Reply
  <1>3. Names \subseteq Nat /\ Start \in Nat /\ Listed \subseteq Names /\ Found \subseteq Names
    BY ScanAssumption, <1>2 DEF Start, IInv, TypeOK, Listed
  <1>4. \A x \in Listed, y \in Found : x <= Start /\ Start < y /\ x < y
    <2>1. \A x \in Listed : x <= Start
      BY <1>1 DEF IInv, CursorDivides, Walking
    <2>2. \A y \in Found : Start < y
      BY <1>3 DEF Found
    <2> QED
      BY <1>3, <2>1, <2>2
  <1>5. \A n \in always \cap pattern : n \in Listed \/ n \in Found
    <2> SUFFICES ASSUME NEW n \in always \cap pattern, n \notin Listed PROVE n \in Found
      OBVIOUS
    <2>1. n \in copied
      <3>1. ShardOf[n] < shard
        BY ScanAssumption DEF Reply, IInv, TypeOK
      <3> QED
        BY <1>1, <3>1 DEF IInv, SnapshotCovers
    <2>2. ~(n <= Start)
      BY <1>1 DEF IInv, CursorDivides, Walking
    <2>3. n \in Nat
      BY <1>3 DEF IInv, TypeOK
    <2> QED
      BY <1>3, <2>1, <2>2, <2>3 DEF Found
  <1>6. TypeOK'
    BY <1>1, <1>2, <1>3 DEF IInv, TypeOK, Listed
  <1>7. ListedExisted' /\ ListedOnce'
    BY <1>1, <1>2, <1>4 DEF IInv, ListedExisted, Listed, ListedOnce
  <1>8. SnapshotCovers'
    BY <1>1 DEF SnapshotCovers
  <1>9. CASE LastPage(count)
    <2>1. page' = Found /\ phase' = "done"
      BY <1>1, <1>9 DEF LastPage
    <2>2. CursorDivides' /\ ScanComplete'
      BY <1>1, <1>5, <2>1 DEF CursorDivides, Walking, ScanComplete
    <2> QED
      BY <1>6, <1>7, <1>8, <2>2 DEF IInv
  <1>10. CASE FullPage(count)
    <2>1. Limit(count) \in Nat
      BY ScanAssumption DEF Limit
    <2>2. PICK m \in page' : (\A n \in page' : n <= m) /\ cursor' = m
      BY <1>10 DEF FullPage
    <2>3. page' = Lowest(Found, Limit(count)) /\ m \in Names
      BY <1>2, <1>3, <1>10, <2>2 DEF FullPage
    <2>4. ScanComplete'
      <3>1. ~EndIsTheEnd'
        <4> SUFFICES ASSUME phase' = "done" PROVE Zero \in page' /\ ~ \E y \in page' : Zero < y
          BY DEF EndIsTheEnd
        <4>1. m = Zero
          BY <1>1, <2>2
        <4> QED
          BY <1>2, <1>3, <2>2, <4>1
      <3> QED
        BY <3>1 DEF ScanComplete
    <2>5. CursorDivides'
      <3> SUFFICES ASSUME cursor' # Zero
                   PROVE  /\ \A x \in Listed \cup page' : x <= m
                          /\ \A n \in always \cap pattern : n <= m => n \in Listed \cup page'
        BY <1>1, <2>2 DEF CursorDivides, Walking, Start, Listed
      <3>1. \A x \in Listed : x <= m
        BY <1>2, <1>3, <1>4, <2>2, <2>3
      <3>2. ASSUME NEW n \in Found, n <= m PROVE n \in page'
        BY <1>3, <2>1, <2>2, <2>3, <3>2, LowestIsClosed
      <3> QED
        BY <1>5, <2>2, <3>1, <3>2
    <2> QED
      BY <1>6, <1>7, <1>8, <2>4, <2>5 DEF IInv
  <1> QED
    BY <1>9, <1>10 DEF Reply

LEMMA StutterKeeps == ASSUME IInv, UNCHANGED vars PROVE IInv'
  BY DEF IInv, vars, requestVars, TypeOK, ListedExisted, Listed, SnapshotCovers,
         CursorDivides, Walking, Start, ListedOnce, ScanComplete, EndIsTheEnd

LEMMA InvariantHolds == Spec => []IInv
  <1>1. IInv /\ [Next]_vars => IInv'
    BY WriteKeeps, BeginKeeps, ContinueKeeps, CopyKeeps, ReplyKeeps, StutterKeeps DEF Next
  <1> QED
    BY <1>1, InitHolds, PTL DEF Spec

\* For any names, shards and page sizes, and whatever is written and removed while the
\* scan goes on, no name is listed twice and pages are in order.
THEOREM NothingListedTwice == Spec => []ListedOnce
  <1>1. IInv => ListedOnce
    BY DEF IInv
  <1> QED
    BY <1>1, InvariantHolds, PTL

\* And a scan that ends, other than at a tag named "0", has listed every matching tag
\* that was there from its beginning.
THEOREM NothingMissed == Spec => []ScanComplete
  <1>1. IInv => ScanComplete
    BY DEF IInv
  <1> QED
    BY <1>1, InvariantHolds, PTL
=============================================================================
