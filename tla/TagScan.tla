------------------------------- MODULE TagScan -------------------------------
(***************************************************************************)
(* SCAN: a client walks the names of all tags page by page, while other    *)
(* threads write new tags and remove old ones.  Nothing is kept between    *)
(* two requests but the cursor the client sends back.                      *)
(*   irsp/server/core_tag_source.cpp   scan()                              *)
(*   core/tag_engine/tag_engine.cpp    snapshot(), one shard after another *)
(*                                                                         *)
(* A name is its place in the order of names, from 1; 0 stands for the     *)
(* empty string.  Zero is the place of the name "0", which as a cursor     *)
(* means the beginning in a request and the end in a reply.  A pattern is  *)
(* the set of names it matches.                                            *)
(***************************************************************************)
EXTENDS Naturals, FiniteSets

CONSTANTS Names,      \* names tags may have
          Zero,       \* the name "0", which may also be a tag's
          Shards,     \* number of shards
          ShardOf,    \* of every name, its hash
          Patterns,   \* patterns in use
          Counts      \* values of COUNT; 0: none was given

ASSUME ScanAssumption ==
    /\ Names \subseteq Nat \ {0} /\ IsFiniteSet(Names)
    /\ Zero \in Nat \ {0}
    /\ Shards \in Nat \ {0} /\ ShardOf \in [Names -> 1 .. Shards]
    /\ Patterns \subseteq SUBSET Names
    /\ Counts \subseteq Nat

VARIABLES present,    \* keys of shards_
          phase,      \* of the scan: "idle", "copying", "between", "done"
          pattern, cursor,   \* of the present request
          shard,      \* the shard snapshot() copies next
          copied,     \* names it has copied
          page,       \* names in the last reply
          \* ghost:
          earlier,    \* names in the replies before
          always,     \* tags that have been there since the scan began
          ever        \* tags that were there at some time since then

requestVars == <<phase, pattern, cursor, shard, copied>>
vars == <<present, requestVars, page, earlier, always, ever>>

Init ==
    /\ present = {}
    /\ phase = "idle" /\ pattern = {} /\ cursor = Zero
    /\ shard = 1 /\ copied = {}
    /\ page = {} /\ earlier = {} /\ always = {} /\ ever = {}

-----------------------------------------------------------------------------
(* The store.                                                              *)

Write(n) ==
    /\ n \notin present
    /\ present' = present \cup {n}
    /\ ever' = ever \cup {n}
    /\ UNCHANGED <<requestVars, page, earlier, always>>

Remove(n) ==
    /\ n \in present
    /\ present' = present \ {n}
    /\ always' = always \ {n}
    /\ UNCHANGED <<requestVars, page, earlier, ever>>

-----------------------------------------------------------------------------
(* The scan.                                                               *)

ScanBegins(p) ==
    /\ phase \in {"idle", "done"}
    /\ phase' = "copying" /\ pattern' = p /\ cursor' = Zero
    /\ shard' = 1 /\ copied' = {}
    /\ page' = {} /\ earlier' = {}
    /\ always' = present /\ ever' = present
    /\ UNCHANGED present

\* The client asks for the next page, with the cursor of the last reply.
ScanContinues ==
    /\ phase = "between"
    /\ phase' = "copying" /\ shard' = 1 /\ copied' = {}
    /\ UNCHANGED <<present, pattern, cursor, page, earlier, always, ever>>

\* snapshot() holds the lock of one shard at a time.
CopyShard ==
    /\ phase = "copying" /\ shard <= Shards
    /\ copied' = copied \cup {n \in present : ShardOf[n] = shard}
    /\ shard' = shard + 1
    /\ UNCHANGED <<present, phase, pattern, cursor, page, earlier, always, ever>>

Start == IF cursor = Zero THEN 0 ELSE cursor
Limit(count) == IF count = 0 THEN 1000 ELSE count

\* Forgets that the cursor itself was on the page before.
Found_FromCursor == {n \in copied \cap pattern : n >= Start}

Found == {n \in copied \cap pattern : n > Start}

\* The names were sorted the other way round.
Lowest_Descending(S, k) == {x \in S : Cardinality({y \in S : y > x}) < k}

\* The k lowest members of S.
Lowest(S, k) == {x \in S : Cardinality({y \in S : y < x}) < k}

\* The reply: everything and "0", or a first part and its last name.
LastPage(count) ==
    /\ Cardinality(Found) <= Limit(count)
    /\ page' = Found
    /\ cursor' = Zero

FullPage(count) ==
    /\ Cardinality(Found) > Limit(count)
    /\ page' = Lowest(Found, Limit(count))
    /\ \E m \in page' : (\A n \in page' : n <= m) /\ cursor' = m

Reply(count) ==
    /\ phase = "copying" /\ shard > Shards
    /\ LastPage(count) \/ FullPage(count)
    /\ earlier' = earlier \cup page
    /\ phase' = IF cursor' = Zero THEN "done" ELSE "between"
    /\ UNCHANGED <<present, pattern, shard, copied, always, ever>>

-----------------------------------------------------------------------------

Next ==
    \/ \E n \in Names : Write(n) \/ Remove(n)
    \/ \E p \in Patterns : ScanBegins(p)
    \/ ScanContinues \/ CopyShard
    \/ \E count \in Counts : Reply(count)

Spec == Init /\ [][Next]_vars

-----------------------------------------------------------------------------
(* Properties.                                                             *)

\* Types of store and scan.
TypeOK ==
    /\ present \subseteq Names
    /\ phase \in {"idle", "copying", "between", "done"}
    /\ pattern \subseteq Names /\ cursor \in Names \cup {Zero}
    /\ shard \in 1 .. Shards + 1 /\ copied \subseteq Names
    /\ page \subseteq Names /\ earlier \subseteq Names
    /\ always \subseteq present /\ present \subseteq ever /\ ever \subseteq Names

\* No name is listed twice, pages come in order, and only names are listed that match
\* and that a tag had while the scan went on: whatever was written, removed and
\* written again between two pages or between two shards of one snapshot.
ListedOnce ==
    /\ \A x \in earlier, y \in page : x < y
    /\ page \cup earlier \subseteq ever \cap pattern

\* The scan was told "0" as the end of the walk and it was not the name of a tag.
EndIsTheEnd == phase = "done" /\ (Zero \in page => \E y \in page : Zero < y)

\* A scan that has ended has listed every matching tag that was there all the time,
\* although no page saw the store at one moment.
ScanComplete == EndIsTheEnd => always \cap pattern \subseteq earlier \cup page
=============================================================================
