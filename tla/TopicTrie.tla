------------------------------ MODULE TopicTrie ------------------------------
(***************************************************************************)
(* irsp/semantic/topic_trie.cpp: which subscriber wants which topics.      *)
(*                                                                         *)
(* A node is named by its path, '#' being the child that hashChild points  *)
(* to; the nodes that exist are the domain of `at'.  Nodes are created by  *)
(* subscribe and never deleted.  The reverse index idPatterns_ has an      *)
(* empty set for a subscriber it does not know.  The trie has no lock: its *)
(* owner calls it under one, so every call is one step.                    *)
(***************************************************************************)
EXTENDS Topics, SequencesExt

CONSTANTS Subscribers, Patterns,
          Topics   \* topics that are looked up

ASSUME TrieAssumption ==
    Patterns \subseteq Seq(Segments) /\ Topics \subseteq Seq(Segments)

VARIABLE trie   \* at: Node::subscribers by path; patterns: idPatterns_

Root == <<>>

EmptyTrie == [at |-> [n \in {Root} |-> {}],
              patterns |-> [id \in Subscribers |-> {}]]

At(T, n) == IF n \in DOMAIN T.at THEN T.at[n] ELSE {}

\* Adds to the index only if the pattern's node is new.
Subscribed_NewNodesOnly(T, p, id) ==
    IF ~IsValidPattern(p) THEN T
    ELSE [at |-> [n \in DOMAIN T.at \cup Prefixes(p) |->
                    IF n = p THEN At(T, n) \cup {id} ELSE At(T, n)],
          patterns |-> IF p \in DOMAIN T.at THEN T.patterns
                       ELSE [T.patterns EXCEPT ![id] = @ \cup {p}]]

\* subscribe(): a pattern that is not valid changes nothing.
Subscribed(T, p, id) ==
    IF ~IsValidPattern(p) THEN T
    ELSE [at |-> [n \in DOMAIN T.at \cup Prefixes(p) |->
                    IF n = p THEN At(T, n) \cup {id} ELSE At(T, n)],
          patterns |-> [T.patterns EXCEPT ![id] = @ \cup {p}]]

\* The walks of subscribe and unsubscribe stop at the first '#'.
NodeOf(p) ==
    IF \E i \in DOMAIN p : p[i] = Hash
    THEN SubSeq(p, 1, CHOOSE i \in DOMAIN p :
                        p[i] = Hash /\ \A j \in 1 .. i - 1 : p[j] # Hash)
    ELSE p

\* Empties the node: the pattern's other subscribers go too.
Unsubscribed_EmptiesNode(T, p, id) ==
    IF id \notin At(T, NodeOf(p)) THEN T
    ELSE [T EXCEPT !.at[NodeOf(p)] = {}, !.patterns[id] = @ \ {p}]

\* unsubscribe(): the pattern is not checked, and the reverse index is changed
\* only if a subscription was found.
Unsubscribed(T, p, id) ==
    IF id \notin At(T, NodeOf(p)) THEN T
    ELSE [at |-> [T.at EXCEPT ![NodeOf(p)] = @ \ {id}],
          patterns |-> [T.patterns EXCEPT ![id] = @ \ {p}]]

\* unsubscribeAll(): unsubscribe() for every pattern in the reverse index.
UnsubscribedAll(T, id) ==
    LET found == {p \in T.patterns[id] : id \in At(T, NodeOf(p))}
    IN  [at |-> [n \in DOMAIN T.at |->
                   IF \E p \in found : n = NodeOf(p) THEN T.at[n] \ {id} ELSE T.at[n]],
         patterns |-> [T.patterns EXCEPT ![id] = @ \ found]]

CountFor(id) == Cardinality(trie.patterns[id])

\* collect(): the '+' child is taken only when there is no literal child.
Match_PlusAsFallback(t) ==
    LET Reach[k \in 0 .. Len(t)] ==
          IF k = 0 THEN {Root}
          ELSE DOMAIN trie.at
               \cap {IF Append(n, t[k]) \in DOMAIN trie.at THEN Append(n, t[k])
                     ELSE Append(n, Plus) : n \in Reach[k - 1]}
    IN  IF IsConcrete(t)
        THEN UNION ({At(trie, Append(n, Hash)) : n \in UNION {Reach[k] : k \in 0 .. Len(t)}}
                    \cup {At(trie, n) : n \in Reach[Len(t)]})
        ELSE {}

\* match() and collect(): a topic that is not concrete finds nobody.  Otherwise: the nodes
\* reached after k levels, by the literal and by '+'; each of them gives its '#' child, the
\* last ones themselves too.
Match(t) ==
    LET Reach[k \in 0 .. Len(t)] ==
          IF k = 0 THEN {Root}
          ELSE DOMAIN trie.at
               \cap UNION {{Append(n, t[k]), Append(n, Plus)} : n \in Reach[k - 1]}
    IN  IF IsConcrete(t)
        THEN UNION ({At(trie, Append(n, Hash)) : n \in UNION {Reach[k] : k \in 0 .. Len(t)}}
                    \cup {At(trie, n) : n \in Reach[Len(t)]})
        ELSE {}

-----------------------------------------------------------------------------
(* The trie under any client.                                              *)

TrieInit == trie = EmptyTrie

TrieNext ==
    \E id \in Subscribers :
        \/ \E p \in Patterns : trie' \in {Subscribed(trie, p, id), Unsubscribed(trie, p, id)}
        \/ trie' = UnsubscribedAll(trie, id)

TrieSpec == TrieInit /\ [][TrieNext]_trie

-----------------------------------------------------------------------------
(* Properties.                                                             *)

\* The trie is well formed: every node has its parent, and both indices hold
\* subscribers and patterns only.
TrieTypeOK ==
    /\ DOMAIN trie = {"at", "patterns"}
    /\ Root \in DOMAIN trie.at
    /\ \A n \in DOMAIN trie.at :
         /\ trie.at[n] \subseteq Subscribers
         /\ Prefixes(n) \subseteq DOMAIN trie.at
    /\ trie.patterns \in [Subscribers -> SUBSET Patterns]

\* The reverse index misses nothing: whoever is at a node has that pattern in the
\* index, so unsubscribeAll() leaves no subscription behind and a count of zero
\* means silence.
IndexCovers ==
    \A id \in Subscribers :
        \A n \in DOMAIN trie.at : id \in trie.at[n] => n \in trie.patterns[id]

\* What the definition of the two wildcards says of a pattern and a topic: '+'
\* stands for one level, a '#' at the end for any number of levels.
Stands(p, t) ==
    LET fixed == IF p[Len(p)] = Hash THEN Len(p) - 1 ELSE Len(p)
    IN  /\ IF p[Len(p)] = Hash THEN Len(t) >= fixed ELSE Len(t) = fixed
        /\ \A i \in 1 .. fixed : p[i] \in {Plus, t[i]}

\* The walk through the trie, the pairwise matcher and the meaning of the
\* wildcards agree: a topic finds the subscribers at the nodes of the matching
\* patterns, whatever was subscribed and unsubscribed before.
MatchIsExact ==
    \A t \in Topics :
        /\ Match(t) = UNION {trie.at[p] : p \in {q \in DOMAIN trie.at : Matches(q, t)}}
        /\ \A p \in Patterns :
              Matches(p, t) <=> IsValidPattern(p) /\ IsConcrete(t) /\ Stands(p, t)
=============================================================================
