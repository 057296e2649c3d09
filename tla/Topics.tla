------------------------------- MODULE Topics -------------------------------
(***************************************************************************)
(* irsp/semantic/topic.cpp: topics and patterns.                           *)
(*                                                                         *)
(* A topic is the sequence of its segments, what splitTopic returns: the   *)
(* empty string gives none, any other string one more than it has slashes. *)
(* A segment is a plain name, one of the two wildcards, or something no    *)
(* pattern may contain: the empty segment, or a wildcard character that is *)
(* not alone.                                                              *)
(***************************************************************************)
EXTENDS Naturals, Sequences

CONSTANTS Literals   \* plain segments

Plus == "+"    \* one level
Hash == "#"    \* the rest, zero levels or more
Malformed == {"", "a+"}

Segments == Literals \cup {Plus, Hash} \cup Malformed

ASSUME TopicAssumption == Literals \cap ({Plus, Hash} \cup Malformed) = {}

\* Accepts '#' before the end.
IsValidPattern_HashAnywhere(p) ==
    /\ p # <<>>
    /\ \A i \in DOMAIN p : p[i] \notin Malformed

IsValidPattern(p) ==
    /\ p # <<>>
    /\ \A i \in DOMAIN p : /\ p[i] \notin Malformed
                           /\ p[i] = Hash => i = Len(p)

IsConcrete(t) ==
    /\ IsValidPattern(t)
    /\ \A i \in DOMAIN t : t[i] \notin {Plus, Hash}

\* A '#' that wants at least one level.
Matches_HashNeedsOne(p, t) ==
    LET Walk[i \in 1 .. Len(p) + 1] ==
          IF i > Len(p) THEN Len(t) = Len(p)
          ELSE IF i > Len(t) THEN FALSE
          ELSE p[i] = Hash \/ ((p[i] = Plus \/ p[i] = t[i]) /\ Walk[i + 1])
    IN  IsValidPattern(p) /\ IsConcrete(t) /\ Walk[1]

\* TopicMatcher::matches: both indices of the loop move together.
Matches(p, t) ==
    LET Walk[i \in 1 .. Len(p) + 1] ==
          IF i > Len(p) THEN Len(t) = Len(p)
          ELSE IF p[i] = Hash THEN TRUE
          ELSE IF i > Len(t) THEN FALSE
          ELSE (p[i] = Plus \/ p[i] = t[i]) /\ Walk[i + 1]
    IN  IsValidPattern(p) /\ IsConcrete(t) /\ Walk[1]
=============================================================================
