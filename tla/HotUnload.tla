------------------------------ MODULE HotUnload ------------------------------
(***************************************************************************)
(* What hot unload promises the writing threads, and nothing about how: a  *)
(* plugin incarnation is absent, coming, present and then gone for good; a *)
(* write enters only a plugin that is there, and a plugin that was present *)
(* goes only when no write is inside it (plugin_host.hpp, class comment).  *)
(* The coming of a plugin may fail.  It is then abandoned, and nothing is  *)
(* promised of what it had already registered.                             *)
(***************************************************************************)
CONSTANTS Callers, Incarnations, Nobody  \* Nobody is no incarnation

VARIABLES phase,    \* of every incarnation
          inside    \* the incarnation each caller is executing, or Nobody

abstractVars == <<phase, inside>>

Init ==
    /\ phase = [i \in Incarnations |-> "absent"]
    /\ inside = [c \in Callers |-> Nobody]

Turns(i, from, to) ==
    /\ phase[i] = from
    /\ phase' = [phase EXCEPT ![i] = to]
    /\ UNCHANGED inside

Appear(i) == Turns(i, "absent", "coming")

Arrive(i) == Turns(i, "coming", "present")

Abandon(i) == Turns(i, "coming", "abandoned")

Go(i) ==
    /\ \A c \in Callers : inside[c] # i
    /\ Turns(i, "present", "gone")

Enter(c, i) ==
    /\ inside[c] = Nobody
    /\ phase[i] \in {"coming", "present", "abandoned"}
    /\ inside' = [inside EXCEPT ![c] = i]
    /\ UNCHANGED phase

Leave(c) ==
    /\ inside[c] # Nobody
    /\ inside' = [inside EXCEPT ![c] = Nobody]
    /\ UNCHANGED phase

Next ==
    \/ \E i \in Incarnations : Appear(i) \/ Arrive(i) \/ Abandon(i) \/ Go(i)
    \/ \E c \in Callers : Leave(c) \/ \E i \in Incarnations : Enter(c, i)

SafetySpec == Init /\ [][Next]_abstractVars

\* A caller does not stay in a plugin for ever.
Spec == SafetySpec /\ \A c \in Callers : WF_abstractVars(Leave(c))
=============================================================================
