----------------------------- MODULE Dispatcher -----------------------------
(***************************************************************************)
(* irsp/semantic/dispatcher.cpp: the sessions, their subscriptions and the *)
(* replies to their commands.                                              *)
(*                                                                         *)
(* The dispatcher has no lock: the server calls it under its own, so every *)
(* command is one step.  A subscriber of the trie is a session; its id is  *)
(* never used again.  Of a reply the model keeps the session it goes to    *)
(* and what it says: an error, the count of subscriptions, or a value.     *)
(***************************************************************************)
EXTENDS TopicTrie

CONSTANTS Arguments,    \* the argument lists of the subscription commands
          Severities,   \* the ranks of severityRank(), from 0
          Categories    \* categories of events

ASSUME DispatcherAssumption ==
    /\ Subscribers \subseteq Nat \ {0}
    /\ Arguments \subseteq Seq(Patterns) /\ <<>> \in Arguments
    /\ Severities \subseteq Nat /\ 0 \in Severities
    /\ "" \notin Categories

Sessions == Subscribers
Nobody == 0

Filters == [min : Severities, category : Categories \cup {""}]
NoFilter == [min |-> 0, category |-> "none"]   \* not in eventSubs_

Errors == {"NOT_READY", "WRONG_ARITY", "ERR", "UNSUPPORTED_VERSION"}

VARIABLES session,     \* Session: "new", "open" (no HELLO yet), "ready", "closed"
          eventSubs,   \* Dispatcher::eventSubs_
          reply        \* the last reply

dvars == <<trie, session, eventSubs, reply>>

Says(s, what) == reply' = [to |-> s, what |-> what, count |-> 0]
Counts(s, n) == reply' = [to |-> s, what |-> "count", count |-> n]

DInit ==
    /\ TrieInit
    /\ session = [s \in Sessions |-> "new"]
    /\ eventSubs = [s \in Sessions |-> NoFilter]
    /\ reply = [to |-> Nobody, what |-> "value", count |-> 0]

\* One pattern after the other.
SubscribedEach(T, args, s) ==
    LET After[k \in 0 .. Len(args)] ==
          IF k = 0 THEN T ELSE Subscribed(After[k - 1], args[k], s)
    IN  After[Len(args)]

UnsubscribedEach(T, args, s) ==
    LET After[k \in 0 .. Len(args)] ==
          IF k = 0 THEN T ELSE Unsubscribed(After[k - 1], args[k], s)
    IN  After[Len(args)]

-----------------------------------------------------------------------------
(* Connections.                                                            *)

Connect(s) ==
    /\ session[s] = "new"
    /\ session' = [session EXCEPT ![s] = "open"]
    /\ UNCHANGED <<trie, eventSubs, reply>>

\* Forgets the event subscription.
OnSessionClosed_KeepsEvents(s) ==
    /\ session[s] \in {"open", "ready"}
    /\ session' = [session EXCEPT ![s] = "closed"]
    /\ trie' = UnsubscribedAll(trie, s)
    /\ UNCHANGED <<eventSubs, reply>>

\* onSessionClosed(), and the connection is gone.
OnSessionClosed(s) ==
    /\ session[s] \in {"open", "ready"}
    /\ session' = [session EXCEPT ![s] = "closed"]
    /\ trie' = UnsubscribedAll(trie, s)
    /\ eventSubs' = [eventSubs EXCEPT ![s] = NoFilter]
    /\ UNCHANGED reply

-----------------------------------------------------------------------------
(* handle(): the commands.                                                 *)

\* Before HELLO every other command is refused.
NotReady(s) ==
    /\ session[s] = "open"
    /\ Says(s, "NOT_READY")
    /\ UNCHANGED <<trie, session, eventSubs>>

\* HELLO may be sent again; it never takes anything back.
Hello(s) ==
    /\ session[s] \in {"open", "ready"}
    /\ \/ /\ session' = [session EXCEPT ![s] = "ready"]
          /\ Says(s, "value")
       \/ /\ \E e \in {"WRONG_ARITY", "UNSUPPORTED_VERSION"} : Says(s, e)
          /\ UNCHANGED session
    /\ UNCHANGED <<trie, eventSubs>>

\* GET, MGET, EXISTS, SCAN, PING, BYE, SET, and the commands that are not
\* implemented or unknown: nothing of the dispatcher changes.
OtherCommand(s) ==
    /\ session[s] = "ready"
    /\ \/ Says(s, "value")
       \/ \E e \in {"WRONG_ARITY", "ERR"} : Says(s, e)
    /\ UNCHANGED <<trie, session, eventSubs>>

Refuse(s, args) ==
    /\ IF args = <<>> THEN Says(s, "WRONG_ARITY") ELSE Says(s, "ERR")
    /\ UNCHANGED trie

Accept(s, args) ==
    /\ trie' = SubscribedEach(trie, args, s)
    /\ Counts(s, Cardinality(trie'.patterns[s]))

\* Subscribes while it checks: what comes before the bad topic stays.
Watch_ChecksAsItGoes(s, args) ==
    /\ session[s] = "ready"
    /\ IF args # <<>> /\ \A i \in DOMAIN args : IsConcrete(args[i])
       THEN Accept(s, args)
       ELSE LET bad == CHOOSE i \in 1 .. Len(args) + 1 :
                         /\ i \in DOMAIN args => ~IsConcrete(args[i])
                         /\ \A j \in 1 .. i - 1 : IsConcrete(args[j])
            IN  /\ trie' = SubscribedEach(trie, SubSeq(args, 1, bad - 1), s)
                /\ Says(s, "ERR")
    /\ UNCHANGED <<session, eventSubs>>

\* All topics are checked before the first is subscribed.
Watch(s, args) ==
    /\ session[s] = "ready"
    /\ IF args # <<>> /\ \A i \in DOMAIN args : IsConcrete(args[i])
       THEN Accept(s, args)
       ELSE Refuse(s, args)
    /\ UNCHANGED <<session, eventSubs>>

\* Without the check for HELLO.
Subscribe_NoHello(s, args) ==
    /\ session[s] \in {"open", "ready"}
    /\ IF args # <<>> /\ \A i \in DOMAIN args : IsValidPattern(args[i])
       THEN Accept(s, args)
       ELSE Refuse(s, args)
    /\ UNCHANGED <<session, eventSubs>>

Subscribe(s, args) ==
    /\ session[s] = "ready"
    /\ IF args # <<>> /\ \A i \in DOMAIN args : IsValidPattern(args[i])
       THEN Accept(s, args)
       ELSE Refuse(s, args)
    /\ UNCHANGED <<session, eventSubs>>

\* Takes no arguments for nothing to do.
Unsubscribe_NoArgsNothing(s, args) ==
    /\ session[s] = "ready"
    /\ trie' = UnsubscribedEach(trie, args, s)
    /\ Counts(s, IF args = <<>> THEN 0 ELSE Cardinality(trie'.patterns[s]))
    /\ UNCHANGED <<session, eventSubs>>

\* UNWATCH and UNSUBSCRIBE are the same command: without arguments everything
\* goes; patterns are not checked, and never refused.
Unsubscribe(s, args) ==
    /\ session[s] = "ready"
    /\ trie' = IF args = <<>> THEN UnsubscribedAll(trie, s)
               ELSE UnsubscribedEach(trie, args, s)
    /\ Counts(s, Cardinality(trie'.patterns[s]))
    /\ UNCHANGED <<session, eventSubs>>

\* SUBEVENT replaces the filter; an unknown severity is refused.
SubEvent(s) ==
    /\ session[s] = "ready"
    /\ \/ /\ \E f \in Filters : eventSubs' = [eventSubs EXCEPT ![s] = f]
          /\ Says(s, "value")
       \/ /\ Says(s, "ERR")
          /\ UNCHANGED eventSubs
    /\ UNCHANGED <<trie, session>>

UnsubEvent(s) ==
    /\ session[s] = "ready"
    /\ eventSubs' = [eventSubs EXCEPT ![s] = NoFilter]
    /\ Says(s, "value")
    /\ UNCHANGED <<trie, session>>

Command(s) ==
    \/ NotReady(s) \/ Hello(s) \/ OtherCommand(s)
    \/ \E args \in Arguments : Watch(s, args)
    \/ \E args \in Arguments : Subscribe(s, args)
    \/ \E args \in Arguments : Unsubscribe(s, args)
    \/ SubEvent(s) \/ UnsubEvent(s)

DNext == \E s \in Sessions : Connect(s) \/ OnSessionClosed(s) \/ Command(s)

DSpec == DInit /\ [][DNext]_dvars

-----------------------------------------------------------------------------
(* Routing.                                                                *)

\* eventSubscribers(): the lowest severity and, unless empty, the category.
EventSubscribers(severity, category) ==
    {s \in Sessions : /\ eventSubs[s] # NoFilter
                      /\ eventSubs[s].min <= severity
                      /\ eventSubs[s].category \in {"", category}}

-----------------------------------------------------------------------------
(* Properties.                                                             *)

DispatcherTypeOK ==
    /\ TrieTypeOK
    /\ session \in [Sessions -> {"new", "open", "ready", "closed"}]
    /\ eventSubs \in [Sessions -> Filters \cup {NoFilter}]
    /\ reply \in [to : Sessions \cup {Nobody},
                  what : Errors \cup {"value", "count"},
                  count : Nat]

\* Pushes are for sessions that said HELLO and are still connected: a route never
\* yields a session from before its handshake or from after its end, however it
\* subscribed and unsubscribed, and by whatever patterns.
OnlyReadyAreRouted ==
    /\ \A t \in Topics : \A s \in Match(t) : session[s] = "ready"
    /\ \A v \in Severities, c \in Categories :
          \A s \in EventSubscribers(v, c) : session[s] = "ready"

\* A count of zero in the reply to UNWATCH or UNSUBSCRIBE is the truth: no topic
\* is routed to the session any more.
ZeroMeansSilence ==
    reply.what = "count" /\ reply.count = 0 => \A t \in Topics : reply.to \notin Match(t)

\* Routes change only for the session that asked, and only if it was not refused: of
\* several topics either all are subscribed or, if one is bad, none; and what the others
\* have stays, though they share the nodes of the trie.  A session that is closed may
\* lose its routes.
OnlyAskedRoutesChange ==
    [][LET changed == {s \in Sessions :
                         \/ eventSubs'[s] # eventSubs[s]
                         \/ \E t \in Topics : (s \in Match(t)) # (s \in Match(t)')}
       IN  \A s \in changed :
             \/ s = reply'.to /\ reply'.what \notin Errors
             \/ session'[s] # session[s]]_dvars
=============================================================================
