------------------------------ MODULE PluginHost ------------------------------
(***************************************************************************)
(* core/plugin_host/plugin_host.cpp: the registry of write-back handlers.  *)
(*                                                                         *)
(* A plugin registers a handler for a topic prefix; write() routes one     *)
(* write to the handler with the longest matching prefix.  Every           *)
(* registration belongs to an owner (one per plugin load) whose in-flight  *)
(* counter lets an unload wait for the calls that are already running.     *)
(*                                                                         *)
(* Everything done under writersMutex_ is one step: registering, retiring  *)
(* and owner bookkeeping hold it exclusively, the selection of write()     *)
(* holds it shared and changes nothing but an atomic counter.  The call of *)
(* the handler and the decrement of the counter happen with no lock.       *)
(*                                                                         *)
(* Data abstraction: a topic is a sequence of symbols; a handler and its   *)
(* pluginCtx are one value `ctx'; an OwnerState is named by the owner id   *)
(* it was created for (ids are never reused); writers_ is a set, because   *)
(* registration refuses a prefix that is already there, and so the order   *)
(* of the vector never decides a route.                                    *)
(***************************************************************************)
EXTENDS Naturals, Sequences, FiniteSets

CONSTANTS Threads,    \* threads that call PluginHost::write
          Ctxs,       \* handler + pluginCtx pairs plugins register
          Prefixes,   \* prefixes plugins register
          Names,      \* tag names that are written
          MaxOwner    \* bound: owners created, nextOwner_ is 64 bits wide

ASSUME HostAssumption ==
    /\ IsFiniteSet(Threads)
    /\ MaxOwner \in Nat
    /\ Prefixes \subseteq Seq(Nat)
    /\ Names \subseteq Seq(Nat)

VARIABLES writers,      \* writers_
          owners,       \* the keys of owners_
          activeOwner,  \* activeOwner_
          nextOwner,    \* nextOwner_
          inflight,     \* OwnerState::inflight, by owner id
          wpc,          \* where each thread is in write()
          wreg          \* the registration write() copied out of the lock

hostVars == <<writers, owners, activeOwner, nextOwner, inflight, wpc, wreg>>

OwnerId == 0 .. MaxOwner

WriteReg == [prefix : Prefixes, ctx : Ctxs, owner : OwnerId]

\* wreg of a thread that is in no call.
NoReg == [none |-> TRUE]

\* Owner 0, "no owner", exists from the start and is never removed.
HostInit ==
    /\ writers = {}
    /\ owners = {0}
    /\ activeOwner = 0
    /\ nextOwner = 1
    /\ inflight = [o \in OwnerId |-> 0]
    /\ wpc = [t \in Threads |-> "idle"]
    /\ wreg = [t \in Threads |-> NoReg]

-----------------------------------------------------------------------------
(* Owner bookkeeping, called by PluginManager.                             *)

writeVars == <<inflight, wpc, wreg>>

CreateOwner ==
    /\ nextOwner <= MaxOwner
    /\ owners' = owners \cup {nextOwner}
    /\ nextOwner' = nextOwner + 1

SetActiveOwner(o) == activeOwner' = o

RetireOwner_ForgetsToErase(o) == writers' = writers

\* Unknown owners are ignored: their registrations stay.
RetireOwner(o) ==
    writers' = IF o # 0 /\ o \in owners
               THEN {r \in writers : r.owner # o}
               ELSE writers

\* waitQuiescent spins until this holds.
Quiescent(o) == o \in owners => inflight[o] = 0

RemoveOwner_RemovesZero(o) == owners' = owners \ {o}

RemoveOwner(o) == owners' = IF o = 0 THEN owners ELSE owners \ {o}

-----------------------------------------------------------------------------
(* register_writer, called by plugin code.                                 *)

RegisterOwner == IF activeOwner \in owners THEN activeOwner ELSE 0

RegisterWriter_NoConflictCheck(p, c) ==
    writers' = writers \cup {[prefix |-> p, ctx |-> c, owner |-> RegisterOwner]}

\* A prefix that is taken is refused with a warning: first come, first served.
RegisterWriter(p, c) ==
    /\ \A r \in writers : r.prefix # p
    /\ writers' = writers \cup {[prefix |-> p, ctx |-> c, owner |-> RegisterOwner]}

-----------------------------------------------------------------------------
(* write(), called by the IRSP service thread through RuntimeEngine.       *)

HasPrefix(n, p) == Len(p) <= Len(n) /\ SubSeq(n, 1, Len(p)) = p

Matching(n) == {r \in writers : HasPrefix(n, r.prefix)}

\* The registrations the selection loop may end with.
Longest(n) ==
    {r \in Matching(n) : \A q \in Matching(n) : Len(q.prefix) <= Len(r.prefix)}

\* Counts the call for the owner that registers now, not for the selected one.
WriteSelect_CountsActive(t, n) ==
    /\ wpc[t] = "idle"
    /\ \E r \in Longest(n) : wreg' = [wreg EXCEPT ![t] = r]
    /\ inflight' = [inflight EXCEPT ![activeOwner] = @ + 1]
    /\ wpc' = [wpc EXCEPT ![t] = "handler"]

\* Under the shared lock: choose, copy out, count.  With no match write()
\* returns false and has changed nothing.
WriteSelect(t, n) ==
    /\ wpc[t] = "idle"
    /\ \E r \in Longest(n) :
         /\ wreg' = [wreg EXCEPT ![t] = r]
         /\ inflight' = [inflight EXCEPT ![r.owner] = @ + 1]
    /\ wpc' = [wpc EXCEPT ![t] = "handler"]

\* The plugin's handler returns or throws; both leave by the same path.
HandlerReturn(t) ==
    /\ wpc[t] = "handler"
    /\ wpc' = [wpc EXCEPT ![t] = "returned"]
    /\ UNCHANGED <<inflight, wreg>>

\* An early return (say, on an exception) that skips the decrement.
WriteDone_Leaks(t) ==
    /\ wpc[t] = "returned"
    /\ inflight' = inflight
    /\ wpc' = [wpc EXCEPT ![t] = "idle"]
    /\ wreg' = [wreg EXCEPT ![t] = NoReg]

WriteDone(t) ==
    /\ wpc[t] = "returned"
    /\ inflight' = [inflight EXCEPT ![wreg[t].owner] = @ - 1]
    /\ wpc' = [wpc EXCEPT ![t] = "idle"]
    /\ wreg' = [wreg EXCEPT ![t] = NoReg]

-----------------------------------------------------------------------------
(* The host under any client: management calls come one at a time (they    *)
(* are serialised by PluginManager) but in any order, registrations and    *)
(* writes at any moment.                                                   *)

registryUnchanged == UNCHANGED <<writers, owners, activeOwner, nextOwner>>

HostManage ==
    /\ \/ CreateOwner /\ UNCHANGED <<writers, activeOwner>>
       \/ \E o \in OwnerId :
            \/ /\ o < nextOwner
               /\ SetActiveOwner(o)
               /\ UNCHANGED <<writers, owners, nextOwner>>
            \/ RetireOwner(o) /\ UNCHANGED <<owners, activeOwner, nextOwner>>
            \/ RemoveOwner(o) /\ UNCHANGED <<writers, activeOwner, nextOwner>>
    /\ UNCHANGED writeVars

HostRegister ==
    /\ \E p \in Prefixes, c \in Ctxs : RegisterWriter(p, c)
    /\ UNCHANGED <<owners, activeOwner, nextOwner, inflight, wpc, wreg>>

HostWrite(t) ==
    /\ \/ \E n \in Names : WriteSelect(t, n)
       \/ HandlerReturn(t)
       \/ WriteDone(t)
    /\ registryUnchanged

HostNext ==
    \/ HostManage
    \/ HostRegister
    \/ \E t \in Threads : HostWrite(t)

\* The registry alone, whatever its owners are used for.
HostSpec == HostInit /\ [][HostNext]_hostVars

-----------------------------------------------------------------------------
(* Properties.                                                             *)

\* Every variable stays in its type; in particular inflight, an int, is never
\* decremented below zero, and owner 0 always exists, which registerWriterThunk
\* relies on when it dereferences owners_[0].
HostTypeOK ==
    /\ writers \subseteq WriteReg
    /\ owners \subseteq OwnerId
    /\ 0 \in owners
    /\ activeOwner \in OwnerId
    /\ nextOwner \in 1 .. MaxOwner + 1
    /\ inflight \in [OwnerId -> Nat]
    /\ wpc \in [Threads -> {"idle", "handler", "returned"}]
    /\ wreg \in [Threads -> WriteReg \cup {NoReg}]
    /\ \A t \in Threads : wpc[t] # "idle" => wreg[t] \in WriteReg

\* Threads between the selection and the decrement of a write for owner o.
InCall(o) == {t \in Threads : wpc[t] # "idle" /\ wreg[t].owner = o}

\* The counter of every owner, removed ones included, is exactly the number of
\* write() calls between their selection and their decrement: waitQuiescent
\* returns neither too early (a call still runs) nor never (a leaked count).
InflightExact ==
    \A o \in OwnerId : inflight[o] = Cardinality(InCall(o))

\* However registrations, retirements and owner changes interleave, at most one
\* handler is eligible for a name, so "the longest prefix wins, whatever the
\* registration order" (write) is well defined.
RouteIsUnique == \A n \in Names : Cardinality(Longest(n)) <= 1

=============================================================================
