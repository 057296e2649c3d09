-------------------------- MODULE PluginManagerProofs --------------------------
(***************************************************************************)
(* Proofs about PluginHost and PluginManager, for any number of threads,   *)
(* prefixes, plugins and loads, and whenever plugins register writers: the *)
(* counters of running calls are exact, every owner is accounted for,      *)
(* discovery loads no library twice, write() executes no handler that a    *)
(* plugin registered for itself once the plugin is unloaded, and the       *)
(* manager implements HotUnload.  The lemmas about the host's actions are  *)
(* used for the manager, which composes the same ones.                     *)
(***************************************************************************)
EXTENDS PluginManager, FiniteSetTheorems, TLAPS

-----------------------------------------------------------------------------
(* The host.                                                               *)

\* The prefixes of the registrations are distinct, whoever owns them.
UniquePrefixes == \A r, q \in writers : r.prefix = q.prefix => r = q

\* The inductive invariant.
HostInv == HostTypeOK /\ InflightExact /\ UniquePrefixes

-----------------------------------------------------------------------------

\* The initial state satisfies the invariant: no call runs, every count is 0.
LEMMA HostInitInv == ASSUME HostInit PROVE HostInv
<1> USE HostAssumption
<1>1. HostTypeOK
  BY DEF HostInit, HostTypeOK, OwnerId, WriteReg
<1>2. InflightExact
  <2> SUFFICES ASSUME NEW o \in OwnerId
               PROVE  inflight[o] = Cardinality(InCall(o))
    BY DEF InflightExact
  <2>1. InCall(o) = {}
    BY DEF HostInit, InCall
  <2> QED
    BY <2>1, FS_EmptySet DEF HostInit
<1>3. UniquePrefixes
  BY DEF HostInit, UniquePrefixes
<1> QED
  BY <1>1, <1>2, <1>3 DEF HostInv

\* Selecting a registration under the lock keeps the counters exact.
LEMMA SelectInv ==
  ASSUME HostInv, NEW t \in Threads, NEW n \in Names, WriteSelect(t, n),
         registryUnchanged
  PROVE  HostInv'
<1> USE HostAssumption
<1>1. PICK r \in writers :
        /\ wreg' = [wreg EXCEPT ![t] = r]
        /\ inflight' = [inflight EXCEPT ![r.owner] = @ + 1]
  BY DEF WriteSelect, Longest, Matching
<1>2. wpc[t] = "idle" /\ wpc' = [wpc EXCEPT ![t] = "handler"]
  BY DEF WriteSelect
<1>3. r \in WriteReg /\ r.owner \in OwnerId
  BY <1>1 DEF HostInv, HostTypeOK, WriteReg
<1>4. HostTypeOK'
  BY <1>1, <1>2, <1>3 DEF HostInv, HostTypeOK, registryUnchanged
<1>5. InflightExact'
  <2> SUFFICES ASSUME NEW o \in OwnerId
               PROVE  inflight'[o] = Cardinality(InCall(o)')
    BY DEF InflightExact
  <2>1. inflight[o] = Cardinality(InCall(o)) /\ inflight[o] \in Nat
    BY DEF HostInv, HostTypeOK, InflightExact
  <2>2. IsFiniteSet(InCall(o)) /\ t \notin InCall(o)
    BY <1>2, FS_Subset DEF InCall
  <2>3. CASE o = r.owner
    <3>1. InCall(o)' = InCall(o) \cup {t}
      BY <1>1, <1>2, <2>3 DEF InCall, HostInv, HostTypeOK
    <3>2. Cardinality(InCall(o) \cup {t}) = Cardinality(InCall(o)) + 1
      BY <2>2, FS_AddElement
    <3>3. inflight'[o] = inflight[o] + 1
      BY <1>1, <1>3, <2>3 DEF HostInv, HostTypeOK
    <3> QED
      BY <2>1, <3>1, <3>2, <3>3
  <2>4. CASE o # r.owner
    <3>1. InCall(o)' = InCall(o)
      BY <1>1, <1>2, <2>4 DEF InCall, HostInv, HostTypeOK
    <3> QED
      BY <1>1, <1>3, <2>1, <2>4, <3>1 DEF HostInv, HostTypeOK
  <2> QED
    BY <2>3, <2>4
<1>6. UniquePrefixes'
  BY DEF HostInv, UniquePrefixes, registryUnchanged
<1> QED
  BY <1>4, <1>5, <1>6 DEF HostInv

\* The return of the handler changes no counter and no registration.
LEMMA ReturnInv ==
  ASSUME HostInv, NEW t \in Threads, HandlerReturn(t), registryUnchanged
  PROVE  HostInv'
<1>1. HostTypeOK'
  BY DEF HostInv, HostTypeOK, HandlerReturn, registryUnchanged
<1>2. \A o \in OwnerId : InCall(o)' = InCall(o)
  BY DEF HostInv, HostTypeOK, HandlerReturn, InCall
<1>3. InflightExact'
  BY <1>2 DEF HostInv, InflightExact, HandlerReturn
<1>4. UniquePrefixes'
  BY DEF HostInv, UniquePrefixes, registryUnchanged
<1> QED
  BY <1>1, <1>3, <1>4 DEF HostInv

\* The decrement finds a positive counter and keeps the counters exact.
LEMMA DoneInv ==
  ASSUME HostInv, NEW t \in Threads, WriteDone(t), registryUnchanged
  PROVE  HostInv'
<1> USE HostAssumption
<1> DEFINE own == wreg[t].owner
<1>1. wpc[t] = "returned" /\ own \in OwnerId
  BY DEF WriteDone, HostInv, HostTypeOK, WriteReg
<1>2. \A o \in OwnerId : IsFiniteSet(InCall(o))
  BY FS_Subset DEF InCall
<1>3. t \in InCall(own)
  BY <1>1 DEF InCall
<1>4. inflight[own] = Cardinality(InCall(own)) /\ inflight[own] \in Nat
  BY <1>1 DEF HostInv, HostTypeOK, InflightExact
<1>5. Cardinality(InCall(own) \ {t}) = inflight[own] - 1
      /\ inflight[own] - 1 \in Nat
  <2>1. Cardinality(InCall(own) \ {t}) = Cardinality(InCall(own)) - 1
    BY <1>1, <1>2, <1>3, FS_RemoveElement
  <2>2. Cardinality(InCall(own) \ {t}) \in Nat
    BY <1>1, <1>2, FS_RemoveElement, FS_CardinalityType
  <2> QED
    BY <1>4, <2>1, <2>2
<1>6. HostTypeOK'
  BY <1>1, <1>5 DEF HostInv, HostTypeOK, WriteDone, registryUnchanged
<1>7. InflightExact'
  <2> SUFFICES ASSUME NEW o \in OwnerId
               PROVE  inflight'[o] = Cardinality(InCall(o)')
    BY DEF InflightExact
  <2>1. CASE o = own
    <3>1. InCall(o)' = InCall(o) \ {t}
      BY <1>1, <2>1 DEF InCall, WriteDone, HostInv, HostTypeOK
    <3> QED
      BY <1>5, <2>1, <3>1 DEF WriteDone, HostInv, HostTypeOK
  <2>2. CASE o # own
    <3>1. InCall(o)' = InCall(o)
      BY <1>1, <2>2 DEF InCall, WriteDone, HostInv, HostTypeOK
    <3> QED
      BY <2>2, <3>1 DEF WriteDone, HostInv, HostTypeOK, InflightExact
  <2> QED
    BY <2>1, <2>2
<1>8. UniquePrefixes'
  BY DEF HostInv, UniquePrefixes, registryUnchanged
<1> QED
  BY <1>6, <1>7, <1>8 DEF HostInv

\* Every step of write() preserves the invariant.
LEMMA WriteInv ==
  ASSUME HostInv, NEW t \in Threads, HostWrite(t)
  PROVE  HostInv'
BY SelectInv, ReturnInv, DoneInv DEF HostWrite

\* The calls in progress depend on wpc and wreg only.
LEMMA CallsUnchanged ==
  ASSUME UNCHANGED writeVars, InflightExact
  PROVE  InflightExact'
<1>1. \A o \in OwnerId : InCall(o)' = InCall(o)
  BY DEF InCall, writeVars
<1> QED
  BY <1>1 DEF InflightExact, writeVars

\* A registration takes a free prefix, for an owner that exists.
LEMMA RegisterInv ==
  ASSUME HostInv, NEW p \in Prefixes, NEW c \in Ctxs, RegisterWriter(p, c),
         UNCHANGED <<owners, activeOwner, nextOwner, inflight, wpc, wreg>>
  PROVE  HostInv'
<1> DEFINE new == [prefix |-> p, ctx |-> c, owner |-> RegisterOwner]
<1>1. RegisterOwner \in OwnerId
  BY DEF RegisterOwner, HostInv, HostTypeOK
<1>2. new \in WriteReg /\ new.prefix = p
  BY <1>1 DEF WriteReg
<1>3. writers' = writers \cup {new} /\ \A r \in writers : r.prefix # p
  BY DEF RegisterWriter
<1> HIDE DEF new
<1>4. HostTypeOK'
  BY <1>2, <1>3 DEF HostInv, HostTypeOK
<1>5. UniquePrefixes'
  BY <1>2, <1>3 DEF HostInv, UniquePrefixes
<1>6. InflightExact'
  BY CallsUnchanged DEF HostInv, writeVars
<1> QED
  BY <1>4, <1>5, <1>6 DEF HostInv

\* The management calls of the host preserve the invariant, whatever
\* combination of them is one step.
LEMMA ManageInv ==
  ASSUME HostInv,
         writers' \subseteq writers,
         \/ owners' = owners /\ nextOwner' = nextOwner
         \/ CreateOwner
         \/ nextOwner' = nextOwner /\ \E o \in OwnerId : RemoveOwner(o),
         activeOwner' \in OwnerId,
         UNCHANGED writeVars
  PROVE  HostInv'
<1> USE HostAssumption
<1>1. /\ owners' \subseteq OwnerId
      /\ 0 \in owners'
      /\ nextOwner' \in 1 .. MaxOwner + 1
  <2> USE DEF HostInv, HostTypeOK, OwnerId
  <2>1. CASE owners' = owners /\ nextOwner' = nextOwner
    BY <2>1
  <2>2. CASE CreateOwner
    BY <2>2 DEF CreateOwner
  <2>3. CASE nextOwner' = nextOwner /\ \E o \in OwnerId : RemoveOwner(o)
    <3>1. PICK o \in OwnerId : RemoveOwner(o)
      BY <2>3
    <3> QED
      BY <2>3, <3>1 DEF RemoveOwner
  <2> QED
    BY <2>1, <2>2, <2>3
<1>2. HostTypeOK'
  BY <1>1 DEF HostInv, HostTypeOK, writeVars
<1>3. InflightExact'
  BY CallsUnchanged DEF HostInv
<1>4. UniquePrefixes'
  BY DEF HostInv, UniquePrefixes
<1> QED
  BY <1>2, <1>3, <1>4 DEF HostInv

-----------------------------------------------------------------------------

\* The invariant holds in every state of the host under any client.
LEMMA HostInvariance == HostSpec => []HostInv
<1>1. HostInv /\ [HostNext]_hostVars => HostInv'
  <2> SUFFICES ASSUME HostInv, [HostNext]_hostVars PROVE HostInv'
    OBVIOUS
  <2>1. CASE HostManage
    <3>1. writers' \subseteq writers
      BY <2>1 DEF HostManage, RetireOwner
    <3>2. activeOwner' \in OwnerId
      BY <2>1 DEF HostManage, SetActiveOwner, HostInv, HostTypeOK
    <3>3. \/ owners' = owners /\ nextOwner' = nextOwner
          \/ CreateOwner
          \/ nextOwner' = nextOwner /\ \E o \in OwnerId : RemoveOwner(o)
      BY <2>1 DEF HostManage
    <3> QED
      BY <2>1, <3>1, <3>2, <3>3, ManageInv DEF HostManage
  <2>2. CASE HostRegister
    BY <2>2, RegisterInv DEF HostRegister
  <2>3. CASE \E t \in Threads : HostWrite(t)
    BY <2>3, WriteInv
  <2>4. CASE UNCHANGED hostVars
    <3>1. writers' \subseteq writers /\ owners' = owners /\ nextOwner' = nextOwner
          /\ activeOwner' \in OwnerId /\ UNCHANGED writeVars
      BY <2>4 DEF hostVars, writeVars, HostInv, HostTypeOK
    <3> QED
      BY <3>1, ManageInv
  <2> QED
    BY <2>1, <2>2, <2>3, <2>4 DEF HostNext
<1> QED
  BY <1>1, HostInitInv, PTL DEF HostSpec

\* The variables of the host stay in their types; in particular no counter is
\* ever decremented below zero and owners_[0] always exists.
THEOREM HostTypeCorrect == HostSpec => []HostTypeOK
BY HostInvariance, PTL DEF HostInv

\* For any number of threads, the counter waitQuiescent spins on is exactly the
\* number of write() calls in progress for that owner.
THEOREM InflightCountsCalls == HostSpec => []InflightExact
BY HostInvariance, PTL DEF HostInv

\* A name has at most one longest registered prefix, so write() routes every
\* name to one handler whatever the order of the registrations.
LEMMA UniqueRoute == ASSUME HostInv PROVE RouteIsUnique
<1> USE HostAssumption
<1> SUFFICES ASSUME NEW n \in Names PROVE Cardinality(Longest(n)) <= 1
  BY DEF RouteIsUnique
<1>1. ASSUME NEW r \in Longest(n), NEW q \in Longest(n) PROVE r = q
  <2>1. /\ r \in writers /\ q \in writers
        /\ HasPrefix(n, r.prefix) /\ HasPrefix(n, q.prefix)
        /\ Len(q.prefix) <= Len(r.prefix) /\ Len(r.prefix) <= Len(q.prefix)
    BY DEF Longest, Matching
  <2>2. r.prefix \in Seq(Nat) /\ q.prefix \in Seq(Nat)
    BY <2>1 DEF HostInv, HostTypeOK, WriteReg
  <2>3. Len(r.prefix) = Len(q.prefix)
    BY <2>1, <2>2
  <2>4. r.prefix = q.prefix
    BY <2>1, <2>3 DEF HasPrefix
  <2> QED
    BY <2>1, <2>4 DEF HostInv, UniquePrefixes
<1>2. CASE Longest(n) = {}
  <2>1. Cardinality(Longest(n)) = 0
    BY <1>2, FS_EmptySet
  <2> QED
    BY <2>1
<1>3. CASE Longest(n) # {}
  <2>1. PICK r : r \in Longest(n)
    BY <1>3
  <2>2. Longest(n) = {r}
    BY <1>1, <2>1
  <2>3. Cardinality({r}) = 1
    BY FS_Singleton
  <2> QED
    BY <2>2, <2>3
<1> QED
  BY <1>2, <1>3

\* The routing theorem, for every state of the host.
THEOREM RoutingIsDeterministic == HostSpec => []RouteIsUnique
BY HostInvariance, UniqueRoute, PTL

-----------------------------------------------------------------------------
(* The manager.                                                            *)

\* The pcs in which an operation loads, holds and unloads incarnation cur.
LoadingPcs == {"create", "init", "undoDestroy", "undoRetire", "undoDrain",
               "undoClose"}
LoadedPcs == {"toStart", "start", "stopping", "retire", "drain", "stop",
              "destroy", "close"}
UnloadPcs == {"retire", "drain", "stop", "destroy", "close"}

\* Which operation can be where.
ControlInv ==
    /\ mpc \in UnloadPcs => op \in {"unload", "reload", "destructor"}
    /\ mpc \in LoadingPcs \cup {"open", "createClose"} =>
          op \in {"load", "loadDirectory", "scan", "reload"}
    /\ mpc \in {"toStart", "start"} => op \in {"scan", "reload", "startAll"}
    /\ mpc = "stopping" => op = "stopAll"
    /\ mpc = "next" =>
          op \in {"loadDirectory", "scan", "startAll", "stopAll", "destructor"}
    /\ mpc = "dead" => op = "destructor"
    /\ todo # {} => op \in {"startAll", "stopAll"}
    /\ mpc \in {"open", "idle"} => todo = {}

\* What cur is, and that the active owner is cur around create, init and start.
CurInv ==
    /\ mpc \in LoadingPcs \cup {"createClose"} =>
          cur \in Incarnation /\ cur \notin loaded /\ cur < nextOwner
    /\ mpc \in LoadedPcs => cur \in loaded
    /\ mpc \in {"destroy", "close"} => cur \notin started
    /\ \A o \in loaded : o < nextOwner
    /\ activeOwner = IF mpc \in {"create", "init", "undoDestroy", "undoRetire", "start"}
                     THEN cur ELSE 0

\* What is left of every incarnation.
LifeInv ==
    \A o \in Incarnation :
        /\ life[o] = "none" <=> nextOwner <= o
        /\ o \in loaded =>
              life[o] = IF mpc = "close" /\ cur = o THEN "destroyed" ELSE "alive"
        /\ cur = o =>
              /\ mpc \in {"create", "createClose"} => life[o] = "open"
              /\ mpc \in {"init", "undoDestroy"} => life[o] = "alive"
              /\ mpc \in {"undoRetire", "undoDrain", "undoClose"} =>
                    life[o] = "destroyed"

\* The owners whose createPlugin failed: nothing withdraws what is theirs.
FailedCreate ==
    {o \in Incarnation : life[o] = "refused" \/ (cur = o /\ mpc = "createClose")}

\* The owners that may have registrations: retireOwner withdraws them.
MayHaveWriters ==
    FailedCreate \cup
    {o \in Incarnation :
        \/ o \in loaded /\ ~(cur = o /\ mpc \in {"drain", "stop", "destroy", "close"})
        \/ cur = o /\ mpc \in {"create", "init", "undoDestroy", "undoRetire"}}

\* The owners a write() may be in progress for: until waitQuiescent returns.
MayHaveCalls ==
    FailedCreate \cup
    {o \in Incarnation :
        \/ o \in loaded /\ ~(cur = o /\ mpc \in {"stop", "destroy", "close"})
        \/ cur = o /\ mpc \in {"create", "init", "undoDestroy", "undoRetire",
                                "undoDrain"}}

\* Owner 0, which nobody retires, aside.
WritersInv == \A r \in writers : r.owner # 0 => r.owner \in MayHaveWriters

CallsInv ==
    \A t \in Threads :
        wpc[t] # "idle" /\ wreg[t].owner # 0 => wreg[t].owner \in MayHaveCalls

\* What concerns the manager's own control state.
MgrInv == MgrTypeOK /\ ControlInv /\ CurInv /\ LifeInv /\ OwnersAccounted

\* Host and manager, each for itself.
Base == HostInv /\ MgrInv

IInv == HostInv /\ MgrInv /\ WritersInv /\ CallsInv

-----------------------------------------------------------------------------

\* When waitQuiescent finds the counter at zero, no thread is in a call.
LEMMA QuietOwner ==
  ASSUME HostInv, NEW o \in owners, Quiescent(o), NEW t \in Threads,
         wpc[t] # "idle"
  PROVE  wreg[t].owner # o
<1> USE HostAssumption
<1>1. o \in OwnerId
  BY DEF HostInv, HostTypeOK
<1>2. IsFiniteSet(InCall(o))
  BY FS_Subset DEF InCall
<1>3. Cardinality(InCall(o)) = 0
  BY <1>1 DEF HostInv, InflightExact, Quiescent
<1>4. InCall(o) = {}
  BY <1>2, <1>3, FS_EmptySet
<1> QED
  BY <1>4 DEF InCall

-----------------------------------------------------------------------------

\* Starting an operation keeps the manager's part of the invariant.
LEMMA BeginMgr == ASSUME Base, BeginOperation PROVE MgrInv'
<1> USE HostAssumption DEF Base, HostInv, HostTypeOK, MgrInv, MgrTypeOK, ControlInv, CurInv,
            LifeInv, OwnersAccounted, RegisterOwner, Goto, Finish, LoadEnds, StartEnds, IsDiscovery,
            IdleWith, SetActiveOwner, CreateOwner, RemoveOwner, hostVars,
            OwnerId, Incarnation, LoadingPcs, LoadedPcs, UnloadPcs, Ops, MgrPcs,
            FindsPlugin, FoundIn
<1>1. ASSUME NEW p \in Paths, BeginLoad(p) PROVE MgrInv'
  BY <1>1 DEF BeginLoad
<1>2. ASSUME NEW ps \in SUBSET Paths, BeginLoadDirectory(ps) PROVE MgrInv'
  BY <1>2 DEF BeginLoadDirectory
<1>3. ASSUME NEW ps \in SUBSET Paths, BeginScan(ps) PROVE MgrInv'
  BY <1>3 DEF BeginScan
<1>4. ASSUME BeginStartAllOrStopAll PROVE MgrInv'
  BY <1>4 DEF BeginStartAllOrStopAll
<1>5. ASSUME NEW id \in Ids, BeginUnload(id) PROVE MgrInv'
  BY <1>5 DEF BeginUnload
<1>6. ASSUME NEW id \in Ids, BeginReload(id) PROVE MgrInv'
  BY <1>6 DEF BeginReload
<1>7. ASSUME BeginDestructor PROVE MgrInv'
  BY <1>7 DEF BeginDestructor
<1> QED
  BY <1>1, <1>2, <1>3, <1>4, <1>5, <1>6, <1>7 DEF BeginOperation

\* So do the loops over directory and plugins, start and stop calls included,
LEMMA LoopMgr == ASSUME Base, LoopStep PROVE MgrInv'
<1> USE HostAssumption DEF Base, HostInv, HostTypeOK, MgrInv, MgrTypeOK, ControlInv, CurInv,
            LifeInv, OwnersAccounted, RegisterOwner, Goto, Finish, LoadEnds, StartEnds, IsDiscovery,
            IdleWith, SetActiveOwner, CreateOwner, RemoveOwner, hostVars,
            OwnerId, Incarnation, LoadingPcs, LoadedPcs, UnloadPcs, Ops, MgrPcs,
            FindsPlugin, FoundIn
<1>1. ASSUME NextFile PROVE MgrInv'
  BY <1>1 DEF NextFile
<1>2. ASSUME NextPlugin PROVE MgrInv'
  BY <1>2 DEF NextPlugin
<1>3. ASSUME NextUnload PROVE MgrInv'
  BY <1>3 DEF NextUnload
<1>4. ASSUME LoopEnds PROVE MgrInv'
  BY <1>4 DEF LoopEnds
<1>5. ASSUME StartCalls PROVE MgrInv'
  BY <1>5 DEF StartCalls
<1>6. ASSUME NEW ok \in BOOLEAN, StartReturns(ok) PROVE MgrInv'
  BY <1>6 DEF StartReturns
<1>7. ASSUME StopReturns PROVE MgrInv'
  BY <1>7 DEF StopReturns
<1> QED
  BY <1>1, <1>2, <1>3, <1>4, <1>5, <1>6, <1>7 DEF LoopStep

\* ... every path through loadLocked, failing or not,
LEMMA LoadMgr == ASSUME Base, LoadStep PROVE MgrInv'
<1> USE HostAssumption DEF Base, HostInv, HostTypeOK, MgrInv, MgrTypeOK, ControlInv, CurInv,
            LifeInv, OwnersAccounted, RegisterOwner, Goto, Finish, LoadEnds, StartEnds, IsDiscovery,
            IdleWith, SetActiveOwner, CreateOwner, RemoveOwner, hostVars,
            OwnerId, Incarnation, LoadingPcs, LoadedPcs, UnloadPcs, Ops, MgrPcs,
            FindsPlugin, FoundIn
<1>1. ASSUME OpenRejected PROVE MgrInv'
  BY <1>1 DEF OpenRejected
<1>2. ASSUME OpenAccepted PROVE MgrInv'
  BY <1>2 DEF OpenAccepted
<1>3. ASSUME CreateSucceeds PROVE MgrInv'
  BY <1>3 DEF CreateSucceeds
<1>4. ASSUME CreateFails PROVE MgrInv'
  BY <1>4 DEF CreateFails
<1>5. ASSUME CreateCloses PROVE MgrInv'
  BY <1>5 DEF CreateCloses
<1>6. ASSUME InitSucceeds PROVE MgrInv'
  BY <1>6 DEF InitSucceeds
<1>7. ASSUME InitFails PROVE MgrInv'
  BY <1>7 DEF InitFails
<1>8. ASSUME UndoDestroy PROVE MgrInv'
  BY <1>8 DEF UndoDestroy
<1>9. ASSUME UndoRetire PROVE MgrInv'
  BY <1>9 DEF UndoRetire
<1>10. ASSUME UndoDrain PROVE MgrInv'
  BY <1>10 DEF UndoDrain
<1>11. ASSUME UndoClose PROVE MgrInv'
  BY <1>11 DEF UndoClose
<1> QED
  BY <1>1, <1>2, <1>3, <1>4, <1>5, <1>6, <1>7, <1>8, <1>9, <1>10, <1>11 DEF LoadStep

\* ... and the steps of unloadLocked.
LEMMA UnloadMgr == ASSUME Base, UnloadStep PROVE MgrInv'
<1> USE HostAssumption DEF Base, HostInv, HostTypeOK, MgrInv, MgrTypeOK, ControlInv, CurInv,
            LifeInv, OwnersAccounted, RegisterOwner, Goto, Finish, LoadEnds, StartEnds, IsDiscovery,
            IdleWith, SetActiveOwner, CreateOwner, RemoveOwner, hostVars,
            OwnerId, Incarnation, LoadingPcs, LoadedPcs, UnloadPcs, Ops, MgrPcs,
            FindsPlugin, FoundIn
<1>1. ASSUME UnloadRetires PROVE MgrInv'
  BY <1>1 DEF UnloadRetires
<1>2. ASSUME UnloadDrains PROVE MgrInv'
  BY <1>2 DEF UnloadDrains
<1>3. ASSUME UnloadStops PROVE MgrInv'
  BY <1>3 DEF UnloadStops
<1>4. ASSUME UnloadDestroys PROVE MgrInv'
  BY <1>4 DEF UnloadDestroys
<1>5. ASSUME UnloadCloses PROVE MgrInv'
  BY <1>5 DEF UnloadCloses
<1> QED
  BY <1>1, <1>2, <1>3, <1>4, <1>5 DEF UnloadStep

-----------------------------------------------------------------------------

\* Every step of an operation keeps the host's part of the invariant: it retires
\* registrations and creates or removes owners, and leaves writes alone.
LEMMA OperationHost ==
  ASSUME Base, BeginOperation \/ ManagerStep
  PROVE  HostInv' /\ UNCHANGED writeVars /\ writers' \subseteq writers
<1> USE DEF hostVars, writeVars, SetActiveOwner
<1> DEFINE Effect ==
      /\ writers' \subseteq writers
      /\ \/ owners' = owners /\ nextOwner' = nextOwner
         \/ CreateOwner
         \/ nextOwner' = nextOwner /\ \E o \in OwnerId : RemoveOwner(o)
      /\ activeOwner' \in OwnerId
      /\ UNCHANGED writeVars
<1>1. activeOwner \in OwnerId /\ 0 \in OwnerId /\ cur \in OwnerId
  BY DEF Base, HostInv, HostTypeOK, MgrInv, MgrTypeOK
<1>2. Effect
  <2>1. CASE BeginOperation
    <3>1. UNCHANGED hostVars
      BY <2>1 DEF BeginOperation, BeginLoad, BeginLoadDirectory, BeginScan,
         BeginStartAllOrStopAll, BeginUnload, BeginReload, BeginDestructor
    <3> QED
      BY <1>1, <3>1
  <2>2. CASE LoadStep
    <3>1. CASE OpenAccepted
      <4>1. nextOwner \in OwnerId
        BY <3>1, HostAssumption
           DEF OpenAccepted, CreateOwner, OwnerId, Base, HostInv, HostTypeOK
      <4> QED
        BY <3>1, <4>1 DEF OpenAccepted
    <3>2. CASE UndoRetire
      BY <1>1, <3>2 DEF UndoRetire, RetireOwner
    <3>3. CASE CreateFails \/ UndoClose
      BY <1>1, <3>3 DEF CreateFails, UndoClose
    <3>4. CASE ~(OpenAccepted \/ UndoRetire \/ CreateFails \/ UndoClose)
      BY <1>1, <2>2, <3>4 DEF LoadStep, OpenRejected, CreateSucceeds,
         CreateCloses, InitSucceeds, InitFails, UndoDestroy, UndoDrain
    <3> QED
      BY <3>1, <3>2, <3>3, <3>4
  <2>3. CASE LoopStep
    BY <1>1, <2>3 DEF LoopStep, NextFile, NextPlugin, NextUnload, LoopEnds,
       StartCalls, StartReturns, StopReturns
  <2>4. CASE UnloadStep
    BY <1>1, <2>4 DEF UnloadStep, UnloadRetires, UnloadDrains, UnloadStops,
       UnloadDestroys, UnloadCloses, RetireOwner
  <2> QED
    BY <2>1, <2>2, <2>3, <2>4 DEF ManagerStep
<1> QED
  BY <1>2, ManageInv DEF Base

\* Registrations and calls exist only where they may: an operation leaves a
\* state in which an owner may have them only after they have been withdrawn,
\* or have ended.
LEMMA OperationRouting ==
  ASSUME IInv, BeginOperation \/ ManagerStep
  PROVE  WritersInv' /\ CallsInv'
<1> USE DEF IInv, MgrInv, MgrTypeOK, CurInv, ControlInv, Goto, Finish, LoadEnds, StartEnds,
            LifeInv, IdleWith, FailedCreate, MayHaveWriters, MayHaveCalls, LoadingPcs,
            LoadedPcs, SetActiveOwner, hostVars
<1>1. UNCHANGED writeVars /\ writers' \subseteq writers
  BY OperationHost DEF Base
<1>2. \A r \in writers : r.owner # 0 => r.owner \in MayHaveWriters
  BY DEF WritersInv
<1>3. \A t \in Threads :
          wpc[t] # "idle" /\ wreg[t].owner # 0 => wreg[t].owner \in MayHaveCalls
  BY DEF CallsInv
<1>4. CASE UnloadRetires \/ UndoRetire
  <2>1. cur # 0 /\ cur \in owners
    BY <1>4 DEF UnloadRetires, UndoRetire, OwnersAccounted, MgrTypeOK, Incarnation
  <2>2. \A r \in writers' : r.owner # cur
    BY <1>4, <2>1 DEF UnloadRetires, UndoRetire, RetireOwner
  <2>3. MayHaveWriters \ {cur} \subseteq MayHaveWriters'
    BY <1>4 DEF UnloadRetires, UndoRetire
  <2>4. MayHaveCalls \subseteq MayHaveCalls'
    BY <1>4 DEF UnloadRetires, UndoRetire
  <2> QED
    BY <1>1, <1>2, <1>3, <2>2, <2>3, <2>4 DEF WritersInv, CallsInv, writeVars
<1>5. CASE UnloadDrains \/ UndoDrain
  <2>1. cur \in owners /\ Quiescent(cur)
    BY <1>5 DEF UnloadDrains, UndoDrain, OwnersAccounted
  <2>2. \A t \in Threads : wpc[t] # "idle" => wreg[t].owner # cur
    BY <2>1, QuietOwner
  <2>3. MayHaveWriters \subseteq MayHaveWriters'
    BY <1>5 DEF UnloadDrains, UndoDrain
  <2>4. MayHaveCalls \ {cur} \subseteq MayHaveCalls'
    BY <1>5 DEF UnloadDrains, UndoDrain
  <2> QED
    BY <1>1, <1>2, <1>3, <2>2, <2>3, <2>4 DEF WritersInv, CallsInv, writeVars
<1>6. CASE ~(UnloadRetires \/ UndoRetire \/ UnloadDrains \/ UndoDrain)
  <2>1. /\ MayHaveWriters \subseteq MayHaveWriters'
        /\ MayHaveCalls \subseteq MayHaveCalls'
    <3>1. CASE BeginOperation
      BY <3>1 DEF BeginOperation, BeginLoad, BeginLoadDirectory, BeginScan,
         BeginStartAllOrStopAll, BeginUnload, BeginReload, BeginDestructor
    <3>2. CASE LoadStep
      <4>1. CASE OpenAccepted
        <5>1. mpc = "open" /\ cur' = nextOwner /\ loaded' = loaded
              /\ life' = [life EXCEPT ![nextOwner] = "open"]
          BY <4>1 DEF OpenAccepted
        <5>2. nextOwner \in Incarnation /\ life[nextOwner] = "none" /\ nextOwner \notin loaded
          BY <4>1, HostAssumption DEF OpenAccepted, HostInv, HostTypeOK, CreateOwner,
             OwnerId, Incarnation
        <5>3. \A o \in Incarnation : life[o] = "refused" => life'[o] = "refused"
          BY <5>1, <5>2
        <5> HIDE DEF LifeInv, IInv, MgrInv, CurInv, MgrTypeOK
        <5> QED
          BY <5>1, <5>2, <5>3
      <4>2. CASE OpenRejected \/ InitFails
        BY <4>2 DEF OpenRejected, InitFails
      <4>3. CASE InitSucceeds
        BY <4>3 DEF InitSucceeds
      <4>4. CASE CreateSucceeds \/ UndoDestroy
        BY <4>4 DEF CreateSucceeds, UndoDestroy
      <4>5. CASE CreateFails
        BY <4>5 DEF CreateFails
      <4>6. CASE CreateCloses
        <5>1. /\ mpc = "createClose" /\ cur \in Incarnation /\ loaded' = loaded
              /\ life' = [life EXCEPT ![cur] = "refused"]
              /\ mpc' \in {"next", "idle"}
          BY <4>6 DEF CreateCloses, IsDiscovery
        <5>2. \A o \in Incarnation :
                life[o] = "refused" \/ (cur = o /\ mpc = "createClose") =>
                    life'[o] = "refused"
          BY <5>1
        <5> HIDE DEF LifeInv, IInv, MgrInv, CurInv, MgrTypeOK
        <5> QED
          BY <5>1, <5>2
      <4>7. CASE UndoClose
        BY <4>7 DEF UndoClose
      <4> QED
        BY <1>6, <3>2, <4>1, <4>2, <4>3, <4>4, <4>5, <4>6, <4>7 DEF LoadStep
    <3>3. CASE LoopStep
      BY <3>3 DEF LoopStep, NextFile, NextPlugin, NextUnload, LoopEnds,
         StartCalls, StartReturns, StopReturns
    <3>4. CASE UnloadStep
      <4>1. CASE UnloadStops \/ UnloadDestroys
        BY <4>1 DEF UnloadStops, UnloadDestroys
      <4>2. CASE UnloadCloses
        <5>1. mpc = "close" /\ loaded' = loaded \ {cur} /\ cur \in loaded
          BY <4>2 DEF UnloadCloses
        <5>2. /\ cur' \in {0, cur}
              /\ mpc' \notin UnloadPcs \cup LoadingPcs
          BY <4>2 DEF UnloadCloses, UnloadPcs
        <5>3. life[cur] # "refused" /\ life' = [life EXCEPT ![cur] = "closed"]
          BY <4>2, <5>1 DEF UnloadCloses
        <5>4. \A o \in Incarnation : life[o] = "refused" => life'[o] = "refused"
          BY <5>3
        <5> HIDE DEF LifeInv, IInv, MgrInv, CurInv, ControlInv, MgrTypeOK
        <5> QED
          BY <5>1, <5>2, <5>4 DEF UnloadPcs
      <4> QED
        BY <1>6, <3>4, <4>1, <4>2 DEF UnloadStep
    <3> HIDE DEF MayHaveWriters, MayHaveCalls
    <3> QED
      BY <3>1, <3>2, <3>3, <3>4 DEF ManagerStep
  <2> HIDE DEF IInv, MgrInv, MgrTypeOK, CurInv, ControlInv, LifeInv, FailedCreate,
               MayHaveWriters, MayHaveCalls
  <2>2. WritersInv'
    BY <1>1, <1>2, <2>1 DEF WritersInv
  <2>3. CallsInv'
    BY <1>1, <1>3, <2>1 DEF CallsInv, writeVars
  <2> QED
    BY <2>2, <2>3
<1> QED
  BY <1>4, <1>5, <1>6

\* Every step keeps it, registrations at any time included.
LEMMA StepBase ==
  ASSUME Base, [Next]_vars
  PROVE  Base'
<1>1. CASE BeginOperation \/ ManagerStep
  BY <1>1, BeginMgr, LoadMgr, LoopMgr, UnloadMgr, OperationHost DEF ManagerStep, Base
<1>2. CASE PluginRegisters
  <2>1. PICK o \in Incarnation, p \in Prefixes : RegisterWriter(p, o)
    BY <1>2 DEF PluginRegisters
  <2>2. o \in Ctxs
    BY ManagerAssumption DEF Incarnation
  <2>3. HostInv'
    BY <1>2, <2>1, <2>2, RegisterInv DEF PluginRegisters, Base
  <2>4. MgrInv'
    BY <1>2 DEF PluginRegisters, Base, managerVars, MgrInv, MgrTypeOK, ControlInv,
       CurInv, LifeInv, OwnersAccounted, RegisterOwner
  <2> QED
    BY <2>3, <2>4 DEF Base
<1>3. ASSUME NEW t \in Threads, Write(t) PROVE Base'
  <2>1. HostInv'
    BY <1>3, WriteInv DEF Write, Base
  <2>2. MgrInv'
    BY <1>3 DEF Write, HostWrite, registryUnchanged, Base, managerVars, MgrInv,
       MgrTypeOK, ControlInv, CurInv, LifeInv, OwnersAccounted, RegisterOwner
  <2> QED
    BY <2>1, <2>2 DEF Base
<1>4. CASE UNCHANGED vars
  <2>1. HostInv'
    <3>1. writers' \subseteq writers /\ owners' = owners /\ nextOwner' = nextOwner
          /\ activeOwner' \in OwnerId /\ UNCHANGED writeVars
      BY <1>4 DEF vars, hostVars, writeVars, Base, HostInv, HostTypeOK
    <3> QED
      BY <3>1, ManageInv DEF Base
  <2>2. MgrInv'
    BY <1>4 DEF vars, hostVars, managerVars, Base, MgrInv, MgrTypeOK, ControlInv,
       CurInv, LifeInv, OwnersAccounted, RegisterOwner
  <2> QED
    BY <2>1, <2>2 DEF Base
<1> QED
  BY <1>1, <1>2, <1>3, <1>4 DEF Next

\* A registration goes to owner 0, or to the plugin whose createPlugin, init or start
\* is running or being undone.
LEMMA RegistrationRouting ==
  ASSUME IInv, PluginRegisters
  PROVE  IInv'
<1>1. PICK o \in Incarnation, p \in Prefixes : RegisterWriter(p, o)
  BY DEF PluginRegisters
<1>2. writers' = writers \cup {[prefix |-> p, ctx |-> o, owner |-> RegisterOwner]}
  BY <1>1 DEF RegisterWriter
<1>3. Base'
  BY StepBase DEF IInv, Base, Next
<1>4. RegisterOwner # 0 => RegisterOwner \in MayHaveWriters
  BY DEF IInv, MgrInv, MgrTypeOK, CurInv, RegisterOwner, MayHaveWriters, LoadingPcs,
     LoadedPcs
<1>5. MayHaveWriters' = MayHaveWriters /\ MayHaveCalls' = MayHaveCalls
  BY DEF PluginRegisters, managerVars, MayHaveWriters, MayHaveCalls, FailedCreate
<1>6. WritersInv'
  BY <1>2, <1>4, <1>5 DEF IInv, WritersInv
<1>7. CallsInv'
  BY <1>5 DEF PluginRegisters, IInv, CallsInv
<1> QED
  BY <1>3, <1>6, <1>7 DEF IInv, Base

\* A write enters only where a registration is, and so where calls may be.
LEMMA WriteRouting ==
  ASSUME IInv, NEW t \in Threads, Write(t)
  PROVE  IInv'
<1>1. Base'
  BY StepBase DEF IInv, Base, Next
<1>3. MayHaveWriters' = MayHaveWriters /\ MayHaveCalls' = MayHaveCalls
  BY DEF Write, managerVars, MayHaveWriters, MayHaveCalls, FailedCreate
<1>4. WritersInv'
  BY <1>3 DEF Write, HostWrite, registryUnchanged, IInv, WritersInv
<1>5. CallsInv'
  <2>1. ASSUME NEW n \in Names, WriteSelect(t, n) PROVE CallsInv'
    <3>1. PICK r \in writers : wreg' = [wreg EXCEPT ![t] = r]
      BY <2>1 DEF WriteSelect, Longest, Matching
    <3>2. r.owner # 0 => r.owner \in MayHaveCalls
      BY DEF IInv, WritersInv, MayHaveWriters, MayHaveCalls
    <3> QED
      BY <1>3, <2>1, <3>1, <3>2
         DEF WriteSelect, IInv, CallsInv, HostInv, HostTypeOK
  <2>2. CASE HandlerReturn(t) \/ WriteDone(t)
    BY <1>3, <2>2 DEF HandlerReturn, WriteDone, IInv, CallsInv, HostInv, HostTypeOK
  <2> QED
    BY <2>1, <2>2 DEF Write, HostWrite
<1> QED
  BY <1>1, <1>4, <1>5 DEF IInv, Base

\* Initially nothing is loaded and nobody writes.
LEMMA InitInv == ASSUME Init PROVE IInv
<1>1. HostInv
  BY HostInitInv DEF Init
<1>2. MgrInv
  BY HostAssumption DEF Init, HostInit, MgrInv, MgrTypeOK, ControlInv, CurInv,
     LifeInv, OwnersAccounted, RegisterOwner, Incarnation, OwnerId, Ops, MgrPcs, LoadingPcs,
     LoadedPcs, UnloadPcs
<1>3. WritersInv /\ CallsInv
  BY DEF Init, HostInit, WritersInv, CallsInv
<1> QED
  BY <1>1, <1>2, <1>3 DEF IInv

\* Every step preserves the invariant.
LEMMA StepInv ==
  ASSUME IInv, [Next]_vars
  PROVE  IInv'
<1>1. CASE BeginOperation \/ ManagerStep
  BY <1>1, StepBase, OperationRouting DEF Next, IInv, Base
<1>2. CASE PluginRegisters
  BY <1>2, RegistrationRouting
<1>3. CASE \E t \in Threads : Write(t)
  BY <1>3, WriteRouting
<1>4. CASE UNCHANGED vars
  <2>1. Base'
    BY StepBase DEF IInv, Base
  <2>2. WritersInv' /\ CallsInv'
    BY <1>4 DEF vars, hostVars, managerVars, IInv, WritersInv, CallsInv,
       MayHaveWriters, MayHaveCalls, FailedCreate
  <2> QED
    BY <2>1, <2>2 DEF IInv, Base
<1> QED
  BY <1>1, <1>2, <1>3, <1>4 DEF Next

\* Host and manager are in order in every reachable state.
LEMMA BaseInvariance == Spec => []Base
<1>1. Init => Base
  BY InitInv DEF IInv, Base
<1>2. Base /\ [Next]_vars => Base'
  BY StepBase
<1> QED
  BY <1>1, <1>2, PTL DEF Spec

\* The invariant holds in every reachable state.
LEMMA Invariance == Spec => []IInv
<1>1. IInv /\ [Next]_vars => IInv'
  BY StepInv
<1> QED
  BY <1>1, InitInv, PTL DEF Spec

-----------------------------------------------------------------------------

\* Host and manager stay in their types.
THEOREM TypeCorrect == Spec => []TypeOK
<1>1. Base => TypeOK
  BY DEF Base, HostInv, MgrInv, TypeOK
<1> QED
  BY <1>1, BaseInvariance, PTL

\* The counters stay exact while the manager creates, retires and removes owners.
THEOREM CountsStayExact == Spec => []InflightExact
<1>1. Base => InflightExact
  BY DEF Base, HostInv
<1> QED
  BY <1>1, BaseInvariance, PTL

\* An owner that may have calls has its library open, if its createPlugin did not fail.
LEMMA CalledIsOpen ==
  ASSUME IInv, NEW o \in MayHaveCalls
  PROVE  /\ o \in Incarnation
         /\ \/ life[o] \in {"open", "alive", "refused"}
            \/ UndoingInit(o) /\ life[o] = "destroyed"
<1>1. o \in Incarnation
  BY DEF MayHaveCalls, FailedCreate
<1>2. CASE o \in FailedCreate
  BY <1>1, <1>2 DEF FailedCreate, IInv, MgrInv, LifeInv
<1>3. CASE o \in loaded /\ ~(cur = o /\ mpc = "close")
  BY <1>1, <1>3 DEF IInv, MgrInv, LifeInv
<1>4. CASE cur = o /\ mpc \in {"create", "init", "undoDestroy"}
  BY <1>1, <1>4 DEF IInv, MgrInv, LifeInv
<1>5. CASE cur = o /\ mpc \in {"undoRetire", "undoDrain"}
  BY <1>1, <1>5 DEF IInv, MgrInv, LifeInv, UndoingInit
<1> QED
  BY <1>2, <1>3, <1>4, <1>5 DEF MayHaveCalls

\* Whatever operations race with it and whenever plugins register, write() runs no
\* handler that a plugin registered for itself in a library that has been closed: only
\* what a createPlugin that failed has registered is out of the manager's hands.
THEOREM HotUnloadSafe == Spec => []NoOwnedCallIntoClosedLibrary
<1>1. IInv => NoOwnedCallIntoClosedLibrary
  <2> SUFFICES ASSUME IInv, NEW t \in Threads, NEW o \in Incarnation, ExecutesOwn(t, o)
               PROVE  life[o] # "closed"
    BY DEF NoOwnedCallIntoClosedLibrary
  <2>1. o \in MayHaveCalls
    BY HostAssumption DEF IInv, CallsInv, ExecutesOwn, Executes, Incarnation
  <2> QED
    BY <2>1, CalledIsOpen
<1> QED
  BY <1>1, Invariance, PTL

\* Nor does it run one on an instance that has been destroyed, failed inits aside.
THEOREM HandlersRunOnLiveInstances == Spec => []NoCallOnUnloadedPlugin
<1>1. IInv => NoCallOnUnloadedPlugin
  <2> SUFFICES ASSUME IInv, NEW t \in Threads, NEW o \in Incarnation, ExecutesOwn(t, o)
               PROVE  life[o] \in {"open", "alive", "refused"} \/ UndoingInit(o)
    BY DEF NoCallOnUnloadedPlugin
  <2>1. o \in MayHaveCalls
    BY HostAssumption DEF IInv, CallsInv, ExecutesOwn, Executes, Incarnation
  <2> QED
    BY <2>1, CalledIsOpen
<1> QED
  BY <1>1, Invariance, PTL

\* No sequence of failing or succeeding operations leaks or loses an owner.
THEOREM OwnersNeverLeak == Spec => []OwnersAccounted
<1>1. Base => OwnersAccounted
  BY DEF Base, MgrInv
<1> QED
  BY <1>1, BaseInvariance, PTL

\* Between operations every registration belongs to a loaded plugin, to nobody, or to
\* a createPlugin that failed.
THEOREM NothingLeftBehind == Spec => []NoResidue
<1>1. IInv => NoResidue
  BY DEF IInv, MgrInv, CurInv, WritersInv, MayHaveWriters, FailedCreate, NoResidue
<1> QED
  BY <1>1, Invariance, PTL

-----------------------------------------------------------------------------
(* loadDirectory and scan.                                                 *)

\* From the check of a library's path until its plugin is loaded, no loaded plugin
\* is from that library.
DiscoveryInv ==
    IsDiscovery =>
        /\ mpc = "open" => \A q \in loaded : pathOf[q] # path
        /\ mpc \in LoadingPcs => \A q \in loaded : pathOf[q] # pathOf[cur]

\* A step that neither loads nor opens keeps what was checked.
LEMMA DiscoveryKeeps ==
  ASSUME DiscoveryInv, loaded' \subseteq loaded, UNCHANGED pathOf,
         IsDiscovery' /\ mpc' = "open" => IsDiscovery /\ mpc = "open" /\ path' = path,
         IsDiscovery' /\ mpc' \in LoadingPcs =>
             IsDiscovery /\ mpc \in LoadingPcs /\ cur' = cur
  PROVE  DiscoveryInv'
BY DEF DiscoveryInv, LoadingPcs

LEMMA NextDiscovery ==
  ASSUME Base, DiscoveryInv, [Next]_vars
  PROVE  DiscoveryInv'
<1> USE DEF Goto, Finish, LoadEnds, StartEnds, LoadingPcs
<1>1. CASE BeginOperation
  BY <1>1, DiscoveryKeeps DEF BeginOperation, BeginLoad, BeginLoadDirectory, BeginScan,
     BeginStartAllOrStopAll, BeginUnload, BeginReload, BeginDestructor, IdleWith,
     IsDiscovery
<1>2. CASE LoopStep
  <2>1. CASE NextFile
    BY <2>1 DEF NextFile, DiscoveryInv, IsDiscovery
  <2>2. CASE NextPlugin \/ NextUnload \/ LoopEnds
    BY <2>2, DiscoveryKeeps DEF NextPlugin, NextUnload, LoopEnds, IsDiscovery
  <2>3. CASE StartCalls \/ StopReturns \/ \E ok \in BOOLEAN : StartReturns(ok)
    BY <2>3, DiscoveryKeeps DEF StartCalls, StartReturns, StopReturns, IsDiscovery
  <2> QED
    BY <1>2, <2>1, <2>2, <2>3 DEF LoopStep
<1>3. CASE LoadStep
  <2>1. CASE OpenAccepted
    <3>1. /\ nextOwner \in Incarnation /\ cur' = nextOwner /\ nextOwner \notin loaded
          /\ pathOf' = [pathOf EXCEPT ![nextOwner] = path]
          /\ loaded' = loaded /\ op' = op /\ mpc = "open" /\ mpc' = "create"
          /\ pathOf \in [Incarnation -> Paths \cup {NoPath}]
          /\ loaded \subseteq Incarnation
      BY <2>1 DEF OpenAccepted, CreateOwner, Base, HostInv, HostTypeOK, MgrInv,
         MgrTypeOK, CurInv, Incarnation, OwnerId
    <3>2. IsDiscovery => \A q \in loaded : pathOf[q] # path
      BY <3>1 DEF DiscoveryInv
    <3> QED
      BY <3>1, <3>2 DEF DiscoveryInv, IsDiscovery
  <2>2. CASE InitSucceeds
    BY <2>2 DEF InitSucceeds, DiscoveryInv, IsDiscovery
  <2>3. CASE LoadStep /\ ~OpenAccepted /\ ~InitSucceeds
    BY <2>3, DiscoveryKeeps DEF LoadStep, OpenRejected, CreateSucceeds, CreateFails,
       CreateCloses, InitFails, UndoDestroy, UndoRetire, UndoDrain, UndoClose, IsDiscovery
  <2> QED
    BY <1>3, <2>1, <2>2, <2>3
<1>4. CASE UnloadStep
  <2>1. op \in {"unload", "reload", "destructor"}
    BY <1>4 DEF UnloadStep, UnloadRetires, UnloadDrains, UnloadStops, UnloadDestroys,
       UnloadCloses, Base, MgrInv, ControlInv, UnloadPcs
  <2>2. ~IsDiscovery'
    BY <1>4, <2>1 DEF UnloadStep, UnloadRetires, UnloadDrains, UnloadStops,
       UnloadDestroys, UnloadCloses, IsDiscovery
  <2> QED
    BY <2>2 DEF DiscoveryInv
<1>5. CASE PluginRegisters \/ (\E t \in Threads : Write(t)) \/ UNCHANGED vars
  <2>1. UNCHANGED managerVars
    BY <1>5 DEF PluginRegisters, Write, vars
  <2> QED
    BY <2>1, DiscoveryKeeps DEF managerVars, IsDiscovery
<1> QED
  BY <1>1, <1>2, <1>3, <1>4, <1>5 DEF Next, ManagerStep

\* For any directory and whatever was loaded, unloaded and reloaded before: discovery
\* brings up no library a second time.
THEOREM DiscoveryIsOnce == Spec => DiscoveryLoadsOnce
<1>1. Init => DiscoveryInv
  BY DEF Init, DiscoveryInv, IsDiscovery
<1>2. Base /\ DiscoveryInv /\ [Next]_vars =>
        [IsDiscovery => \A o \in loaded' \ loaded, q \in loaded : pathOf[o] # pathOf[q]]_vars
  <2> SUFFICES ASSUME DiscoveryInv, Next, IsDiscovery,
                      NEW o \in loaded' \ loaded, NEW q \in loaded
               PROVE  pathOf[o] # pathOf[q]
    OBVIOUS
  <2>1. InitSucceeds
    BY DEF Next, ManagerStep, BeginOperation, LoopStep, LoadStep, UnloadStep,
       BeginLoad, BeginLoadDirectory, BeginScan, BeginStartAllOrStopAll, BeginUnload,
       BeginReload, BeginDestructor, NextFile, NextPlugin, NextUnload, LoopEnds,
       StartCalls, StartReturns, StopReturns, OpenRejected, OpenAccepted,
       CreateSucceeds, CreateFails, CreateCloses, InitFails, UndoDestroy, UndoRetire,
       UndoDrain, UndoClose, UnloadRetires, UnloadDrains, UnloadStops, UnloadDestroys,
       UnloadCloses, PluginRegisters, Write, managerVars
  <2>2. o = cur /\ mpc = "init"
    BY <2>1 DEF InitSucceeds
  <2> QED
    BY <2>2 DEF DiscoveryInv, LoadingPcs
<1> QED
  BY <1>1, <1>2, NextDiscovery, BaseInvariance, PTL DEF Spec, DiscoveryLoadsOnce

-----------------------------------------------------------------------------
(* PluginManager implements HotUnload.                                      *)

\* What the callers see depends on what is left of each incarnation alone.
LEMMA PhaseIs ==
  ASSUME NEW o \in Incarnation, MgrTypeOK
  PROVE  /\ AbsPhase[o] = "absent" <=> life[o] = "none"
         /\ AbsPhase[o] = "coming" <=> life[o] = "open"
         /\ AbsPhase[o] = "abandoned" <=> life[o] = "refused"
         /\ AbsPhase[o] = "present" <=> life[o] \in {"alive", "destroyed"}
         /\ AbsPhase[o] = "gone" <=> life[o] = "closed"
<1>1. life[o] \in {"none", "open", "refused", "alive", "destroyed", "closed"}
  BY DEF MgrTypeOK
<1> QED
  BY <1>1 DEF AbsPhase

\* Where calls may be, a caller may enter.
LEMMA CalledIsPresent ==
  ASSUME IInv, NEW o \in MayHaveCalls
  PROVE  o \in Incarnation /\ o # 0 /\ AbsPhase[o] \in {"coming", "present", "abandoned"}
BY HostAssumption, CalledIsOpen, PhaseIs DEF IInv, MgrInv, Incarnation

\* A step that gives one incarnation another phase is a step of HotUnload.
LEMMA PhaseTurns ==
  ASSUME MgrTypeOK, NEW o \in Incarnation,
         NEW x \in {"none", "open", "refused", "alive", "destroyed", "closed"},
         life' = [life EXCEPT ![o] = x], UNCHANGED writeVars
  PROVE  /\ life[o] = "none" /\ x = "open" => Abstract!Appear(o)
         /\ life[o] = "open" /\ x = "alive" => Abstract!Arrive(o)
         /\ life[o] = "open" /\ x = "refused" => Abstract!Abandon(o)
         /\ life[o] = "destroyed" /\ x = "closed" =>
                Abstract!Turns(o, "present", "gone")
         /\ life[o] = "alive" /\ x = "destroyed" => UNCHANGED Abstract!abstractVars
<1>1. AbsInside' = AbsInside
  BY DEF AbsInside, writeVars
<1>2. MgrTypeOK => life \in [Incarnation ->
          {"none", "open", "refused", "alive", "destroyed", "closed"}]
  BY DEF MgrTypeOK
<1>3. ASSUME NEW ph \in {"coming", "abandoned", "present", "gone"},
             CASE x = "open" -> ph = "coming" [] x = "refused" -> ph = "abandoned"
               [] x \in {"alive", "destroyed"} -> ph = "present"
               [] x = "closed" -> ph = "gone" [] x = "none" -> FALSE
      PROVE  AbsPhase' = [AbsPhase EXCEPT ![o] = ph]
  BY <1>2, <1>3 DEF AbsPhase
<1>4. life[o] = "alive" /\ x = "destroyed" => AbsPhase' = AbsPhase
  BY <1>2 DEF AbsPhase
<1> QED
  BY <1>1, <1>3, <1>4, PhaseIs
     DEF Abstract!Appear, Abstract!Arrive, Abstract!Abandon, Abstract!Turns,
         Abstract!abstractVars

\* The close of a library is a Go: nobody is inside any more.
LEMMA CloseIsGo ==
  ASSUME IInv, cur \in Incarnation, cur \notin MayHaveCalls,
         life[cur] = "destroyed",
         life' = [life EXCEPT ![cur] = "closed"], UNCHANGED writeVars
  PROVE  Abstract!Go(cur)
<1>1. \A t \in Threads : AbsInside[t] # cur
  BY HostAssumption DEF AbsInside, IInv, CallsInv, Incarnation
<1>2. Abstract!Turns(cur, "present", "gone")
  BY PhaseTurns DEF IInv, MgrInv
<1> QED
  BY <1>1, <1>2 DEF Abstract!Go

\* Every step of an operation is an Appear, a Go or nothing to the callers.
LEMMA OperationRefines ==
  ASSUME IInv, BeginOperation \/ ManagerStep
  PROVE  Abstract!Next \/ UNCHANGED Abstract!abstractVars
<1> USE DEF SetActiveOwner
<1>1. UNCHANGED writeVars
  BY OperationHost DEF IInv, Base
<1>2. AbsInside' = AbsInside
  BY <1>1 DEF AbsInside, writeVars
<1>3. CASE OpenAccepted
  <2>1. nextOwner \in Incarnation /\ life[nextOwner] = "none"
    BY <1>3, HostAssumption DEF OpenAccepted, CreateOwner, Incarnation, IInv,
       HostInv, HostTypeOK, MgrInv, LifeInv
  <2>2. life' = [life EXCEPT ![nextOwner] = "open"]
    BY <1>3 DEF OpenAccepted
  <2>3. Abstract!Appear(nextOwner)
    BY <1>1, <2>1, <2>2, PhaseTurns DEF IInv, MgrInv
  <2> QED
    BY <2>1, <2>3 DEF Abstract!Next
<1>4. CASE UndoClose \/ UnloadCloses
  <2>1. cur \in Incarnation /\ cur \notin MayHaveCalls /\ life[cur] = "destroyed"
    BY <1>4 DEF UndoClose, UnloadCloses, IInv, MgrInv, MgrTypeOK,
       CurInv, LifeInv, MayHaveCalls, FailedCreate, LoadingPcs, LoadedPcs
  <2>2. life' = [life EXCEPT ![cur] = "closed"]
    BY <1>4 DEF UndoClose, UnloadCloses
  <2> QED
    BY <1>1, <2>1, <2>2, CloseIsGo DEF Abstract!Next
<1>5. CASE CreateSucceeds \/ CreateCloses \/ UndoDestroy \/ UnloadDestroys
  <2>1. /\ cur \in Incarnation
        /\ CreateSucceeds \/ CreateCloses => life[cur] = "open"
        /\ UndoDestroy \/ UnloadDestroys => life[cur] = "alive"
    BY <1>5 DEF CreateSucceeds, CreateCloses, UndoDestroy, UnloadDestroys, IInv, MgrInv,
       MgrTypeOK, CurInv, LifeInv, LoadingPcs, LoadedPcs
  <2>2. CASE CreateSucceeds
    <3>1. life' = [life EXCEPT ![cur] = "alive"]
      BY <2>2 DEF CreateSucceeds
    <3>2. Abstract!Arrive(cur)
      BY <1>1, <2>1, <2>2, <3>1, PhaseTurns DEF IInv, MgrInv
    <3> QED
      BY <2>1, <3>2 DEF Abstract!Next
  <2>3. CASE CreateCloses
    <3>1. life' = [life EXCEPT ![cur] = "refused"]
      BY <2>3 DEF CreateCloses
    <3>2. Abstract!Abandon(cur)
      BY <1>1, <2>1, <2>3, <3>1, PhaseTurns DEF IInv, MgrInv
    <3> QED
      BY <2>1, <3>2 DEF Abstract!Next
  <2>4. CASE UndoDestroy \/ UnloadDestroys
    <3>1. life' = [life EXCEPT ![cur] = "destroyed"]
      BY <2>4 DEF UndoDestroy, UnloadDestroys
    <3> QED
      BY <1>1, <2>1, <2>4, <3>1, PhaseTurns DEF IInv, MgrInv
  <2> QED
    BY <1>5, <2>2, <2>3, <2>4
<1>6. CASE UNCHANGED life
  BY <1>2, <1>6 DEF AbsPhase, Abstract!abstractVars
<1>7. \/ OpenAccepted
      \/ UndoClose \/ UnloadCloses
      \/ CreateSucceeds \/ CreateCloses \/ UndoDestroy \/ UnloadDestroys
      \/ UNCHANGED life
  <2>1. CASE BeginOperation
    BY <2>1 DEF BeginOperation, BeginLoad, BeginLoadDirectory, BeginScan,
       BeginStartAllOrStopAll, BeginUnload, BeginReload, BeginDestructor
  <2>2. CASE LoadStep
    BY <2>2 DEF LoadStep, OpenRejected, CreateFails, InitSucceeds, InitFails,
       UndoRetire, UndoDrain
  <2>3. CASE LoopStep
    BY <2>3 DEF LoopStep, NextFile, NextPlugin, NextUnload, LoopEnds,
       StartCalls, StartReturns, StopReturns
  <2>4. CASE UnloadStep
    BY <2>4 DEF UnloadStep, UnloadRetires, UnloadDrains, UnloadStops
  <2> QED
    BY <2>1, <2>2, <2>3, <2>4 DEF ManagerStep
<1> QED
  BY <1>3, <1>4, <1>5, <1>6, <1>7

\* Every step of write() is an Enter, a Leave or nothing.
LEMMA WriteRefines ==
  ASSUME IInv, NEW t \in Threads, Write(t)
  PROVE  Abstract!Next \/ UNCHANGED Abstract!abstractVars
<1>1. AbsPhase' = AbsPhase
  BY DEF Write, managerVars, AbsPhase
<1>2. wpc \in [Threads -> {"idle", "handler", "returned"}]
      /\ wreg \in [Threads -> WriteReg \cup {NoReg}]
  BY DEF IInv, HostInv, HostTypeOK
<1>3. ASSUME NEW n \in Names, WriteSelect(t, n)
      PROVE  Abstract!Next \/ UNCHANGED Abstract!abstractVars
  <2>1. PICK r \in writers : wreg' = [wreg EXCEPT ![t] = r]
    BY <1>3 DEF WriteSelect, Longest, Matching
  <2>2. wpc[t] = "idle" /\ wpc' = [wpc EXCEPT ![t] = "handler"]
    BY <1>3 DEF WriteSelect
  <2>3. r \in WriteReg /\ (r.owner # 0 => r.owner \in MayHaveCalls)
    BY DEF IInv, HostInv, HostTypeOK, WritersInv, MayHaveWriters, MayHaveCalls
  <2>4. CASE r.owner = r.ctx
    <3>1. r.ctx \in MayHaveCalls
      BY <2>3, <2>4, HostAssumption, ManagerAssumption DEF WriteReg
    <3>2. r.ctx \in Incarnation /\ AbsPhase[r.ctx] \in {"coming", "present", "abandoned"}
      BY <3>1, CalledIsPresent
    <3>3. AbsInside[t] = 0 /\ AbsInside' = [AbsInside EXCEPT ![t] = r.ctx]
      BY <1>2, <2>1, <2>2, <2>4 DEF AbsInside
    <3>4. Abstract!Enter(t, r.ctx)
      BY <1>1, <3>2, <3>3 DEF Abstract!Enter
    <3> QED
      BY <3>2, <3>4 DEF Abstract!Next
  <2>5. CASE r.owner # r.ctx
    <3>1. AbsInside' = AbsInside
      BY <1>2, <2>1, <2>2, <2>5 DEF AbsInside
    <3> QED
      BY <1>1, <3>1 DEF Abstract!abstractVars
  <2> QED
    BY <2>4, <2>5
<1>4. CASE HandlerReturn(t)
  <2>1. wpc[t] = "handler" /\ wpc' = [wpc EXCEPT ![t] = "returned"] /\ wreg' = wreg
    BY <1>4 DEF HandlerReturn
  <2>2. CASE wreg[t].owner = wreg[t].ctx
    <3>1. wreg[t].ctx # 0
      BY <1>2, <2>1, <2>2, HostAssumption, ManagerAssumption DEF IInv, HostInv, HostTypeOK, WriteReg
    <3>2. AbsInside[t] # 0
      BY <2>1, <2>2, <3>1 DEF AbsInside
    <3>3. AbsInside' = [AbsInside EXCEPT ![t] = 0]
      BY <1>2, <2>1 DEF AbsInside
    <3>4. Abstract!Leave(t)
      BY <1>1, <3>2, <3>3 DEF Abstract!Leave
    <3> QED
      BY <3>4 DEF Abstract!Next
  <2>3. CASE wreg[t].owner # wreg[t].ctx
    <3>1. AbsInside' = AbsInside
      BY <1>2, <2>1, <2>3 DEF AbsInside
    <3> QED
      BY <1>1, <3>1 DEF Abstract!abstractVars
  <2> QED
    BY <2>2, <2>3
<1>5. CASE WriteDone(t)
  <2>1. AbsInside' = AbsInside
    BY <1>2, <1>5 DEF WriteDone, AbsInside
  <2> QED
    BY <1>1, <2>1 DEF Abstract!abstractVars
<1> QED
  BY <1>3, <1>4, <1>5 DEF Write, HostWrite

\* Step simulation: to the writing threads in handlers that plugins registered for
\* themselves, loads, failed loads, unloads and reloads are the abstract life of a
\* plugin, whenever plugins register writers.
THEOREM RefinesHotUnload == Spec => Abstract!SafetySpec
<1>1. Init => Abstract!Init
  BY DEF Init, HostInit, AbsPhase, AbsInside, Abstract!Init
<1>2. IInv /\ [Next]_vars => [Abstract!Next]_(Abstract!abstractVars)
  <2> SUFFICES ASSUME IInv, [Next]_vars
               PROVE  Abstract!Next \/ UNCHANGED Abstract!abstractVars
    OBVIOUS
  <2>1. CASE BeginOperation \/ ManagerStep
    BY <2>1, OperationRefines
  <2>2. CASE PluginRegisters
    BY <2>2 DEF PluginRegisters, managerVars, AbsPhase, AbsInside,
       Abstract!abstractVars
  <2>3. CASE \E t \in Threads : Write(t)
    BY <2>3, WriteRefines
  <2>4. CASE UNCHANGED vars
    BY <2>4 DEF vars, hostVars, managerVars, AbsPhase, AbsInside,
       Abstract!abstractVars
  <2> QED
    BY <2>1, <2>2, <2>3, <2>4 DEF Next
<1> QED
  BY <1>1, <1>2, Invariance, PTL DEF Spec, Abstract!SafetySpec
=============================================================================
