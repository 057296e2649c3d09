---------------------------- MODULE PluginManager ----------------------------
(***************************************************************************)
(* core/plugin_manager/plugin_manager.cpp composed with PluginHost: the    *)
(* life of plugins (load, start, stop, hot unload, reload, rescan) while   *)
(* other threads keep calling PluginHost::write.                           *)
(*                                                                         *)
(* mutex_ serialises the management operations, so one operation at a time *)
(* is in progress: `op' is its name, `mpc' the call it is in.  A step ends *)
(* where another thread can see the difference: at each critical section   *)
(* of PluginHost and at each call into plugin code.  Consecutive critical  *)
(* sections between which no other thread's step could have another effect *)
(* are one step (createOwner and setActiveOwner of a load, for example).   *)
(*                                                                         *)
(* Every load attempt that reaches createOwner is an incarnation, named by *)
(* its owner id.  Ids grow, and plugins_ is only appended to, so plugins_  *)
(* is the set `loaded' in the order of the ids: the first match of         *)
(* findIndexLocked is the least id, plugins_.back() the greatest.          *)
(***************************************************************************)
EXTENDS PluginHost

CONSTANTS Paths,            \* plugin libraries on disk
          Ids,              \* plugin ids
          IdOf,             \* the id each library reports
          CreateRegisters,  \* may plugin code register a writer in createPlugin?
          LateRegister      \* ... from its own threads and handlers, any time?

ASSUME ManagerAssumption ==
    /\ Ctxs = 1 .. MaxOwner
    /\ IdOf \in [Paths -> Ids]
    /\ CreateRegisters \in BOOLEAN
    /\ LateRegister \in BOOLEAN

VARIABLES loaded,    \* plugins_
          started,   \* those with Loaded::started
          pathOf,    \* Loaded::path of every incarnation
          life,      \* what is left of every incarnation's library and instance:
                     \* "refused" and "closed" are over, the library is closed
          op,        \* the management operation that holds mutex_
          mpc,       \* where it is
          cur,       \* the incarnation it works on
          path,      \* the library it loads
          restart,   \* wasStarted of reload
          files,     \* directory entries discoverLocked has still to visit
          todo,      \* plugins startAll or stopAll has still to visit
          dirSet     \* pluginDir_ is not empty

managerVars == <<loaded, started, pathOf, life, op, mpc, cur, path, restart,
                 files, todo, dirSet>>
vars == <<hostVars, managerVars>>

Incarnation == 1 .. MaxOwner
NoPath == "no path"

Ops == {"none", "load", "loadDirectory", "scan", "startAll", "stopAll",
        "unload", "reload", "destructor"}

MgrPcs == {"idle", "next", "open", "create", "createClose", "init",
           "undoDestroy", "undoRetire", "undoDrain", "undoClose",
           "toStart", "start", "stopping",
           "retire", "drain", "stop", "destroy", "close", "dead"}

Init ==
    /\ HostInit
    /\ loaded = {} /\ started = {}
    /\ pathOf = [o \in Incarnation |-> NoPath]
    /\ life = [o \in Incarnation |-> "none"]
    /\ op = "none" /\ mpc = "idle" /\ cur = 0 /\ path = NoPath
    /\ restart = FALSE /\ files = {} /\ todo = {} /\ dirSet = FALSE

-----------------------------------------------------------------------------
(* Control flow between the *Locked helpers.                               *)

\* The operation returns and releases mutex_.
Finish ==
    /\ op' = "none" /\ mpc' = "idle" /\ cur' = 0 /\ path' = NoPath
    /\ restart' = FALSE

Goto(pc) == mpc' = pc /\ UNCHANGED <<op, cur, path, restart>>

IsDiscovery == op \in {"loadDirectory", "scan"}

\* What load, discoverLocked and reload do with the result of loadLocked.
LoadEnds(ok) ==
    IF ok /\ (op = "scan" \/ (op = "reload" /\ restart)) THEN Goto("toStart")
    ELSE IF IsDiscovery THEN Goto("next")
    ELSE Finish

StartEnds == IF op \in {"scan", "startAll"} THEN Goto("next") ELSE Finish

-----------------------------------------------------------------------------
(* The operations: taking mutex_ and the first decision.                   *)

IdleWith(name) == mpc = "idle" /\ op' = name

BeginLoad(p) ==
    /\ IdleWith("load") /\ mpc' = "open" /\ path' = p
    /\ UNCHANGED <<loaded, started, pathOf, life, cur, restart, files, todo, dirSet>>
    /\ UNCHANGED hostVars

\* The directory holds the libraries ps; the iterator visits them in any order.
BeginLoadDirectory(ps) ==
    /\ IdleWith("loadDirectory") /\ mpc' = "next"
    /\ files' = ps /\ dirSet' = TRUE
    /\ UNCHANGED <<loaded, started, pathOf, life, cur, path, restart, todo>>
    /\ UNCHANGED hostVars

BeginScan(ps) ==
    /\ dirSet
    /\ IdleWith("scan") /\ mpc' = "next" /\ files' = ps
    /\ UNCHANGED <<loaded, started, pathOf, life, cur, path, restart, todo, dirSet>>
    /\ UNCHANGED hostVars

BeginStartAllOrStopAll ==
    /\ \E name \in {"startAll", "stopAll"} : IdleWith(name)
    /\ mpc' = "next" /\ todo' = loaded
    /\ UNCHANGED <<loaded, started, pathOf, life, cur, path, restart, files, dirSet>>
    /\ UNCHANGED hostVars

\* findIndexLocked: the first loaded plugin with this id.
FoundIn(id) == {o \in loaded : IdOf[pathOf[o]] = id}

FindsPlugin(id, o) == o \in FoundIn(id) /\ \A q \in FoundIn(id) : o <= q

BeginUnload(id) ==
    /\ IdleWith("unload") /\ mpc' = "retire"
    /\ \E o \in loaded : FindsPlugin(id, o) /\ cur' = o
    /\ UNCHANGED <<loaded, started, pathOf, life, path, restart, files, todo, dirSet>>
    /\ UNCHANGED hostVars

BeginReload(id) ==
    /\ IdleWith("reload") /\ mpc' = "retire"
    /\ \E o \in loaded :
         /\ FindsPlugin(id, o)
         /\ cur' = o /\ path' = pathOf[o] /\ restart' = (o \in started)
    /\ UNCHANGED <<loaded, started, pathOf, life, files, todo, dirSet>>
    /\ UNCHANGED hostVars

BeginDestructor ==
    /\ IdleWith("destructor") /\ mpc' = "next"
    /\ UNCHANGED <<loaded, started, pathOf, life, cur, path, restart, files, todo, dirSet>>
    /\ UNCHANGED hostVars

-----------------------------------------------------------------------------
(* The loops.                                                              *)

NextFile_NoDedup ==
    /\ mpc = "next" /\ IsDiscovery
    /\ \E p \in files :
         /\ files' = files \ {p}
         /\ mpc' = "open" /\ path' = p
    /\ UNCHANGED <<loaded, started, pathOf, life, op, cur, restart, todo, dirSet>>
    /\ UNCHANGED hostVars

\* discoverLocked: libraries whose path is loaded already are skipped.
NextFile ==
    /\ mpc = "next" /\ IsDiscovery
    /\ \E p \in files :
         /\ files' = files \ {p}
         /\ IF \E o \in loaded : pathOf[o] = p
            THEN UNCHANGED <<mpc, path>>
            ELSE mpc' = "open" /\ path' = p
    /\ UNCHANGED <<loaded, started, pathOf, life, op, cur, restart, todo, dirSet>>
    /\ UNCHANGED hostVars

\* startAll starts what is not started, stopAll stops what is, in load order.
NextPlugin ==
    /\ mpc = "next" /\ op \in {"startAll", "stopAll"}
    /\ \E o \in todo :
         /\ \A q \in todo : o <= q
         /\ todo' = todo \ {o}
         /\ cur' = o
         /\ mpc' = IF op = "startAll"
                   THEN IF o \in started THEN "next" ELSE "toStart"
                   ELSE IF o \in started THEN "stopping" ELSE "next"
    /\ UNCHANGED <<loaded, started, pathOf, life, op, path, restart, files, dirSet>>
    /\ UNCHANGED hostVars

\* The destructor unloads from the back.
NextUnload ==
    /\ mpc = "next" /\ op = "destructor" /\ loaded # {}
    /\ \E o \in loaded : (\A q \in loaded : q <= o) /\ cur' = o
    /\ mpc' = "retire"
    /\ UNCHANGED <<loaded, started, pathOf, life, op, path, restart, files, todo, dirSet>>
    /\ UNCHANGED hostVars

LoopEnds ==
    /\ mpc = "next"
    /\ \/ IsDiscovery /\ files = {} /\ Finish
       \/ op \in {"startAll", "stopAll"} /\ todo = {} /\ Finish
       \/ op = "destructor" /\ loaded = {} /\ Goto("dead")
    /\ UNCHANGED <<loaded, started, pathOf, life, files, todo, dirSet>>
    /\ UNCHANGED hostVars

-----------------------------------------------------------------------------
(* loadLocked.                                                             *)

\* The library does not open, is no plugin, its getPluginInfo throws or its
\* ABI version is out of range: it is closed again and nothing has changed.
OpenRejected ==
    /\ mpc = "open"
    /\ LoadEnds(FALSE)
    /\ UNCHANGED <<loaded, started, pathOf, life, files, todo, dirSet>>
    /\ UNCHANGED hostVars

OpenAccepted ==
    /\ mpc = "open"
    /\ CreateOwner
    /\ SetActiveOwner(nextOwner)
    /\ cur' = nextOwner
    /\ pathOf' = [pathOf EXCEPT ![nextOwner] = path]
    /\ life' = [life EXCEPT ![nextOwner] = "open"]
    /\ mpc' = "create"
    /\ UNCHANGED <<loaded, started, op, path, restart, files, todo, dirSet>>
    /\ UNCHANGED <<writers, inflight, wpc, wreg>>

CreateSucceeds ==
    /\ mpc = "create"
    /\ life' = [life EXCEPT ![cur] = "alive"]
    /\ Goto("init")
    /\ UNCHANGED <<loaded, started, pathOf, files, todo, dirSet>>
    /\ UNCHANGED hostVars

\* An error path that forgets removeOwner.
CreateFails_LeaksOwner ==
    /\ mpc = "create"
    /\ SetActiveOwner(0)
    /\ owners' = owners
    /\ Goto("createClose")
    /\ UNCHANGED <<loaded, started, pathOf, life, files, todo, dirSet>>
    /\ UNCHANGED <<writers, nextOwner, inflight, wpc, wreg>>

\* createPlugin fails, throws or leaves the vtable incomplete.
CreateFails ==
    /\ mpc = "create"
    /\ SetActiveOwner(0)
    /\ RemoveOwner(cur)
    /\ Goto("createClose")
    /\ UNCHANGED <<loaded, started, pathOf, life, files, todo, dirSet>>
    /\ UNCHANGED <<writers, nextOwner, inflight, wpc, wreg>>

CreateCloses ==
    /\ mpc = "createClose"
    /\ life' = [life EXCEPT ![cur] = "refused"]
    /\ LoadEnds(FALSE)
    /\ UNCHANGED <<loaded, started, pathOf, files, todo, dirSet>>
    /\ UNCHANGED hostVars

InitSucceeds ==
    /\ mpc = "init"
    /\ SetActiveOwner(0)
    /\ loaded' = loaded \cup {cur}
    /\ LoadEnds(TRUE)
    /\ UNCHANGED <<started, pathOf, life, files, todo, dirSet>>
    /\ UNCHANGED <<writers, owners, nextOwner, inflight, wpc, wreg>>

InitFails ==
    /\ mpc = "init"
    /\ Goto("undoDestroy")
    /\ UNCHANGED <<loaded, started, pathOf, life, files, todo, dirSet>>
    /\ UNCHANGED hostVars

\* After a failed init the instance is destroyed first ...
UndoDestroy ==
    /\ mpc = "undoDestroy"
    /\ life' = [life EXCEPT ![cur] = "destroyed"]
    /\ Goto("undoRetire")
    /\ UNCHANGED <<loaded, started, pathOf, files, todo, dirSet>>
    /\ UNCHANGED hostVars

\* The clean-up forgets that init may have registered writers.
UndoRetire_KeepsWriters ==
    /\ mpc = "undoRetire"
    /\ SetActiveOwner(0)
    /\ Goto("undoDrain")
    /\ UNCHANGED <<loaded, started, pathOf, life, files, todo, dirSet>>
    /\ UNCHANGED <<writers, owners, nextOwner, inflight, wpc, wreg>>

\* ... then the writers init registered are withdrawn, ...
UndoRetire ==
    /\ mpc = "undoRetire"
    /\ SetActiveOwner(0)
    /\ RetireOwner(cur)
    /\ Goto("undoDrain")
    /\ UNCHANGED <<loaded, started, pathOf, life, files, todo, dirSet>>
    /\ UNCHANGED <<owners, nextOwner, inflight, wpc, wreg>>

\* ... their calls drained, ...
UndoDrain ==
    /\ mpc = "undoDrain"
    /\ Quiescent(cur)
    /\ Goto("undoClose")
    /\ UNCHANGED <<loaded, started, pathOf, life, files, todo, dirSet>>
    /\ UNCHANGED hostVars

\* ... and the library closed.
UndoClose ==
    /\ mpc = "undoClose"
    /\ RemoveOwner(cur)
    /\ life' = [life EXCEPT ![cur] = "closed"]
    /\ LoadEnds(FALSE)
    /\ UNCHANGED <<loaded, started, pathOf, files, todo, dirSet>>
    /\ UNCHANGED <<writers, activeOwner, nextOwner, inflight, wpc, wreg>>

-----------------------------------------------------------------------------
(* startLocked and the stop call of stopAll.                               *)

StartCalls ==
    /\ mpc = "toStart"
    /\ SetActiveOwner(cur)
    /\ Goto("start")
    /\ UNCHANGED <<loaded, started, pathOf, life, files, todo, dirSet>>
    /\ UNCHANGED <<writers, owners, nextOwner, inflight, wpc, wreg>>

StartReturns(ok) ==
    /\ mpc = "start"
    /\ SetActiveOwner(0)
    /\ started' = IF ok THEN started \cup {cur} ELSE started
    /\ StartEnds
    /\ UNCHANGED <<loaded, pathOf, life, files, todo, dirSet>>
    /\ UNCHANGED <<writers, owners, nextOwner, inflight, wpc, wreg>>

\* started is cleared whether or not stop succeeded.
StopReturns ==
    /\ mpc = "stopping"
    /\ started' = started \ {cur}
    /\ Goto("next")
    /\ UNCHANGED <<loaded, pathOf, life, files, todo, dirSet>>
    /\ UNCHANGED hostVars

-----------------------------------------------------------------------------
(* unloadLocked.                                                           *)

UnloadRetires ==
    /\ mpc = "retire"
    /\ RetireOwner(cur)
    /\ Goto("drain")
    /\ UNCHANGED <<loaded, started, pathOf, life, files, todo, dirSet>>
    /\ UNCHANGED <<owners, activeOwner, nextOwner, inflight, wpc, wreg>>

UnloadDrains_NoWait ==
    /\ mpc = "drain"
    /\ Goto(IF cur \in started THEN "stop" ELSE "destroy")
    /\ UNCHANGED <<loaded, started, pathOf, life, files, todo, dirSet>>
    /\ UNCHANGED hostVars

UnloadDrains ==
    /\ mpc = "drain"
    /\ Quiescent(cur)
    /\ Goto(IF cur \in started THEN "stop" ELSE "destroy")
    /\ UNCHANGED <<loaded, started, pathOf, life, files, todo, dirSet>>
    /\ UNCHANGED hostVars

UnloadStops ==
    /\ mpc = "stop"
    /\ started' = started \ {cur}
    /\ Goto("destroy")
    /\ UNCHANGED <<loaded, pathOf, life, files, todo, dirSet>>
    /\ UNCHANGED hostVars

UnloadDestroys ==
    /\ mpc = "destroy"
    /\ life' = [life EXCEPT ![cur] = "destroyed"]
    /\ Goto("close")
    /\ UNCHANGED <<loaded, started, pathOf, files, todo, dirSet>>
    /\ UNCHANGED hostVars

\* After the unload: unload returns, reload loads the same path again, the
\* destructor goes on with the next plugin.
UnloadCloses ==
    /\ mpc = "close"
    /\ RemoveOwner(cur)
    /\ life' = [life EXCEPT ![cur] = "closed"]
    /\ loaded' = loaded \ {cur}
    /\ CASE op = "unload" -> Finish
         [] op = "reload" -> Goto("open")
         [] op = "destructor" -> Goto("next")
    /\ UNCHANGED <<started, pathOf, files, todo, dirSet>>
    /\ UNCHANGED <<writers, activeOwner, nextOwner, inflight, wpc, wreg>>

-----------------------------------------------------------------------------
(* Plugin code and the writing threads.                                    *)

\* When plugin code of incarnation o may call register_writer.
MayRegister(o) ==
    \/ cur = o /\ mpc \in {"init", "start"}
    \/ CreateRegisters /\ cur = o /\ mpc = "create"
    \/ LateRegister /\ life[o] = "alive"

PluginRegisters ==
    /\ \E o \in Incarnation, p \in Prefixes : MayRegister(o) /\ RegisterWriter(p, o)
    /\ UNCHANGED <<owners, activeOwner, nextOwner, inflight, wpc, wreg>>
    /\ UNCHANGED managerVars

Write(t) == HostWrite(t) /\ UNCHANGED managerVars

-----------------------------------------------------------------------------

\* A client takes mutex_ for a new operation.
BeginOperation ==
    \/ \E p \in Paths : BeginLoad(p)
    \/ \E ps \in SUBSET Paths : BeginLoadDirectory(ps) \/ BeginScan(ps)
    \/ BeginStartAllOrStopAll
    \/ \E id \in Ids : BeginUnload(id) \/ BeginReload(id)
    \/ BeginDestructor

LoadStep ==
    \/ OpenRejected \/ OpenAccepted
    \/ CreateSucceeds \/ CreateFails \/ CreateCloses
    \/ InitSucceeds \/ InitFails
    \/ UndoDestroy \/ UndoRetire \/ UndoDrain \/ UndoClose

LoopStep ==
    \/ NextFile \/ NextPlugin \/ NextUnload \/ LoopEnds
    \/ StartCalls \/ (\E ok \in BOOLEAN : StartReturns(ok)) \/ StopReturns

UnloadStep ==
    \/ UnloadRetires \/ UnloadDrains \/ UnloadStops \/ UnloadDestroys
    \/ UnloadCloses

\* The operation in progress takes its next step.
ManagerStep == LoadStep \/ LoopStep \/ UnloadStep

Next ==
    \/ BeginOperation
    \/ ManagerStep
    \/ PluginRegisters
    \/ \E t \in Threads : Write(t)

\* The managing thread is scheduled, and the plugin calls it makes return; a
\* write() in progress returns.  Nothing forces a new operation or write.
Fairness ==
    /\ WF_vars(ManagerStep)
    /\ \A t \in Threads :
         WF_vars((HandlerReturn(t) \/ WriteDone(t)) /\ registryUnchanged
                 /\ UNCHANGED managerVars)

Spec == Init /\ [][Next]_vars /\ Fairness

-----------------------------------------------------------------------------
(* Properties.                                                             *)

MgrTypeOK ==
    /\ loaded \subseteq Incarnation /\ started \subseteq loaded
    /\ pathOf \in [Incarnation -> Paths \cup {NoPath}]
    /\ life \in [Incarnation ->
                    {"none", "open", "refused", "alive", "destroyed", "closed"}]
    /\ op \in Ops /\ mpc \in MgrPcs
    /\ cur \in OwnerId /\ path \in Paths \cup {NoPath}
    /\ restart \in BOOLEAN /\ dirSet \in BOOLEAN
    /\ files \subseteq Paths /\ todo \subseteq loaded
    /\ mpc = "idle" <=> op = "none"

\* The state of host and manager stays in its type, an operation is in progress
\* exactly when mutex_ is held, and no plugin is started that is not loaded.
TypeOK == HostTypeOK /\ MgrTypeOK

\* The incarnation whose code thread t is executing, if it is in a handler.
Executes(t, o) == wpc[t] = "handler" /\ wreg[t].ctx = o

\* What plugin_host.hpp says of write(), that it "never calls into the code of an
\* unloaded plugin": no handler runs in a library that has been closed.  It does not
\* hold of registrations that belong to another owner than the plugin they call into.
NoCallIntoClosedLibrary ==
    \A t \in Threads, o \in Incarnation :
        Executes(t, o) => life[o] \notin {"closed", "refused"}

\* ... in a handler that was registered for the owner of its own plugin, as what
\* createPlugin, init and start register is (OwnersAccounted).
ExecutesOwn(t, o) == Executes(t, o) /\ wreg[t].owner = o

\* The promise as it holds, whatever plugins register and when: write() runs no
\* handler a plugin registered for itself in a library that was closed by an unload, a
\* reload, the destructor or the clean-up after a failed init.  Nothing withdraws what
\* a createPlugin that then failed has registered: its library is "refused".
NoOwnedCallIntoClosedLibrary ==
    \A t \in Threads, o \in Incarnation :
        ExecutesOwn(t, o) => life[o] # "closed"

\* The steps in which loadLocked cleans up after a failed init.
UndoingInit(o) == cur = o /\ mpc \in {"undoRetire", "undoDrain", "undoClose"}

\* unloadLocked withdraws and drains before it destroys: no handler a plugin
\* registered for itself runs on an instance that has been destroyed.  After a failed
\* init the order is the other one, and a handler may run on what was destroyed.
NoCallOnUnloadedPlugin ==
    \A t \in Threads, o \in Incarnation :
        ExecutesOwn(t, o) =>
            life[o] \in {"open", "alive", "refused"} \/ UndoingInit(o)

\* The owners the host keeps are owner 0 and those of the plugins that are loaded
\* or in the middle of a load: no sequence of failing loads, reloads and unloads
\* leaks an OwnerState or drops one that is still needed.  And while createPlugin,
\* init or start of a plugin runs, registrations go to that plugin.
OwnersAccounted ==
    /\ owners = {0} \cup loaded \cup
                (IF mpc \in {"create", "init", "undoDestroy", "undoRetire",
                             "undoDrain", "undoClose"}
                 THEN {cur} ELSE {})
    /\ mpc \in {"create", "init", "start"} => RegisterOwner = cur

\* Between operations every registration belongs to a plugin that is loaded, unless it
\* was made for nobody (owner 0) or under a createPlugin that failed: a failed init, a
\* failed reload and an unload leave nothing behind.
NoResidue ==
    mpc \in {"idle", "dead"} =>
        /\ activeOwner = 0
        /\ \A r \in writers :
             r.owner \in loaded \/ r.owner = 0 \/ life[r.owner] = "refused"

\* loadDirectory and scan never bring up a second instance of a library that is
\* loaded, whatever happened between listing the directory and the load.
DiscoveryLoadsOnce ==
    [][IsDiscovery =>
          \A o \in loaded' \ loaded, q \in loaded : pathOf[o] # pathOf[q]]_vars

\* Every management operation ends: the drain is not starved by writes that keep
\* coming, and no error path forgets to leave.
OperationsEnd == mpc # "idle" ~> mpc \in {"idle", "dead"}

-----------------------------------------------------------------------------
(* Refinement of HotUnload: an incarnation is coming while createPlugin     *)
(* runs, present until its library is closed; a caller is inside it while   *)
(* it executes a handler that the incarnation registered for itself.        *)

AbsPhase ==
    [o \in Incarnation |->
        CASE life[o] = "none" -> "absent"
          [] life[o] = "open" -> "coming"
          [] life[o] = "refused" -> "abandoned"
          [] life[o] \in {"alive", "destroyed"} -> "present"
          [] life[o] = "closed" -> "gone"]

AbsInside ==
    [t \in Threads |->
        IF wpc[t] = "handler" /\ wreg[t].owner = wreg[t].ctx THEN wreg[t].ctx ELSE 0]

Abstract == INSTANCE HotUnload WITH
    Callers <- Threads, Incarnations <- Incarnation, Nobody <- 0,
    phase <- AbsPhase, inside <- AbsInside

\* Loads, failed loads, unloads and reloads racing with write() look to the
\* writing threads like the abstract life of a plugin.
ImplementsHotUnload == Abstract!Spec
=============================================================================
