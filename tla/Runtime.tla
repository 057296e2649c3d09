------------------------------- MODULE Runtime -------------------------------
(***************************************************************************)
(* core/main.cpp with runtime_engine.cpp: the order in which the process   *)
(* starts its parts and stops them, while everything is in motion.         *)
(*                                                                         *)
(* Five threads: main; the admin thread, whose command may unload or       *)
(* reload the plugin; the IRSP service thread, whose SET calls into the    *)
(* plugin; the plugin's own device thread and the heartbeat task, which    *)
(* push tags.  Inside the parts only what the threads share is kept: who   *)
(* holds which lock and who waits for whom; the other modules show what    *)
(* happens in between.  There is one plugin.                               *)
(***************************************************************************)
EXTENDS AdminServer

CONSTANT MaxLatePushes    \* bound: pushes that begin while stop() waits for the callback's lock

ASSUME RuntimeAssumption == MaxLatePushes \in Nat

Pushers == {"service", "device", "heartbeat"}

VARIABLES main,       \* where main() is
          plugin,     \* "absent", "loaded", "started", "stopping"
          routed,     \* it has a registration that may be routed to
          inflight,   \* its owner's counter
          mgr,        \* who holds PluginManager::mutex_: "free", "admin", "main"
          was,        \* reload(): wasStarted
          svc,        \* service thread: "off", "idle", "called", "returning" (with mutex_)
          irspStop,   \* IrspServer::running_ was taken back
          callback,   \* TagEngine::changeCallback_ is set
          push,       \* of a pusher: "none", "stored", "routing" (callbackMutex_ shared)
          late,       \* pushes counted against MaxLatePushes
          task        \* the heartbeat: "off", "on", "stopping"

pluginVars == <<plugin, routed, inflight, mgr, was>>
irspVars == <<svc, irspStop, callback, push, late>>
vars == <<adminVars, main, pluginVars, irspVars, task>>

Init ==
    /\ AdminInit
    /\ main = "boot"
    /\ plugin = "absent" /\ routed = FALSE /\ inflight = FALSE /\ mgr = "free" /\ was = FALSE
    /\ svc = "off" /\ irspStop = FALSE /\ callback = FALSE
    /\ push = [t \in Pushers |-> "none"] /\ late = 0
    /\ task = "off"

-----------------------------------------------------------------------------
(* TagEngine::write and routeTag, by whoever pushes.                       *)

MayPush(t) ==
    CASE t = "service" -> svc = "called"
      [] t = "device" -> plugin = "started"
      [] t = "heartbeat" -> task = "on"

\* The handler of a SET pushes once at most; the others when they want to.
PushBegins(t) ==
    /\ push[t] = "none" /\ MayPush(t)
    /\ main = "unregister" => late < MaxLatePushes
    /\ late' = IF main = "unregister" THEN late + 1 ELSE late
    /\ push' = [push EXCEPT ![t] = "stored"]
    /\ svc' = IF t = "service" THEN "returning" ELSE svc
    /\ UNCHANGED <<adminVars, main, pluginVars, irspStop, callback, task>>

PushLocks(t) ==
    /\ push[t] = "stored"
    /\ push' = [push EXCEPT ![t] = IF callback THEN "routing" ELSE "none"]
    /\ UNCHANGED <<adminVars, main, pluginVars, svc, irspStop, callback, late, task>>

MutexFree == svc \in {"off", "idle"}

PushRoutes(t) ==
    /\ push[t] = "routing"
    /\ MutexFree \/ t = "service"
    /\ push' = [push EXCEPT ![t] = "none"]
    /\ UNCHANGED <<adminVars, main, pluginVars, svc, irspStop, callback, late, task>>

-----------------------------------------------------------------------------
(* The IRSP service thread: a SET goes through RuntimeEngine::writeTag and *)
(* PluginHost::write to the plugin, with mutex_ held.                      *)

SetBegins ==
    /\ svc = "idle" /\ routed
    /\ svc' = "called" /\ inflight' = TRUE
    /\ UNCHANGED <<adminVars, main, plugin, routed, mgr, was>>
    /\ UNCHANGED <<irspStop, callback, push, late, task>>

\* After every callback serviceLoop() looks at running_.
Loops == svc' = IF irspStop THEN "off" ELSE "idle"

\* The counter is not taken back.
SetEnds_KeepsCount ==
    /\ svc \in {"called", "returning"} /\ push["service"] = "none"
    /\ Loops /\ UNCHANGED inflight
    /\ UNCHANGED <<adminVars, main, plugin, routed, mgr, was>>
    /\ UNCHANGED <<irspStop, callback, push, late, task>>

SetEnds ==
    /\ svc \in {"called", "returning"} /\ push["service"] = "none"
    /\ Loops /\ inflight' = FALSE
    /\ UNCHANGED <<adminVars, main, plugin, routed, mgr, was>>
    /\ UNCHANGED <<irspStop, callback, push, late, task>>

\* lws_service() returns: something has come in, or stop() has woken it.
ServiceExits ==
    /\ svc = "idle" /\ irspStop
    /\ svc' = "off"
    /\ UNCHANGED <<adminVars, main, pluginVars, irspStop, callback, push, late, task>>

-----------------------------------------------------------------------------
(* handleAdminCommand(), by the admin thread.                              *)

AdminGoesTo(p) ==
    /\ apc' = p
    /\ UNCHANGED <<platform, running, stopReq, listening, backlog, pipe, serving, client>>

\* LIST, a line that is no command, a command for an id that is not loaded, and a
\* SCAN that finds nothing new.
CommandChangesNothing ==
    /\ apc = "run" /\ mgr = "free"
    /\ AdminGoesTo("reply")
    /\ UNCHANGED <<main, pluginVars, irspVars, task>>

\* unloadLocked(): retireOwner().  For RELOAD the instance is loaded again.
CommandUnloads(reload) ==
    /\ apc = "run" /\ mgr = "free" /\ plugin # "absent"
    /\ AdminGoesTo(IF reload THEN "drain to load" ELSE "drain")
    /\ mgr' = "admin" /\ routed' = FALSE
    /\ was' = (plugin = "started")
    /\ UNCHANGED <<main, plugin, inflight, irspVars, task>>

\* waitQuiescent(); then the stop() of a started plugin tells its device thread to end.
UnloadDrained ==
    /\ apc \in {"drain", "drain to load"} /\ ~inflight
    /\ AdminGoesTo(IF apc = "drain" THEN "destroy" ELSE "destroy to load")
    /\ plugin' = IF plugin = "started" THEN "stopping" ELSE plugin
    /\ UNCHANGED <<main, routed, inflight, mgr, was, irspVars, task>>

\* stop() has joined the device thread; the instance is destroyed.
UnloadDestroys ==
    /\ apc \in {"destroy", "destroy to load"} /\ push["device"] = "none"
    /\ plugin' = "absent"
    /\ IF apc = "destroy" THEN AdminGoesTo("reply") /\ mgr' = "free"
                          ELSE AdminGoesTo("load") /\ UNCHANGED mgr
    /\ UNCHANGED <<main, routed, inflight, was, irspVars, task>>

\* SCAN finds the library of a plugin that was unloaded.
CommandScans ==
    /\ apc = "run" /\ mgr = "free" /\ plugin = "absent"
    /\ AdminGoesTo("load")
    /\ mgr' = "admin" /\ was' = TRUE
    /\ UNCHANGED <<main, plugin, routed, inflight, irspVars, task>>

CommandLoads(ok) ==
    /\ apc = "load"
    /\ plugin' = (IF ok THEN "loaded" ELSE "absent") /\ routed' = ok
    /\ IF ok /\ was THEN AdminGoesTo("start") /\ UNCHANGED mgr
                    ELSE AdminGoesTo("reply") /\ mgr' = "free"
    /\ UNCHANGED <<main, inflight, was, irspVars, task>>

CommandStarts(ok) ==
    /\ apc = "start"
    /\ plugin' = (IF ok THEN "started" ELSE "loaded")
    /\ AdminGoesTo("reply") /\ mgr' = "free"
    /\ UNCHANGED <<main, routed, inflight, was, irspVars, task>>

CommandStep ==
    \/ CommandChangesNothing \/ (\E reload \in BOOLEAN : CommandUnloads(reload)) \/ CommandScans
    \/ UnloadDrained \/ UnloadDestroys
    \/ \E ok \in BOOLEAN : CommandLoads(ok) \/ CommandStarts(ok)

-----------------------------------------------------------------------------
(* main(): the start.  Loading, starting and listening may fail, and the   *)
(* process goes on without.                                                *)

Boot ==
    /\ main = "boot"
    /\ main' = "load"
    /\ UNCHANGED <<adminVars, pluginVars, irspVars, task>>

LoadDirectory(ok) ==
    /\ main = "load"
    /\ main' = "startAll"
    /\ plugin' = (IF ok THEN "loaded" ELSE "absent") /\ routed' = ok
    /\ UNCHANGED <<adminVars, inflight, mgr, was, irspVars, task>>

StartAll(ok) ==
    /\ main = "startAll"
    /\ main' = "irsp"
    /\ plugin' = IF ok /\ plugin = "loaded" THEN "started" ELSE plugin
    /\ UNCHANGED <<adminVars, routed, inflight, mgr, was, irspVars, task>>

StartIrsp(ok) ==
    /\ main = "irsp"
    /\ main' = "admin"
    /\ svc' = (IF ok THEN "idle" ELSE "off") /\ callback' = ok
    /\ UNCHANGED <<adminVars, pluginVars, irspStop, push, late, task>>

StartAdmin ==
    /\ main = "admin"
    /\ main' = "ready" /\ task' = "on"
    /\ AdminStarts \/ AdminCannotStart
    /\ UNCHANGED <<pluginVars, irspVars>>

-----------------------------------------------------------------------------
(* main(): the end.                                                        *)

\* SIGINT or SIGTERM was caught.
SignalSeen ==
    /\ main = "ready"
    /\ main' = "stop admin"
    /\ UNCHANGED <<adminVars, pluginVars, irspVars, task>>

\* Asks the admin thread to end and does not wait until it has.
StopAdmin_NoJoin ==
    /\ main = "stop admin"
    /\ main' = "stop irsp"
    /\ IF running THEN AdminRequestsStop ELSE UNCHANGED adminVars
    /\ UNCHANGED <<pluginVars, irspVars, task>>

StopAdmin ==
    /\ main = "stop admin"
    /\ IF ~running THEN main' = "stop irsp" /\ UNCHANGED adminVars
       ELSE /\ main' = IF platform = "windows" THEN "knock" ELSE "join admin"
            /\ AdminRequestsStop
    /\ UNCHANGED <<pluginVars, irspVars, task>>

\* One attempt to wake the thread, whether it succeeds or not.
Knock_Once ==
    /\ main = "knock"
    /\ main' = "join admin"
    /\ IF pipe = "free" THEN AdminKnocks ELSE UNCHANGED adminVars
    /\ UNCHANGED <<pluginVars, irspVars, task>>

\* Again and again until exited_ is set.
Knock ==
    /\ main = "knock"
    /\ IF apc = "exited" THEN main' = "join admin" /\ UNCHANGED adminVars
                         ELSE AdminKnocks /\ UNCHANGED main
    /\ UNCHANGED <<pluginVars, irspVars, task>>

JoinAdmin ==
    /\ main = "join admin"
    /\ main' = "stop irsp"
    /\ AdminJoins
    /\ UNCHANGED <<pluginVars, irspVars, task>>

\* running_ is taken back first.  A server that did not start has nothing to stop.
StopIrsp ==
    /\ main = "stop irsp"
    /\ main' = IF svc = "off" THEN "stop plugins" ELSE "unregister"
    /\ irspStop' = (svc # "off")
    /\ UNCHANGED <<adminVars, pluginVars, svc, callback, push, late, task>>

\* setChangeCallback(nullptr) waits for callbackMutex_, which is taken to prefer readers
\* (IrspServer has the other kind too); then the service thread is woken.
StopUnregisters ==
    /\ main = "unregister"
    /\ \A t \in Pushers : push[t] # "routing"
    /\ callback' = FALSE /\ late' = 0
    /\ main' = "join irsp"
    /\ UNCHANGED <<adminVars, pluginVars, svc, irspStop, push, task>>

JoinIrsp ==
    /\ main = "join irsp" /\ svc = "off"
    /\ main' = "stop plugins"
    /\ UNCHANGED <<adminVars, pluginVars, irspVars, task>>

StopAll ==
    /\ main = "stop plugins" /\ mgr = "free"
    /\ main' = "join plugins" /\ mgr' = "main"
    /\ plugin' = IF plugin = "started" THEN "stopping" ELSE plugin
    /\ UNCHANGED <<adminVars, routed, inflight, was, irspVars, task>>

StopAllReturns ==
    /\ main = "join plugins" /\ push["device"] = "none"
    /\ main' = "stop scheduler" /\ mgr' = "free"
    /\ plugin' = IF plugin = "stopping" THEN "loaded" ELSE plugin
    /\ UNCHANGED <<adminVars, routed, inflight, was, irspVars, task>>

\* RuntimeEngine::stop(): the scheduler, then the bus.
StopScheduler ==
    /\ main = "stop scheduler"
    /\ main' = "join scheduler" /\ task' = "stopping"
    /\ UNCHANGED <<adminVars, pluginVars, irspVars>>

JoinScheduler ==
    /\ main = "join scheduler" /\ push["heartbeat"] = "none"
    /\ main' = "stop bus" /\ task' = "off"
    /\ UNCHANGED <<adminVars, pluginVars, irspVars>>

StopBus ==
    /\ main = "stop bus"
    /\ main' = "destroy"
    /\ UNCHANGED <<adminVars, pluginVars, irspVars, task>>

\* The destructors: PluginManager unloads what is loaded, then host and runtime go.
Destroy ==
    /\ main = "destroy" /\ mgr = "free" /\ ~inflight
    /\ main' = "done"
    /\ plugin' = "absent" /\ routed' = FALSE
    /\ UNCHANGED <<adminVars, inflight, mgr, was, irspVars, task>>

StartStep ==
    \/ Boot \/ StartAdmin
    \/ \E ok \in BOOLEAN : LoadDirectory(ok) \/ StartAll(ok) \/ StartIrsp(ok)

StopStep ==
    \/ StopAdmin \/ Knock \/ JoinAdmin \/ StopIrsp \/ StopUnregisters \/ JoinIrsp \/ StopAll
    \/ StopAllReturns \/ StopScheduler \/ JoinScheduler \/ StopBus \/ Destroy

-----------------------------------------------------------------------------

AdminStep == (ServeStep /\ UNCHANGED <<main, pluginVars, irspVars, task>>) \/ CommandStep

ClientStep(c) ==
    /\ ClientSends(c) \/ ClientLeaves(c)
    /\ UNCHANGED <<main, pluginVars, irspVars, task>>

ClientConnects(c) == Connect(c) /\ UNCHANGED <<main, pluginVars, irspVars, task>>

Next ==
    \/ \E t \in Pushers : PushBegins(t) \/ PushLocks(t) \/ PushRoutes(t)
    \/ SetBegins \/ SetEnds \/ ServiceExits
    \/ AdminStep
    \/ \E c \in Clients : ClientConnects(c) \/ ClientStep(c)
    \/ StartStep \/ SignalSeen \/ StopStep

\* Every thread runs, plugin calls return, lws_service() returns once it was woken, and a
\* client that has connected writes its line or goes away.  No signal, no client and no
\* push need come.
Fairness ==
    /\ WF_vars(AdminStep) /\ WF_vars(StopStep) /\ WF_vars(SetEnds)
    /\ WF_vars(main = "join irsp" /\ ServiceExits)
    /\ \A t \in Pushers : WF_vars(PushLocks(t)) /\ WF_vars(PushRoutes(t))
    /\ \A c \in Clients : WF_vars(ClientStep(c))

Spec == Init /\ [][Next]_vars /\ Fairness

-----------------------------------------------------------------------------
(* Properties.                                                             *)

AfterStopAll ==
    main \in {"stop scheduler", "join scheduler", "stop bus", "destroy", "done"}

\* When stopAll() has returned, no plugin runs and none is called or started any more,
\* not even by a RELOAD or a SET that began before the signal; and when the bus is
\* stopped nobody is left who could publish, so that its last drain is complete.
NothingRunsLate ==
    /\ AfterStopAll => /\ plugin \in {"absent", "loaded"} /\ push["device"] = "none"
                       /\ ~inflight /\ svc = "off" /\ mgr = "free"
    /\ main \in {"destroy", "done"} => \A t \in Pushers : push[t] = "none"

\* Once a signal is seen the process ends, wherever the other threads are, over a socket
\* or a pipe, given a callbackMutex_ that prefers readers.
ShutdownEnds == main = "stop admin" ~> main = "done"

\* A client that has written its line is answered, also when the process is asked to stop
\* meanwhile, unless it was not served yet when the channel closed.
CommandsAreAnswered ==
    \A c \in Clients : client[c] = "sent" ~> client[c] \in {"answered", "refused"}
=============================================================================
