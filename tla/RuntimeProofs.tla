---------------------------- MODULE RuntimeProofs ----------------------------
(***************************************************************************)
(* The shutdown leaves nothing running (NothingRunsLate), for any number   *)
(* of clients of the admin channel and of late pushes.                     *)
(*                                                                         *)
(* The property speaks of the end of main() only.  The invariant says who  *)
(* may still do what before that, for every place main() has got to: which *)
(* threads exist, what each of them may hold, and what that implies for    *)
(* the plugin.                                                             *)
(***************************************************************************)
EXTENDS Runtime, TLAPS

Starting == {"boot", "load", "startAll", "irsp", "admin"}
AdminMayRun == {"ready", "stop admin"}
AdminEnds == {"knock", "join admin"}
IrspEnds == {"unregister", "join irsp"}
Ended == {"stop bus", "destroy", "done"}
MainPlaces ==
    Starting \cup AdminMayRun \cup AdminEnds \cup {"stop irsp"} \cup IrspEnds
    \cup {"stop plugins", "join plugins", "stop scheduler", "join scheduler"} \cup Ended

\* Places of the admin thread between two commands, and in one that has changed the plugin.
Unloading == {"drain", "drain to load", "destroy", "destroy to load"}
Serving == {"test", "poll", "create", "connect", "read", "run", "reply", "exited"}
Managing == Unloading \cup {"load", "start"}

TypeInv ==
    /\ main \in MainPlaces
    /\ apc \in {"off"} \cup Serving \cup Managing
    /\ running \in BOOLEAN
    /\ plugin \in {"absent", "loaded", "started", "stopping"}
    /\ inflight \in BOOLEAN
    /\ mgr \in {"free", "admin", "main"}
    /\ svc \in {"off", "idle", "called", "returning"}
    /\ push \in [Pushers -> {"none", "stored", "routing"}]
    /\ task \in {"off", "on", "stopping"}

\* The admin thread exists from its start until it is joined.
AdminInv ==
    /\ main \in AdminMayRun => (running <=> apc # "off")
    /\ main \in AdminEnds => ~running
    /\ main \notin AdminMayRun \cup AdminEnds => apc = "off" /\ ~running

\* The manager's mutex: a command that has begun to change the plugin, or stopAll().
ManagerInv ==
    /\ mgr = "admin" <=> apc \in Managing
    /\ mgr = "main" <=> main = "join plugins"

\* The service thread exists from StartIrsp until it is joined, and only it calls write().
ServiceInv ==
    /\ svc # "off" =>
         main \in {"admin", "stop irsp"} \cup AdminMayRun \cup AdminEnds \cup IrspEnds
    /\ inflight => svc \in {"called", "returning"}
    /\ push["service"] # "none" => svc = "returning"

\* What is known of the plugin from the places of the admin thread and of main().
PluginInv ==
    /\ main \in {"boot", "load"} => plugin = "absent"
    /\ main = "startAll" => plugin \in {"absent", "loaded"}
    /\ apc = "load" => plugin = "absent"
    /\ apc = "start" => plugin = "loaded"
    /\ plugin = "stopping" =>
         apc \in {"destroy", "destroy to load"} \/ main = "join plugins"
    /\ main = "join plugins" => plugin # "started"
    /\ AfterStopAll => plugin \in {"absent", "loaded"}

\* The plugin's own thread lives no longer than the plugin is started.
DeviceInv == push["device"] # "none" => plugin \in {"started", "stopping"}

HeartbeatInv ==
    /\ push["heartbeat"] # "none" => task # "off"
    /\ main \in Ended => task = "off"

IInv ==
    /\ TypeInv
    /\ AdminInv
    /\ ManagerInv
    /\ ServiceInv
    /\ PluginInv
    /\ DeviceInv
    /\ HeartbeatInv

-----------------------------------------------------------------------------

LEMMA InvImpliesProperty == IInv => NothingRunsLate
<1> SUFFICES ASSUME IInv PROVE NothingRunsLate
  OBVIOUS
<1>1. ASSUME AfterStopAll
      PROVE  /\ plugin \in {"absent", "loaded"} /\ push["device"] = "none"
             /\ ~inflight /\ svc = "off" /\ mgr = "free"
  BY <1>1 DEF IInv, TypeInv, AdminInv, ManagerInv, ServiceInv, PluginInv, DeviceInv, AfterStopAll,
              Starting, AdminMayRun, AdminEnds, IrspEnds, Managing, Unloading
<1>2. ASSUME main \in {"destroy", "done"}, NEW t \in Pushers PROVE push[t] = "none"
  BY <1>1, <1>2 DEF IInv, ServiceInv, HeartbeatInv, Pushers, AfterStopAll, Ended
<1> QED
  BY <1>1, <1>2 DEF NothingRunsLate

LEMMA InitHolds == Init => IInv
  BY DEF Init, AdminInit, IInv, TypeInv, AdminInv, ManagerInv, ServiceInv, PluginInv, DeviceInv,
         HeartbeatInv, Starting, AdminMayRun, AdminEnds, IrspEnds, Ended, MainPlaces, Unloading,
         Serving, Managing, Pushers, AfterStopAll

-----------------------------------------------------------------------------
(* The steps, thread by thread.                                            *)

\* What each part of the invariant depends on.
LEMMA Frame ==
  ASSUME IInv
  PROVE  /\ UNCHANGED <<main, apc, running, plugin, inflight, mgr, svc, push, task>> => TypeInv'
         /\ UNCHANGED <<main, apc, running>> => AdminInv'
         /\ UNCHANGED <<main, apc, mgr>> => ManagerInv'
         /\ UNCHANGED <<main, inflight, svc, push>> => ServiceInv'
         /\ UNCHANGED <<main, apc, plugin>> => PluginInv'
         /\ UNCHANGED <<plugin, push>> => DeviceInv'
         /\ UNCHANGED <<main, push, task>> => HeartbeatInv'
  <1>1. UNCHANGED <<main, apc, running, plugin, inflight, mgr, svc, push, task>> => TypeInv'
    BY DEF IInv, TypeInv
  <1>2. UNCHANGED <<main, apc, running>> => AdminInv'
    BY DEF IInv, AdminInv
  <1>3. UNCHANGED <<main, apc, mgr>> => ManagerInv'
    BY DEF IInv, ManagerInv
  <1>4. UNCHANGED <<main, inflight, svc, push>> => ServiceInv'
    <2> SUFFICES ASSUME UNCHANGED <<main, inflight, svc, push>> PROVE ServiceInv'
      OBVIOUS
    <2>1. main' = main /\ inflight' = inflight /\ svc' = svc /\ push' = push
      OBVIOUS
    <2>2. inflight' => svc' \in {"called", "returning"}
      <3>1. inflight => svc \in {"called", "returning"}
        BY DEF IInv, ServiceInv
      <3>2. inflight' => inflight
        BY <2>1
      <3> QED
        BY <2>1, <3>1, <3>2
    <2> QED
      BY <2>1, <2>2 DEF IInv, ServiceInv
  <1>5. UNCHANGED <<main, apc, plugin>> => PluginInv'
    BY DEF IInv, PluginInv, AfterStopAll
  <1>6. UNCHANGED <<plugin, push>> => DeviceInv'
    BY DEF IInv, DeviceInv
  <1>7. UNCHANGED <<main, push, task>> => HeartbeatInv'
    BY DEF IInv, HeartbeatInv
  <1> QED
    BY <1>1, <1>2, <1>3, <1>4, <1>5, <1>6, <1>7

\* A push may only begin while its thread lives, and ends before the thread does.
LEMMA PushInv ==
  ASSUME IInv, NEW t \in Pushers, PushBegins(t) \/ PushLocks(t) \/ PushRoutes(t)
  PROVE  IInv'
  <1>1. UNCHANGED <<main, apc, running, plugin, inflight, mgr, task>>
    BY DEF PushBegins, PushLocks, PushRoutes, pluginVars, adminVars
  <1>2. AdminInv' /\ ManagerInv' /\ PluginInv'
    BY <1>1, Frame
  <1>3. CASE PushBegins(t)
    <2>1. TypeInv' /\ DeviceInv' /\ HeartbeatInv'
      BY <1>1, <1>3 DEF PushBegins, MayPush, IInv, TypeInv, DeviceInv, HeartbeatInv, Pushers
    <2>2. ServiceInv'
      BY <1>1, <1>3 DEF PushBegins, MayPush, IInv, TypeInv, ServiceInv, Pushers
    <2> QED
      BY <1>2, <2>1, <2>2 DEF IInv
  <1>4. CASE PushLocks(t) \/ PushRoutes(t)
    <2>1. push[t] # "none" /\ UNCHANGED svc
      BY <1>4 DEF PushLocks, PushRoutes
    <2>2. \E x \in {"none", "routing"} : push' = [push EXCEPT ![t] = x]
      BY <1>4 DEF PushLocks, PushRoutes
    <2>3. /\ push' \in [Pushers -> {"none", "stored", "routing"}]
          /\ \A r \in Pushers : push'[r] # "none" => push[r] # "none"
      BY <2>1, <2>2 DEF IInv, TypeInv
    <2>4. TypeInv'
      BY <1>1, <2>1, <2>3 DEF IInv, TypeInv
    <2>5. DeviceInv' /\ HeartbeatInv' /\ ServiceInv'
      BY <1>1, <2>1, <2>3 DEF IInv, DeviceInv, HeartbeatInv, ServiceInv, Pushers
    <2> QED
      BY <1>2, <2>4, <2>5 DEF IInv
  <1> QED
    BY <1>3, <1>4

\* The service thread ends without a push or a call under way.
LEMMA ServiceStepInv ==
  ASSUME IInv, SetBegins \/ SetEnds \/ ServiceExits
  PROVE  IInv'
  <1>1. /\ UNCHANGED <<main, apc, running, plugin, mgr, push, task>>
        /\ svc # "off"
    BY DEF SetBegins, SetEnds, ServiceExits, pluginVars, adminVars
  <1>2. /\ svc' \in {"off", "idle", "called"}
        /\ inflight' \in BOOLEAN
        /\ inflight' => svc' = "called"
        /\ push["service"] = "none"
    <2>1. CASE SetBegins
      BY <2>1 DEF SetBegins, IInv, ServiceInv
    <2>2. CASE SetEnds
      BY <2>2 DEF SetEnds, Loops
    <2>3. CASE ServiceExits
      <3>1. svc = "idle" /\ svc' = "off" /\ UNCHANGED inflight
        BY <2>3 DEF ServiceExits, pluginVars
      <3> QED
        BY <3>1 DEF IInv, TypeInv, ServiceInv
    <2> QED
      BY <2>1, <2>2, <2>3
  <1>3. TypeInv'
    BY <1>1, <1>2 DEF IInv, TypeInv
  <1>4. ServiceInv'
    BY <1>1, <1>2 DEF IInv, ServiceInv
  <1>5. AdminInv' /\ ManagerInv' /\ PluginInv' /\ DeviceInv' /\ HeartbeatInv'
    BY <1>1, Frame
  <1> QED
    BY <1>3, <1>4, <1>5 DEF IInv

\* Between two commands the admin thread moves among its places only.
LEMMA ServeInv ==
  ASSUME IInv, ServeStep, UNCHANGED <<main, pluginVars, irspVars, task>>
  PROVE  IInv'
  <1>1. apc \in Serving /\ apc' \in Serving
    BY DEF ServeStep, ServeTests, ServeAccepts, ServeTimesOut, ServeCreatesPipe, ServeHasNoPipe,
           ServeConnects, ServeLosesPipe, ServeReads, ServeReplies, Serving
  <1>2. UNCHANGED running
    BY DEF ServeStep, ServeTests, ServeAccepts, ServeTimesOut, ServeCreatesPipe, ServeHasNoPipe,
           ServeConnects, ServeLosesPipe, ServeReads, ServeReplies
  <1>3. UNCHANGED <<main, plugin, inflight, mgr, svc, push, task>>
    BY DEF pluginVars, irspVars
  <1>4. apc # "off" /\ apc \notin Managing /\ apc' # "off" /\ apc' \notin Managing
    BY <1>1 DEF Serving, Managing, Unloading
  <1>5. TypeInv'
    BY <1>1, <1>2, <1>3 DEF IInv, TypeInv
  <1>6. AdminInv' /\ ManagerInv'
    BY <1>2, <1>3, <1>4 DEF IInv, AdminInv, ManagerInv
  <1>7. ServiceInv' /\ DeviceInv' /\ HeartbeatInv'
    BY <1>3, Frame
  <1>8. PluginInv'
    BY <1>3, <1>4 DEF IInv, PluginInv, AfterStopAll, Managing, Unloading
  <1> QED
    BY <1>5, <1>6, <1>7, <1>8 DEF IInv

\* A command changes the plugin while main() has not begun to stop anything else.
LEMMA CommandInv ==
  ASSUME IInv, CommandStep
  PROVE  IInv'
  <1> USE DEF AdminGoesTo
  <1>1. /\ UNCHANGED <<running, main, inflight>>
        /\ UNCHANGED <<svc, push, task>>
    BY DEF CommandStep, CommandChangesNothing, CommandUnloads, CommandScans, UnloadDrained,
           UnloadDestroys, CommandLoads, CommandStarts, irspVars, pluginVars
  <1>2. ServiceInv' /\ HeartbeatInv'
    BY <1>1, Frame
  <1> DEFINE
        Places ==
            /\ apc \in {"run"} \cup Managing /\ apc' \in {"reply"} \cup Managing
            /\ mgr' \in {"free", "admin"} /\ (mgr' = "admin" <=> apc' \in Managing)
            /\ main # "join plugins"
        Effect ==
            /\ plugin' \in {"absent", "loaded", "started", "stopping"}
            /\ apc' = "load" => plugin' = "absent"
            /\ apc' = "start" => plugin' = "loaded"
            /\ plugin' = "stopping" => apc' \in {"destroy", "destroy to load"}
            /\ push["device"] # "none" => plugin' \in {"started", "stopping"}
  <1> USE DEF Managing, Unloading
  <1>3. Places /\ Effect
    <2>1. CASE CommandChangesNothing
      <3>1. Places
        BY <2>1 DEF CommandChangesNothing, pluginVars, IInv, ManagerInv
      <3>2. Effect
        BY <2>1 DEF CommandChangesNothing, pluginVars, IInv, TypeInv, ManagerInv, PluginInv,
                    DeviceInv
      <3> QED
        BY <3>1, <3>2
    <2>2. ASSUME NEW reload \in BOOLEAN, CommandUnloads(reload) PROVE Places /\ Effect
      <3>1. Places
        BY <2>2 DEF CommandUnloads, IInv, ManagerInv
      <3>2. Effect
        BY <2>2 DEF CommandUnloads, IInv, TypeInv, ManagerInv, PluginInv, DeviceInv
      <3> QED
        BY <3>1, <3>2
    <2>3. CASE CommandScans
      <3>1. Places
        BY <2>3 DEF CommandScans, IInv, ManagerInv
      <3>2. Effect
        BY <2>3 DEF CommandScans, IInv, TypeInv, ManagerInv, PluginInv, DeviceInv
      <3> QED
        BY <3>1, <3>2
    <2>4. CASE UnloadDrained
      <3>1. Places
        BY <2>4 DEF UnloadDrained, IInv, ManagerInv
      <3>2. Effect
        BY <2>4 DEF UnloadDrained, IInv, TypeInv, ManagerInv, PluginInv, DeviceInv
      <3> QED
        BY <3>1, <3>2
    <2>5. CASE UnloadDestroys
      <3>1. Places
        BY <2>5 DEF UnloadDestroys, IInv, ManagerInv
      <3>2. Effect
        BY <2>5 DEF UnloadDestroys, IInv, TypeInv, ManagerInv, PluginInv, DeviceInv
      <3> QED
        BY <3>1, <3>2
    <2>6. ASSUME NEW ok \in BOOLEAN, CommandLoads(ok) PROVE Places /\ Effect
      <3>1. Places
        BY <2>6 DEF CommandLoads, IInv, ManagerInv
      <3>2. Effect
        BY <2>6 DEF CommandLoads, IInv, TypeInv, ManagerInv, PluginInv, DeviceInv
      <3> QED
        BY <3>1, <3>2
    <2>7. ASSUME NEW ok \in BOOLEAN, CommandStarts(ok) PROVE Places /\ Effect
      <3>1. Places
        BY <2>7 DEF CommandStarts, IInv, ManagerInv
      <3>2. Effect
        BY <2>7 DEF CommandStarts, IInv, TypeInv, ManagerInv, PluginInv, DeviceInv
      <3> QED
        BY <3>1, <3>2
    <2> QED
      BY <2>1, <2>2, <2>3, <2>4, <2>5, <2>6, <2>7 DEF CommandStep
  <1>4. TypeInv'
    BY <1>1, <1>3 DEF IInv, TypeInv, Serving
  <1>5. AdminInv'
    BY <1>1, <1>3 DEF IInv, AdminInv, Serving
  <1>6. ManagerInv'
    BY <1>1, <1>3 DEF IInv, ManagerInv
  <1>7. main \in AdminMayRun \cup AdminEnds
    BY <1>3 DEF IInv, AdminInv
  <1>8. PluginInv' /\ DeviceInv'
    BY <1>1, <1>3, <1>7 DEF IInv, PluginInv, DeviceInv, AfterStopAll, AdminMayRun, AdminEnds
  <1> QED
    BY <1>2, <1>4, <1>5, <1>6, <1>8 DEF IInv

\* Clients of the admin channel touch nothing the invariant speaks of.
LEMMA ClientInv ==
  ASSUME IInv, NEW c \in Clients, ClientConnects(c) \/ ClientStep(c)
  PROVE  IInv'
  <1>1. UNCHANGED <<running, apc, main, pluginVars, irspVars, task>>
    BY DEF ClientConnects, ClientStep, Connect, ConnectsToSocket, ConnectsToPipe, ClientSends,
           ClientLeaves, Write
  <1> QED
    BY <1>1, Frame DEF IInv, pluginVars, irspVars

-----------------------------------------------------------------------------
(* main().                                                                 *)

LEMMA StartInv ==
  ASSUME IInv, StartStep
  PROVE  IInv'
  <1> USE DEF adminVars, pluginVars, irspVars, Starting, AdminMayRun, AdminEnds, IrspEnds, Ended,
              MainPlaces, IInv, TypeInv, AdminInv, ManagerInv, ServiceInv, PluginInv, DeviceInv,
              HeartbeatInv, AfterStopAll
  <1>1. CASE Boot
    BY <1>1 DEF Boot
  <1>2. ASSUME NEW ok \in BOOLEAN, LoadDirectory(ok) PROVE IInv'
    BY <1>2 DEF LoadDirectory
  <1>3. ASSUME NEW ok \in BOOLEAN, StartAll(ok) PROVE IInv'
    BY <1>3 DEF StartAll
  <1>4. ASSUME NEW ok \in BOOLEAN, StartIrsp(ok) PROVE IInv'
    BY <1>4 DEF StartIrsp
  <1>5. CASE StartAdmin
    <2>1. apc = "off" /\ ~running /\ mgr = "free"
      BY <1>5 DEF StartAdmin, Managing, Unloading
    <2>2. \/ running' = TRUE /\ apc' = "test"
          \/ UNCHANGED <<running, apc>>
      BY <1>5 DEF StartAdmin, AdminStarts, AdminCannotStart
    <2>3. /\ main = "admin" /\ main' = "ready" /\ task' = "on"
          /\ UNCHANGED <<plugin, inflight, mgr, svc, push>>
      BY <1>5 DEF StartAdmin
    <2>4. TypeInv'
      BY <2>1, <2>2, <2>3 DEF Serving
    <2>5. AdminInv'
      BY <2>1, <2>2, <2>3
    <2>6. ManagerInv'
      BY <2>1, <2>2, <2>3 DEF Managing, Unloading
    <2>7. PluginInv'
      BY <2>1, <2>2, <2>3
    <2>8. ServiceInv' /\ DeviceInv' /\ HeartbeatInv'
      BY <2>3
    <2> QED
      BY <2>4, <2>5, <2>6, <2>7, <2>8
  <1> QED
    BY <1>1, <1>2, <1>3, <1>4, <1>5 DEF StartStep

LEMMA StopInv ==
  ASSUME IInv, SignalSeen \/ StopStep
  PROVE  IInv'
  <1> USE DEF adminVars, pluginVars, irspVars, Starting, AdminMayRun, AdminEnds, IrspEnds, Ended,
              MainPlaces, IInv, TypeInv, AdminInv, ManagerInv, ServiceInv, PluginInv, DeviceInv,
              HeartbeatInv, AfterStopAll, Pushers
  <1>1. CASE SignalSeen
    <2>1. /\ main = "ready" /\ main' = "stop admin"
          /\ UNCHANGED <<apc, running, plugin, inflight, mgr, svc, push, task>>
      BY <1>1 DEF SignalSeen
    <2>2. TypeInv' /\ AdminInv' /\ ManagerInv'
      BY <2>1
    <2>3. ServiceInv' /\ PluginInv' /\ DeviceInv' /\ HeartbeatInv'
      BY <2>1
    <2> QED
      BY <2>2, <2>3
  <1>2. CASE StopAdmin
    <2>1. /\ main = "stop admin"
          /\ (~running /\ main' = "stop irsp") \/ main' \in AdminEnds
          /\ running' = FALSE
          /\ UNCHANGED <<apc, plugin, inflight, mgr, svc, push, task>>
      BY <1>2 DEF StopAdmin, AdminRequestsStop
    <2>2. TypeInv' /\ AdminInv' /\ ManagerInv'
      BY <2>1
    <2>3. ServiceInv' /\ PluginInv' /\ DeviceInv' /\ HeartbeatInv'
      BY <2>1
    <2> QED
      BY <2>2, <2>3
  <1>3. CASE Knock
    <2>1. /\ main = "knock" /\ main' \in AdminEnds
          /\ UNCHANGED <<apc, running, plugin, inflight, mgr, svc, push, task>>
      BY <1>3 DEF Knock, AdminKnocks
    <2>2. TypeInv' /\ AdminInv' /\ ManagerInv'
      BY <2>1
    <2>3. ServiceInv' /\ PluginInv' /\ DeviceInv' /\ HeartbeatInv'
      BY <2>1
    <2> QED
      BY <2>2, <2>3
  <1>4. CASE JoinAdmin
    BY <1>4 DEF JoinAdmin, AdminJoins, Serving, Managing, Unloading
  <1>5. CASE StopIrsp
    BY <1>5 DEF StopIrsp
  <1>6. CASE StopUnregisters
    BY <1>6 DEF StopUnregisters
  <1>7. CASE JoinIrsp
    BY <1>7 DEF JoinIrsp
  <1>8. CASE StopAll
    BY <1>8 DEF StopAll, Managing, Unloading
  <1>9. CASE StopAllReturns
    BY <1>9 DEF StopAllReturns, Managing, Unloading
  <1>10. CASE StopScheduler
    BY <1>10 DEF StopScheduler
  <1>11. CASE JoinScheduler
    BY <1>11 DEF JoinScheduler
  <1>12. CASE StopBus
    BY <1>12 DEF StopBus
  <1>13. CASE Destroy
    BY <1>13 DEF Destroy, Managing, Unloading
  <1> QED
    BY <1>1, <1>2, <1>3, <1>4, <1>5, <1>6, <1>7, <1>8, <1>9, <1>10, <1>11, <1>12, <1>13
       DEF StopStep

-----------------------------------------------------------------------------

\* When stopAll() has returned, no plugin runs, none is called and none is started any
\* more; when the bus is stopped, nobody is left who could publish.  For any number of
\* clients of the admin channel and whatever their commands do meanwhile.
THEOREM NothingIsLate == Spec => []NothingRunsLate
  <1>1. IInv /\ [Next]_vars => IInv'
    <2> SUFFICES ASSUME IInv, [Next]_vars PROVE IInv'
      OBVIOUS
    <2>1. CASE UNCHANGED vars
      BY <2>1, Frame DEF vars, adminVars, pluginVars, irspVars, IInv
    <2>2. CASE Next
      BY <2>2, PushInv, ServiceStepInv, ServeInv, CommandInv, ClientInv, StartInv, StopInv
         DEF Next, AdminStep
    <2> QED
      BY <2>1, <2>2
  <1> QED
    BY InitHolds, <1>1, InvImpliesProperty, PTL DEF Spec
=============================================================================
