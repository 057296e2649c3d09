# industrial-runtime: models, checks and proofs

TLA+ models of the runtime's own logic, the TLC configurations that check them
on small instances, and proofs that TLAPS checks. Paths are relative to the
root of the repository; every definition that models code is listed with its
lines in `PROJECT.json` under `map`.

## 1. The system

The process (`core/main.cpp`) runs plugins (shared libraries that drive devices)
and serves their tags and events to clients over WebSocket.

    device -- plugin ----pushTag----> TagEngine --change callback--> IrspServer --> clients
                |  \---pushEvent---> EventBus ----subscription-----/     |
                |                                                       | SET
                \<---- handler <---- PluginHost::write <----------------/
    Scheduler: periodic tasks on one thread
    admin channel: irpcli --> AdminServer --> PluginManager (LIST, UNLOAD, RELOAD)

`main` starts bus and scheduler (`RuntimeEngine`), loads and starts plugins,
starts the IRSP server and the admin channel, and stops them in the opposite
order: admin, IRSP, plugins, runtime.

### Components

| component | state | operations | what makes it correct |
|---|---|---|---|
| `PluginHost` | registrations (prefix, handler, owner), owners with in-flight counters, active owner | register a writer, create / activate / retire / remove an owner, wait until quiet, `write` | counters are exact; one handler per name; a call never enters code that is gone |
| `PluginManager` | loaded plugins in order, their libraries and instances, one mutex | load, load a directory, scan, start all, stop all, unload, reload, destructor | error paths leave nothing behind; unload drains before it destroys; operations end |
| `MpmcQueue` | ring of cells with sequence numbers, two positions | `tryEnqueue`, `tryDequeue` from any threads | no cell touched by two threads; FIFO; a call that fails has a reason |
| `EventBus` | queue, semaphore, subscriptions, one dispatch thread | publish, subscribe, unsubscribe, start, stop | delivery in order and complete; no lost wake-up; stop drains and returns |
| `Scheduler` | task table, version, one worker | add, remove, start, stop | the worker never sleeps past a task; a removed task runs at most once more |
| topics, trie | nodes with subscribers, reverse index | subscribe, unsubscribe, match | the index covers the trie; a topic finds exactly the matching patterns |
| `Dispatcher` | sessions, trie, event filters | commands, end of a session, routing | all or nothing; only sessions that are ready get pushes; sessions do not disturb each other |
| `IrspServer` | connections with outboxes, the lws context, one service thread | lws callbacks, tag and event routes, start, stop | replies in order, pushes never go back, nothing forgotten, stop returns and is final |
| `TagEngine` | sharded map of tags, change callback | write, get, snapshot, set callback | the last value wins and reaches who watches |
| SCAN (`core_tag_source.cpp`) | none; a cursor in the request | one page of names | names that stay are listed, and none twice |
| admin channel (`admin/`) | one thread, one client at a time | accept, command, reply, start, stop | commands are answered; stop returns on both platforms |
| `main`, `RuntimeEngine` | all of the above | start and stop in order | nothing runs after it was stopped; the process ends |
| IRSP clients (`sdk/irsp-client`) | queue of requests without a reply | request, reply, push, close | every reply goes to its request; every call ends |
| codec, config, logger, `MemoryStore`, tools | data only, or unused by the runtime | | not modelled, see section 7 |

### What is hard here

* Calls into code that may be unloaded: a handler runs with no lock held.
* Data that changes between two locks: the change of a tag is stored under a
  shard's lock and routed later under another one.
* Snapshots: the bus and the scheduler copy what they call and then let go of
  the lock, so a call may come after an unsubscribe or a removal.
* Wake-ups: semaphore, condition variable, `lws_cancel_service`; each may
  coalesce, come early, or be consumed for something else.
* Stop: five threads, each joined by someone, some of them holding locks, while a
  command of the admin channel unloads a plugin or starts it again.
* Replies that are told apart by their position alone, and a request that keeps its
  place when its caller has given up, or when it was never sent.
* A walk over a store that changes, with nothing kept between two pages but a cursor.
* Error paths of `loadLocked`, and an operation that is several operations (reload).
* A lock-free queue whose cells are published out of order.

`hazards` in `PROJECT.json` lists these one by one, at the line where each bites
and with the properties that would show it going wrong.

## 2. Modules

    HotUnload  <==refines==  PluginManager  --extends-->  PluginHost
    TicketFifo <==refines==  MpmcQueue      (both extend BoundedQueue)
    TicketFifo <--extends--  EventBus
    Topics <--extends-- TopicTrie <--extends-- Dispatcher
    IrspServer (with TagEngine; subscriptions as sets)     Scheduler
    AdminServer <--extends-- Runtime (main and who waits for whom)
    IrspClient     TagScan
    MC*: instances for TLC                  *Proofs: theorems

**PluginHost** (`core/plugin_host/plugin_host.cpp`). Each critical section of
`writersMutex_` is a step. `write` is three: selection with the increment
(`WriteSelect`), return of the handler, decrement. A topic is a sequence of
symbols; handler and context are one value.

**PluginManager** (`core/plugin_manager/plugin_manager.cpp`) extends it with the
management operations. `mutex_` lets one run at a time: `op` is its name, `mpc`
where it is. A step ends where another thread can see the difference: at every
critical section of the host and every call into a plugin. Every load that gets
as far as `createOwner` is an *incarnation*, named by its owner id, which is
never used again; `life` says what is left of it: `closed` after an unload or a failed `init`,
`refused` after a failed `createPlugin`. Opening, `createPlugin`,
`init` and `start` may fail at any time. A plugin may register writers during
`init` and `start`; `CreateRegisters` and `LateRegister` allow it during
`createPlugin` and at any other time, and both are `TRUE` in `plugin_manager`.

**HotUnload** is the promise to the writing threads: an incarnation is absent,
coming, present, gone; a call enters no incarnation that is absent or gone, and what is
present does not go while a call is inside. One that was coming may be abandoned, and then
nothing is promised of what it registered. Only calls of handlers under the plugin's own
owner are mapped to calls inside it; section 6 has the others.

**MpmcQueue** (`core/event_bus/mpmc_queue.hpp`). One step per access of shared
memory. A failed compare-and-swap is a step; a relaxed load may be old, which is
covered because a thread may pause after a load.

**TicketFifo** is what the queue gives its users: a FIFO in which an enqueue is
two moments, the claim that fixes the order and the publication that makes the
item visible. It keeps two facts that a simpler FIFO would hide, and on which
EventBus depends: a pending ticket at the head hides ready ones behind it, and a
slot is free only when its consumer has moved the item out.

**BoundedQueue** holds the parameters both have: who uses a queue, for what, and its capacity.

**EventBus** (`core/event_bus/event_bus.cpp`) runs publishers, dispatch thread
and the caller of `stop` on top of it. Ghost variables record the order of
claims, what every handler was called with, and what was due to it. `Agenda` fixes
the order in which publishers take up events, which are interchangeable up to it.

**Scheduler** (`core/scheduler/scheduler.cpp`). Time is relative (`left`,
`waitLeft`) and passes in ticks, also while a task runs or the worker is late.
Tasks may add and remove tasks.

**Topics**, **TopicTrie** (`irsp/semantic/topic.cpp`, `topic_trie.cpp`). A topic
is the sequence of its segments, a node of the trie is its path. Matching is a
recursive function over positions, as in the code.

**Dispatcher** (`irsp/semantic/dispatcher.cpp`) adds sessions, event filters and
replies; of a reply it keeps whom it goes to, and whether it is an error, a
value or a count.

**IrspServer** (`irsp/server/irsp_server.cpp`, `core/tag_engine/tag_engine.cpp`):
pusher threads inside `TagEngine::write`, the bus thread inside `onEvent`, the
service thread in lws callbacks, the caller of `start` and `stop`. Sections under
`mutex_` are one step, except a SET whose plugin pushes a tag from `onWrite`:
the service thread holds the recursive `mutex_` and goes through
`TagEngine::write` and `routeTag` itself. A value is its version; what a client
watches is a set. `lws_cancel_service` and `lws_callback_on_writable` are modelled
from their use: requests that coalesce and are served later, in any order.
`WriterPreferring` says whether a waiting writer of `std::shared_mutex` keeps
new readers out, which the C++ standard leaves open.

**IrspClient** (`sdk/irsp-client`, Python `client.py` and JavaScript `client.js`; a
variable tells which). Calls are numbered in the order in which they are queued; a frame in
transit is the number of its call. A caller may give up while it waits or while its request
waits to be written, sending may fail, a callback may raise, the connection may end with any
first part of the replies delivered, and `bye` and `close` end it. That the server answers in
order is `RepliesInOrder` of IrspServer.

**TagScan** (`irsp/server/core_tag_source.cpp`, `TagEngine::snapshot`). Names are
numbers, in the order of names. `snapshot` copies one shard at a time while tags come and
go; the reply is one step. The name `0` is kept apart, since as a cursor it means the
beginning in a request and the end in a reply.

**AdminServer** (`admin/admin_server.cpp`) has the loop of the admin thread on both
platforms, the steps of `start` and `stop`, and as the thread's clients the calls of `irpcli`
(`admin/cli/irpcli.cpp`).

**Runtime** (`core/main.cpp`, `core/runtime_engine.cpp`, `admin/admin_command.cpp`)
extends it with `main` and with what the other threads share with it: the plugin and its
owner's counter, `PluginManager::mutex_`, `callbackMutex_` and the `mutex_` of the IRSP
server, the device thread of the plugin, the heartbeat task, and the service thread in a SET.
What happens inside a part between these points is left to the part's own module.

Definitions whose name has a suffix after an underscore (`UnloadDrains_NoWait`) are
plausible bugs. Nothing uses them; put in the place of the definition they
precede, each makes TLC report the property named in `PROJECT.json` under
`mutants`.

## 3. Runs

Each with `tlc -config X.cfg M.tla`, in at most about two minutes.

| run | instance | what it shows |
|---|---|---|
| `plugin_manager` | 2 writing threads, 1 library, 2 incarnations, registration at any time | every operation races with writes: counters exact, no call under a plugin's own owner into closed or destroyed code, no owner leaks, no registration stays but those of section 6, no library loaded twice by discovery, every operation ends; host and manager implement HotUnload with its liveness |
| `mpmc_queue` | 2 producers, 2 consumers, 2 cells, 4 positions | no data race on a cell, every failed call with its reason, refinement of TicketFifo |
| `event_bus` | 2 publishers, 3 events, queue of 2, 1 subscription that refuses one event, a stop and a restart | order and completeness, one late call at most, every event arrives without the 100 ms time-out, stop returns, and drains everything if no publish overlaps it |
| `scheduler` | 2 tasks, intervals 0 to 2, a restart | no oversleeping, one late run at most, tasks run for ever, stop returns |
| `dispatcher` | 2 sessions, 7 patterns in 6 argument lists, 3 topics | the index covers the trie, matching is exact, only sessions that are ready get pushes, a command changes the routes it names and no others, and none when it fails |
| `irsp_server` | 1 pusher, SETs that push too, 1 client with 3 requests, 2 versions, an event, a restart | order of pushes and replies, replies before a close, no queued frame forgotten, no late tag callback, convergence, stop returns |
| `irsp_client` | both clients, 4 calls, one may be BYE | replies go to their requests, BYE loses nothing, every call ends |
| `scan` | 5 names with `0` among them, 2 shards, 2 patterns, pages of 1, 2 or all | nothing listed twice, nothing that stayed left out |
| `runtime` | 2 clients of the admin channel, both platforms | nothing runs or is called after it was stopped, the process ends, commands are answered |
| `plugin_registers_late` | `LateRegister` | violated: section 6 |
| `irsp_stop_deadlock` | `WriterPreferring` | violated: section 6 |
| `irsp_late_event` | | violated: section 6 |

Why the bounds are enough. Two threads of each kind are what the races need: one
that is overtaken and one that overtakes. Two incarnations give a reload, and
two plugins that claim one id, since `load` takes a path twice. Two cells and four positions let the ring wrap
twice, so that a position can be a whole lap old; three events overflow a queue
of two. Two tasks with intervals 0, 1 and 2 can be due together, apart and at
once. The patterns of `dispatcher` overlap in every way the trie distinguishes
(literal, `+`, `#`, `#` at zero levels), and one that is not valid names the node
of one that is. Three requests are what it takes to say HELLO, to subscribe and
then to SET or to leave. Two versions tell an old value from a new one. One filter that
refuses the middle event shows that the others keep their order. Four calls are HELLO,
one that goes wrong, one that is shifted by it, and BYE. Among five names the name `0` has
neighbours on both sides and there are three pages of two. Two clients of the admin
channel let one wait behind the other.

`irsp_server` has one connection: connections share nothing but the tags and `mutex_`, and
the service thread takes their callbacks in any order, so that what one of them is
owed does not depend on another; with two, the graph is too large for the temporal
properties. How sessions influence each other is the subject of `dispatcher`.

Every bound is a constant with a comment: `MaxOwner`, `MaxPos`, `MaxSubs`,
`MaxTasks`, `MaxStarts`, `MaxVersion`, `MaxRequests`, `MaxEvents`, `MaxCalls`,
`MaxLatePushes`. In the code these are 64-bit counters or have no limit.

Deadlock is checked for `mpmc_queue` and `scan`. Elsewhere the model may really come to
rest: the process has stopped (`dead`, `down`), or the bounds are used up.

## 4. Fairness

* PluginManager: weak fairness of the manager's steps, and of every thread that
  is in a handler or about to decrement. Handlers and plugin calls return: a
  plugin that hangs hangs the unload, as the code intends. New writes and new
  operations are never forced.
* EventBus: weak fairness of the dispatch thread, of `stop`, and of a `publish`
  that has begun. The time-out of `try_acquire_for` has none, so no property
  leans on it.
* Scheduler: weak fairness of the worker, of `stop` and of the clock. Tasks return.
* IrspServer: weak fairness of each pusher that is inside `write`, of the bus
  thread, of `start` and `stop` once begun, and of lws serving a callback that was
  requested. Clients do nothing they do not want to; failing writes are possible
  and never forced.
* IrspClient: weak fairness of the server's answers, of the reader, of `bye` once its call is
  over, and of the end of a close that has begun (both libraries have a time-out for
  it). Connections need not be lost, callers need not give up.
* Runtime: weak fairness of the admin thread, of every step of `main` that stops something, of
  a push that has begun, and of the return of the service thread from a SET, or from `lws_service`
  once `stop` has woken it. A client of the admin channel that has connected writes its line or
  goes away; without this nothing holds (section 6). No signal, client, SET or push need come.

These are threads the operating system runs and locks they do not hold for
ever; none is a promise about other processes.

Assumptions of the models: `start` and `stop` of a component are called by one
thread (they are, from `main` and `RuntimeEngine`); publishers and pushers
pause at some time (each event is published once, versions are bounded), since
the last drain of the bus has no other end. In `runtime`, `callbackMutex_` prefers readers, and
at most `MaxLatePushes` pushes begin while `stop` waits for it as a writer: pushes
without a pause could keep such a writer out for ever, and a lock of the other kind
has the deadlock of section 6.

## 5. Proofs

`tlapm M.tla` for each of `PluginManagerProofs`, `EventBusProofs`, `SchedulerProofs`,
`DispatcherProofs`, `IrspServerProofs`, `IrspClientProofs`, `TagScanProofs` and `RuntimeProofs`.
Every invariant that a passing run checks, and every action property, is also a theorem, for
all values of the constants that satisfy the modules' assumptions; `theorems` in `PROJECT.json`
says which is which. The one theorem with a hypothesis of its own is `FullIsFullToOne`, for queues
with a single consumer.

**PluginHost**, for any threads, prefixes, names and owners, under any use of the
owner operations (`HostSpec`):
`HostTypeCorrect`, `InflightCountsCalls` (the counter of an owner equals the number of
calls between selection and decrement) and `RoutingIsDeterministic` (at most one
registration is eligible for a name). The inductive invariant is type correctness
with the exact count, plus one registration per prefix. Two matching prefixes of
one length are equal, so uniqueness of prefixes gives uniqueness of routes.

**PluginManager**, for any libraries and threads, whenever and wherever plugins register writers.
The invariant has the host's, the types, and

* `ControlInv`, `CurInv`: what the position of the operation says about the incarnation it works on;
* `LifeInv`: incarnations are alive if loaded, or are the current one at the stage that fits, or are over;
* `OwnersAccounted`: exactly the loaded and loading ones have owners, and while one of them is in
  `createPlugin`, `init` or `start`, registrations go to its owner;
* `WritersInv`: a registration belongs to owner 0, to an owner that has not been retired, or
  to one whose `createPlugin` failed;
* `CallsInv`: a thread inside `write` holds a registration of owner 0, of an owner that has not
  passed its drain, or of one whose `createPlugin` failed.

From the first three follow `TypeCorrect`, `CountsStayExact`, `OwnersNeverLeak` and, with what is
known of the library between the check of its path and the end of its load (`DiscoveryInv`),
`DiscoveryIsOnce`; with the last two `HotUnloadSafe`, `HandlersRunOnLiveInstances`,
`NothingLeftBehind` and `RefinesHotUnload`. The invariants speak of owners, not of plugins: a
registration made at run time is on owner 0, or on the owner of whatever plugin is in its `init` or
`start` at that moment, and what the properties promise is limited to
handlers under the own owner of their plugin (`ExecutesOwn`).
The step that matters is the drain: the counter is zero, the counter is exact
(`InflightExact`), so no thread is in a call; and the incarnation was retired before,
so none can enter. `RefinesHotUnload`: initial states map to initial states and every step to a
step or a stutter of HotUnload (its safety part, with the mapping `AbsPhase`, `AbsInside`).

**MpmcQueue** (in EventBusProofs), for any threads and items and every capacity of at least 2: `QueueTypeCorrect`,
`CellsAreExclusive`, `FailuresTellTheTruth`, `FullIsFullToOne` and `RefinesFifo`. The invariant `QInv`: the
positions are at most a lap apart (`Lap`); what a producer and a consumer may rely on about the
cell of their position, before and after they have claimed it (`ProducerKnows`,
`ConsumerKnows`); a position is claimed once on each side (`ClaimedOnce`); and the sequence number
of each cell is that of a position it is free for, or one more than that of a position whose
item it has, with threads between claim and publication or release as the only exceptions
(`CellsTold`). Different positions with one cell are at least a lap apart (`LapApart`), which is
what makes a stale position harmless: its compare-and-swap fails. With that invariant every
step of the queue is a step of TicketFifo or a stutter. Looking, writing the item and reading it
are stutters; the two compare-and-swaps are `Claim` and `Take`, the two stores of a sequence
number `Finish` and `Release`. The hard part is `ClaimFits`: that `Claim` finds room follows from
counting, as the positions that are taken go one-to-one into the cells but the one about to be claimed.
`FailuresTellTheTruth`: a producer that gives up has seen its cell a lap behind, which makes its
position the next one to be claimed and leaves the position of one lap ago in use; of the last
lap, what lies behind that position and is free was released out of order. With one
consumer (`OneConsumer`) nothing is, since what it holds was taken last (`LastTaken`), so that "full"
means `Occupied >= Capacity`, the guard of `PublishDrops` in EventBus.

**EventBus**, on top of TicketFifo, for any agenda, subscribers and restarts:
`BusTypeCorrect`, `DeliveryIsOrdered`, `LateCallsEnd`, `CalmStopDrains`. The queue is the end of
the order of claims and the dispatch thread works on the last ticket taken (`OrderInv`);
`Reached(i)` is the place in the order up to which subscription i has been served, depending on
whether the snapshot still has it. A log follows the order up to there (`LogFollows`) and has all
that was due up to there (`LogComplete`). `SubsInv` says that ids are used once and that a
filter accepts what is due under its id; `LateInv` that a removed subscription is called again only
while a snapshot has it; `PendingInv` and `StopInv` who may still be at work when. `RoomInv`
counts the slot that the dispatch thread is emptying; only the type needs it.

**Scheduler**: `SchedulerTypeCorrect`, `DeadlineIsKept`, `RemovedRunsOnce`. `NeverOversleeps`
is inductive given the types; `AtMostOneLateRun` follows from `OnceOnly`: ids are not used again, and a task that has
run late is neither in the table nor among those that are due.

**Topics, TopicTrie, Dispatcher** (DispatcherProofs), for any sessions, patterns and argument
lists: `IndexAlwaysCovers` and `TrieAlwaysCovers`, `TrieTypeCorrect`, `DispatcherTypeCorrect`,
`RoutedAreReady`, `ZeroIsSilence`, `OnlyAskedAlwaysChange` and `MatchIsAlwaysExact`. `Good`
says of a trie that every node is a valid pattern or the prefix of one, which is what makes the
node that `unsubscribe` walks to the node of the very pattern it then takes out of the
index; that index sets are finite; and that the index covers the nodes. `RoutesReady`
ties trie and filters to the sessions, `ZeroIsTrue` the last reply to the trie.
That the walk through the trie, the pairwise matcher and the meaning of the wildcards
agree is about recursive functions and topics of any length. The induction is done by hand:
of the positions where two of them would differ, take the least (`LeastOf`, from the well-founded
order of the naturals), and look one position before it.

**IrspServer**, for any threads, tags, connections and both kinds of lock: `ServerTypeCorrect`,
`PushesAreOrdered`, `RepliesAreOrdered`, `RepliesAreSent`, `FramesAreRemembered`,
`CallbacksEnd`. `Phases` says who can be where between `start` and `stop`, `SetInv` that
the connection whose SET runs is open; together they end the callbacks before the context.
`Queues` says of each outbox that its replies are those from the last one received to the last
one made, and that its pushes of a tag lie in order between the value the client has seen and
the value of now. Lemmas say once what appending a frame and sending one do to that.

**IrspClient**, for any number of calls: `ClientTypeCorrect`, `RepliesMatch` and `ByeIsSafe`. A
reply is given to whoever is first in `_pending`, so the invariant is about positions: `_pending`
holds the latest calls without a gap (`PendingInv`); the i-th reply under way, and behind the replies
the i-th request, belongs to the i-th entry, as far as everything before it was sent
(`RepliesAligned`, `RequestsAligned`); and no reply comes for which there is no entry
(`NothingMissing`). An end of the connection cuts replies at their end only, which keeps the
first two. `Clean(n)` names the exception: once an entry was queued and its request never
sent, nothing is claimed of the calls behind it. `ByeInv` adds that the server ends the
connection only after it has answered BYE, so that every call before it has its reply, read or on
its way, and that `bye` closes only when it has its own.

**TagScan**, for any finite set of names, any shards, patterns and page sizes:
`NothingListedTwice` and `NothingMissed`. The invariant says that the cursor divides
the names (`CursorDivides`): all that was listed is up to it, and of the names up to it
those that stayed were listed; and that a snapshot under way has every tag that stayed, of the
shards it has passed (`SnapshotCovers`). A lemma shows that the lowest k names of a finite set
are closed downwards and not empty, which is what a page relies on.

**Runtime**, for any clients of the admin channel and any number of late pushes: `NothingIsLate`. The property
speaks of the end of `main`; the invariant says for every place of `main` which threads exist and
what each may hold: the admin thread from its start to its join (`AdminInv`), the manager's
mutex (`ManagerInv`), the service thread and the calls it makes (`ServiceInv`), the plugin
(`PluginInv`), its own thread (`DeviceInv`) and the heartbeat (`HeartbeatInv`).

Model-checked only: liveness (`OperationsEnd`, `EventuallyDelivered`, `RunsForever`,
`SubscriberConverges`, `StopReturns`, `EveryCallEnds`, `ShutdownEnds`, `CommandsAreAnswered`) and
the fairness part of HotUnload in `ImplementsHotUnload`. They need ENABLED and induction over behaviours,
which TLAPS 1.4.5 does not support. The type invariants, on the other hand, are proved and
left out of the runs. The violated properties of section 6 are false and have no theorem.

## 6. Where the code does other than it says

1. **Registration at run time** (`plugin_registers_late`). A registration outside
   `init` and `start` goes to owner 0 (`plugin_host.cpp:283-288`), which unload never
   retires: a later `write` calls into a closed library. If another plugin is in its
   `init` or `start` at that moment, the registration goes to the owner of that one, with the same
   result. The documentation allows such registrations. `plugin_manager` has them too: its
   properties and the theorems promise nothing of a handler under an owner that is not
   its plugin's own, and everything they say of the others holds beside such handlers.
2. **Deadlock of stop** (`irsp_stop_deadlock`). With a `std::shared_mutex` that keeps
   readers out while a writer waits: a pusher in the change callback waits for
   `mutex_`; the service thread, which holds it for a SET, waits for `callbackMutex_` as
   a reader; `stop` waits for it as the writer. `irsp_server` shows that
   `stop` returns where readers are preferred.
3. **Late event** (`irsp_late_event`). The bus calls a copied handler after
   `unsubscribe`; `onEvent` uses the context while `stop` destroys it. Tag callbacks
   are safe (`NoTagCallbackLate`).

Noticed while modelling, and part of the models:

* After a failed `init` the instance is destroyed before its writers are withdrawn
  and drained (`plugin_manager.cpp:138-142`); hence the exception `UndoingInit` in
  `NoCallOnUnloadedPlugin`. A failed `createPlugin` does neither (130-132): what the plugin
  had registered stays, and is called in a library that is closed. Hence the exception of `life`
  `"refused"` in `NoResidue`, `NoCallOnUnloadedPlugin` and `NoOwnedCallIntoClosedLibrary`.
* The last drain of the bus ends at the first `tryDequeue` that fails, and a publisher
  between claim and publication makes it fail: events accepted before `stop` may stay
  in the queue behind its ticket. `StopDrainsWhenCalm` says what does hold.
* An entry of a client's `_pending` whose request was never sent (sending fails,
  `client.py:128`, or the caller is cancelled in `ws.send`) stays: every later reply goes to the call
  before its own, and the last call waits for ever. `Clean` excepts exactly these calls.
* A callback that raises ends the reader of the Python client and leaves the connection open:
  later calls are sent and never answered (`reader = "deaf"` in `EveryCallEnds`).
* A tag named `0` that is last on a page ends a client's walk early (`EndIsTheEnd`).
* A client of the admin channel that connects and stays silent keeps the only thread in
  `read`: no other client is served and `stop` does not return, on both platforms. A line cut
  short by the end of the connection is run as a command. On Windows, one failure of
  `CreateNamedPipe` ends the channel for good.
* "队列满" (full, `mpmc_queue.hpp:28` and `:41`) does not mean that every cell is in use. With
  two cells and two consumers: one takes position 0 and pauses before it releases the cell, the other
  takes and releases position 1; the producer of position 2 finds cell 0 in use and is told that the
  queue is full, though cell 1 is free and there is no item. `FailuresAreJustified` says what
  does hold: only cells released before an older one are overlooked. With one consumer, as on
  the bus, "full" is exact (`FullMeansFull`, theorem `FullIsFullToOne`).
* `tryEnqueue` and `tryDequeue` loop after a lost compare-and-swap: the queue is
  lock-free, not wait-free as `mpmc_queue.hpp:13` says.
* UNSUBSCRIBE of `a/#/b` ends the subscription to `a/#` but leaves it in the
  index, so that the count in replies is too high from then on. The error is
  on the safe side (`IndexCovers`, `ZeroMeansSilence`). WATCH and SUBSCRIBE share one
  trie and one count.
* Outboxes have no limit, and HELLO with an unsupported version does not close
  the connection, other than `irsp/doc` says.

## 7. Not modelled

* `MemoryStore` is not used by the runtime. `TagEngine::remove` is not called by
  it either, but is part of the store's interface, and TagScan has it.
* The codec, the conversion of values and the configuration are sequential data
  transformations; the models work on decoded commands. A reply that a client cannot decode is
  dropped without taking its entry; IrspClient has only replies that can be decoded.
* The thunks of the C++ SDK by which a plugin's calls reach the host forward; Runtime has
  pushes from the plugin's thread and from the handler of a SET, not those from inside
  `init` and `start`, which happen in the calling thread and hold nothing but the manager's mutex.
* `TagEngine::write` of an rvalue does as the other one; the stream output of values is layout.
* Logging, statistics (`droppedCount`) and wording.
* `tools/` and the examples use the runtime and are not part of it. Of `irpcli` AdminServer has what
  it does as a client, not the parsing of its arguments and what it prints.
* Weak memory beyond old values of relaxed loads: accesses to items are ordered by
  release and acquire on the sequence number, on which `NoCellRace` is stated.

## 8. Plan

Done, in this order: PluginHost, HotUnload, PluginManager; TicketFifo, MpmcQueue, EventBus;
Scheduler; Topics, TopicTrie, Dispatcher; IrspServer; IrspClient and TagScan; AdminServer,
Runtime; then the proofs of section 5, for all of them.

Next:

1. The steps a liveness proof is made of, as far as they need no ENABLED: for each waiting
   place of `stop`, `unload` and `publish`, that nothing undoes what the wait is for.
2. Codec: the frames of `irsp1_codec.cpp` as operators, with decoding as the inverse of
   encoding over bounded inputs, and its round trip as a lemma where no recursion is needed.
3. One server for two refinements: IrspServer's sets of tags replaced by the trie of Dispatcher,
   which would join `RoutedAreReady` and `PushesAreOrdered` in one statement.
