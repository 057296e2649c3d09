------------------------------ MODULE Scheduler ------------------------------
(***************************************************************************)
(* core/scheduler/scheduler.cpp: periodic tasks, run one after the other   *)
(* by one thread that sleeps until the next one is due.                    *)
(*                                                                         *)
(* Time is relative: left[i] is nextRun minus now, in ticks; how long a    *)
(* task is overdue does not matter, because nextRun is set from the clock. *)
(* version_ is compared with the value read before the wait and with       *)
(* nothing else: `changed' says whether they differ.  Every section under  *)
(* mutex_ is one step; tasks run with the mutex free, and what a task does *)
(* to the scheduler is a step of its own.  start and stop are called by    *)
(* one thread, as RuntimeEngine does.                                      *)
(***************************************************************************)
EXTENDS Naturals, FiniteSets, FiniteSetsExt

CONSTANTS Intervals,   \* intervals of tasks, in ticks
          MaxTasks,    \* bound: tasks added, nextId_ is 64 bits wide
          MaxStarts    \* bound: calls of start() that start a thread

ASSUME SchedulerAssumption ==
    /\ Intervals \subseteq Nat
    /\ MaxTasks \in Nat /\ MaxStarts \in Nat

VARIABLES tasks,      \* the keys of tasks_
          interval,   \* Entry::interval
          left,       \* Entry::nextRun, from now
          nextId,     \* nextId_
          changed,    \* version_ # observedVersion
          running,    \* running_
          stopReq,    \* the stop token of the worker
          lpc,        \* where the worker is in runLoop; "off": there is none
          waitLeft,   \* the deadline of its wait, from now
          woken,      \* cv_ was notified since the wait began
          due,        \* collected tasks it has still to run
          spc,        \* where the caller of stop() is
          starts,     \* threads started so far
          late        \* ghost: runs begun after removeTask() returned

taskVars == <<tasks, interval, left, nextId>>
loopVars == <<lpc, waitLeft, due>>
stopVars == <<running, stopReq, spc, starts>>
vars == <<taskVars, changed, woken, loopVars, stopVars, late>>

TaskId == 1 .. MaxTasks

Init ==
    /\ tasks = {} /\ nextId = 1
    /\ interval = [i \in TaskId |-> 0] /\ left = [i \in TaskId |-> 0]
    /\ changed = FALSE /\ woken = FALSE
    /\ lpc = "off" /\ waitLeft = 0 /\ due = {}
    /\ running = FALSE /\ stopReq = FALSE /\ spc = "idle" /\ starts = 0
    /\ late = [i \in TaskId |-> 0]

-----------------------------------------------------------------------------
(* The task table.                                                         *)

\* The sleeper is woken but told that nothing has changed.
AddPeriodicTask_NoVersion(k) ==
    /\ nextId <= MaxTasks
    /\ tasks' = tasks \cup {nextId}
    /\ interval' = [interval EXCEPT ![nextId] = k]
    /\ left' = [left EXCEPT ![nextId] = k]
    /\ nextId' = nextId + 1
    /\ woken' = TRUE
    /\ UNCHANGED <<changed, loopVars, stopVars, late>>

AddPeriodicTask(k) ==
    /\ nextId <= MaxTasks
    /\ tasks' = tasks \cup {nextId}
    /\ interval' = [interval EXCEPT ![nextId] = k]
    /\ left' = [left EXCEPT ![nextId] = k]
    /\ nextId' = nextId + 1
    /\ changed' = TRUE /\ woken' = TRUE
    /\ UNCHANGED <<loopVars, stopVars, late>>

\* An id that is not in the table changes nothing.
RemoveTask(i) ==
    /\ i \in tasks
    /\ tasks' = tasks \ {i}
    /\ changed' = TRUE /\ woken' = TRUE
    /\ UNCHANGED <<interval, left, nextId, loopVars, stopVars, late>>

-----------------------------------------------------------------------------
(* runLoop.                                                                *)

\* From the loop test to the wait, under the mutex.
LoopTop ==
    /\ lpc = "top"
    /\ changed' = FALSE /\ woken' = FALSE
    /\ IF stopReq THEN lpc' = "exited" /\ UNCHANGED waitLeft
       ELSE IF tasks = {} THEN lpc' = "idle" /\ UNCHANGED waitLeft
       ELSE lpc' = "wait" /\ waitLeft' = Min({left[i] : i \in tasks})
    /\ UNCHANGED <<taskVars, due, stopVars, late>>

\* cv_.wait with no task: the predicate is tested when notified.
IdleWakes ==
    /\ lpc = "idle" /\ (woken \/ stopReq)
    /\ lpc' = IF stopReq \/ tasks # {} THEN "top" ELSE "idle"
    /\ woken' = FALSE
    /\ UNCHANGED <<taskVars, changed, waitLeft, due, stopVars, late>>

Waking == lpc = "wait" /\ (woken \/ stopReq \/ waitLeft = 0)

\* Stopped, or the table has changed.
WaitInterrupted ==
    /\ Waking /\ (stopReq \/ changed)
    /\ lpc' = IF stopReq THEN "exited" ELSE "top"
    /\ UNCHANGED <<taskVars, changed, woken, waitLeft, due, stopVars, late>>

\* Only the task the thread slept for is collected, the others are set back too.
WaitTimesOut_RunsOne ==
    /\ Waking /\ ~stopReq /\ ~changed /\ waitLeft = 0
    /\ LET ready == {i \in tasks : left[i] = 0}
       IN  /\ due' = {Min(ready)}
           /\ left' = [i \in TaskId |-> IF i \in ready THEN interval[i] ELSE left[i]]
    /\ lpc' = "run"
    /\ UNCHANGED <<tasks, interval, nextId, changed, woken, waitLeft, stopVars,
                   late>>

WaitTimesOut ==
    /\ Waking /\ ~stopReq /\ ~changed /\ waitLeft = 0
    /\ due' = {i \in tasks : left[i] = 0}
    /\ left' = [i \in TaskId |-> IF i \in due' THEN interval[i] ELSE left[i]]
    /\ lpc' = "run"
    /\ UNCHANGED <<tasks, interval, nextId, changed, woken, waitLeft, stopVars,
                   late>>

\* A task that throws is put back and tried again.
RunTask_Retries(i) ==
    /\ lpc = "run" /\ i \in due
    /\ due' \in {due, due \ {i}}
    /\ late' = IF i \in tasks THEN late ELSE [late EXCEPT ![i] = @ + 1]
    /\ UNCHANGED <<taskVars, changed, woken, lpc, waitLeft, stopVars>>

\* Collected copies run in any order; the table may have changed meanwhile.
RunTask(i) ==
    /\ lpc = "run" /\ i \in due
    /\ due' = due \ {i}
    /\ late' = IF i \in tasks THEN late ELSE [late EXCEPT ![i] = @ + 1]
    /\ UNCHANGED <<taskVars, changed, woken, lpc, waitLeft, stopVars>>

RunEnds ==
    /\ lpc = "run" /\ due = {}
    /\ lpc' = "top"
    /\ UNCHANGED <<taskVars, changed, woken, waitLeft, due, stopVars, late>>

\* Time goes on, whoever holds what.
Before(n) == IF n = 0 THEN 0 ELSE n - 1

Tick ==
    /\ left' = [i \in TaskId |-> IF i \in tasks THEN Before(left[i]) ELSE left[i]]
    /\ waitLeft' = Before(waitLeft)
    /\ UNCHANGED <<tasks, interval, nextId, changed, woken, lpc, due, stopVars,
                   late>>

-----------------------------------------------------------------------------
(* start and stop.                                                         *)

Start ==
    /\ ~running /\ spc = "idle" /\ starts < MaxStarts
    /\ running' = TRUE /\ starts' = starts + 1
    /\ stopReq' = FALSE /\ lpc' = "top"
    /\ UNCHANGED <<taskVars, changed, woken, waitLeft, due, spc, late>>

StopBegins ==
    /\ running /\ spc = "idle"
    /\ running' = FALSE /\ spc' = "request"
    /\ UNCHANGED <<taskVars, changed, woken, loopVars, stopReq, starts, late>>

\* Notifies, but the worker is not told to stop.
StopRequests_NotifiesOnly ==
    /\ spc = "request"
    /\ woken' = TRUE /\ spc' = "join"
    /\ UNCHANGED <<taskVars, changed, loopVars, running, stopReq, starts, late>>

StopRequests ==
    /\ spc = "request"
    /\ stopReq' = TRUE /\ woken' = TRUE /\ spc' = "join"
    /\ UNCHANGED <<taskVars, changed, loopVars, running, starts, late>>

StopJoins ==
    /\ spc = "join" /\ lpc = "exited"
    /\ spc' = "idle" /\ lpc' = "off"
    /\ UNCHANGED <<taskVars, changed, woken, waitLeft, due, running, stopReq,
                   starts, late>>

-----------------------------------------------------------------------------

LoopStep ==
    \/ LoopTop \/ IdleWakes \/ WaitInterrupted \/ WaitTimesOut
    \/ (\E i \in TaskId : RunTask(i)) \/ RunEnds

StopStep == StopRequests \/ StopJoins

Next ==
    \/ \E k \in Intervals : AddPeriodicTask(k)
    \/ \E i \in TaskId : RemoveTask(i)
    \/ LoopStep \/ Tick
    \/ Start \/ StopBegins \/ StopStep

\* Threads that can run do, tasks return, and time passes.
Fairness == WF_vars(LoopStep) /\ WF_vars(StopStep) /\ WF_vars(Tick)

Spec == Init /\ [][Next]_vars /\ Fairness

-----------------------------------------------------------------------------
(* Properties.                                                             *)

\* Types; collected tasks are run before the worker does anything else, and a
\* scheduler that is not running has no worker left, or one that stop() awaits.
TypeOK ==
    /\ tasks \subseteq 1 .. nextId - 1 /\ nextId \in 1 .. MaxTasks + 1
    /\ interval \in [TaskId -> Nat] /\ left \in [TaskId -> Nat]
    /\ changed \in BOOLEAN /\ woken \in BOOLEAN
    /\ running \in BOOLEAN /\ stopReq \in BOOLEAN
    /\ lpc \in {"off", "top", "idle", "wait", "run", "exited"}
    /\ waitLeft \in Nat
    /\ due \subseteq TaskId /\ (due # {} => lpc = "run")
    /\ spc \in {"idle", "request", "join"}
    /\ starts \in 0 .. MaxStarts
    /\ (~running /\ spc = "idle") <=> lpc = "off"

\* The worker never sleeps past a task: unless a change of the table is about to
\* wake it, its deadline is no later than the next run of any task, whatever was
\* added or removed while it slept.
NeverOversleeps ==
    /\ lpc = "idle" => tasks = {} \/ woken
    /\ lpc = "wait" =>
         (changed /\ woken) \/ \A i \in tasks : waitLeft <= left[i]

\* After removeTask() has returned the task may still run, because it was
\* collected before, but only once, even across stop and start.
AtMostOneLateRun == \A i \in TaskId : late[i] <= 1

\* A task that stays in the table of a scheduler that stays up is run again and
\* again, whatever other tasks come, go and take their time.
RunsForever ==
    \A i \in TaskId :
        <>[](i \in tasks /\ running) => []<><<RunTask(i)>>_vars

\* stop() returns, whether the worker sleeps with or without a deadline or runs
\* tasks.
StopReturns == spc # "idle" ~> spc = "idle"
=============================================================================
