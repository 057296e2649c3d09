--------------------------- MODULE SchedulerProofs ---------------------------
(***************************************************************************)
(* For any intervals, any number of tasks and any number of starts: the    *)
(* variables keep their types, the worker never sleeps past a task         *)
(* (NeverOversleeps), and a task runs at most once after removeTask() has  *)
(* returned (AtMostOneLateRun).                                            *)
(*                                                                         *)
(* NeverOversleeps is inductive with the types.  AtMostOneLateRun is not:  *)
(* it holds because ids are not used again and because a task that has run *)
(* late is in the hands of nobody any more (OnceOnly).                     *)
(***************************************************************************)
EXTENDS Scheduler, WellFoundedInduction, TLAPS

TypeInv ==
    /\ tasks \subseteq TaskId /\ nextId \in Nat \ {0}
    /\ interval \in [TaskId -> Nat] /\ left \in [TaskId -> Nat]
    /\ changed \in BOOLEAN /\ woken \in BOOLEAN /\ waitLeft \in Nat
    /\ due \subseteq TaskId /\ (due # {} => lpc = "run")
    /\ late \in [TaskId -> Nat]

\* The values of the variables the other invariants only compare.
PlacesInv ==
    /\ nextId <= MaxTasks + 1
    /\ running \in BOOLEAN /\ stopReq \in BOOLEAN
    /\ lpc \in {"off", "top", "idle", "wait", "run", "exited"}
    /\ spc \in {"idle", "request", "join"}
    /\ starts \in 0 .. MaxStarts

\* The ids that tasks have had.
Used == {i \in TaskId : i < nextId}

\* There is a worker while the scheduler runs and while stop() waits for its end.
WorkerInv ==
    /\ spc # "idle" => ~running
    /\ (~running /\ spc = "idle") <=> lpc = "off"

OnceOnly ==
    /\ tasks \cup due \subseteq Used
    /\ \A i \in TaskId :
         /\ late[i] <= 1
         /\ late[i] = 1 => i \in Used \ (tasks \cup due)

IInv == TypeInv /\ PlacesInv /\ WorkerInv /\ NeverOversleeps /\ OnceOnly

-----------------------------------------------------------------------------

\* What Min of the community modules returns, for the deadline of the wait.
LEMMA MinOfNats ==
  ASSUME NEW S \in SUBSET Nat, S # {}
  PROVE  Min(S) \in S /\ \A y \in S : Min(S) <= y
  <1> DEFINE R == OpToRel(<, Nat)
  <1>1. IsWellFoundedOn(R, Nat)
    BY NatLessThanWellFounded
  <1>2. \A x \in S, y \in S : y < x => <<y, x>> \in R
    BY DEF OpToRel
  <1> HIDE DEF R
  <1>3. PICK x \in S : \A y \in S : <<y, x>> \notin R
    BY <1>1, WFMin
  <1>4. \A y \in S : x <= y
    <2> TAKE y \in S
    <2>1. ~(y < x) /\ x \in Nat /\ y \in Nat
      BY <1>2, <1>3
    <2> QED
      BY <2>1
  <1> QED
    BY <1>4 DEF Min

LEMMA InitHolds == Init => IInv
  <1>1. Init => TypeInv
    <2> SUFFICES ASSUME Init PROVE TypeInv
      OBVIOUS
    <2>1. interval \in [TaskId -> Nat] /\ left \in [TaskId -> Nat] /\ late \in [TaskId -> Nat]
      BY DEF Init
    <2>2. tasks = {} /\ due = {} /\ nextId = 1 /\ waitLeft = 0
      BY DEF Init
    <2>3. changed \in BOOLEAN /\ woken \in BOOLEAN
      BY DEF Init
    <2> QED
      BY <2>1, <2>2, <2>3 DEF TypeInv
  <1>2. Init => PlacesInv
    <2> SUFFICES ASSUME Init PROVE PlacesInv
      OBVIOUS
    <2>1. nextId <= MaxTasks + 1 /\ starts \in 0 .. MaxStarts
      BY SchedulerAssumption DEF Init
    <2>2. running \in BOOLEAN /\ stopReq \in BOOLEAN
      BY DEF Init
    <2> QED
      BY <2>1, <2>2 DEF Init, PlacesInv
  <1>3. Init => WorkerInv /\ NeverOversleeps /\ OnceOnly
    BY DEF Init, WorkerInv, NeverOversleeps, OnceOnly, Used
  <1> QED
    BY <1>1, <1>2, <1>3 DEF IInv

-----------------------------------------------------------------------------
(* The types.                                                              *)

LEMMA TypeStep ==
  ASSUME TypeInv, WorkerInv, Next
  PROVE  TypeInv'
  <1> USE SchedulerAssumption DEF TypeInv, taskVars, loopVars, stopVars
  <1>1. ASSUME NEW k \in Intervals, AddPeriodicTask(k) PROVE TypeInv'
    BY <1>1 DEF AddPeriodicTask, TaskId
  <1>2. ASSUME NEW i \in TaskId, RemoveTask(i) PROVE TypeInv'
    BY <1>2 DEF RemoveTask
  <1>3. CASE LoopTop
    <2>1. CASE tasks = {} \/ stopReq
      BY <1>3, <2>1 DEF LoopTop
    <2>2. CASE tasks # {} /\ ~stopReq
      <3> DEFINE S == {left[i] : i \in tasks}
      <3>1. S \in SUBSET Nat /\ S # {}
        BY <2>2
      <3>2. lpc' = "wait" /\ waitLeft' = Min(S)
        BY <1>3, <2>2 DEF LoopTop
      <3> HIDE DEF S
      <3>3. waitLeft' \in Nat
        BY <3>1, <3>2, MinOfNats
      <3> QED
        BY <1>3, <3>2, <3>3 DEF LoopTop
    <2> QED
      BY <2>1, <2>2
  <1>4. CASE IdleWakes
    BY <1>4 DEF IdleWakes
  <1>5. CASE WaitInterrupted
    BY <1>5 DEF WaitInterrupted, Waking
  <1>6. CASE WaitTimesOut
    BY <1>6 DEF WaitTimesOut, Waking
  <1>7. ASSUME NEW i \in TaskId, RunTask(i) PROVE TypeInv'
    BY <1>7 DEF RunTask
  <1>8. CASE RunEnds
    BY <1>8 DEF RunEnds
  <1>9. CASE Tick
    <2>1. \A n \in Nat : Before(n) \in Nat
      BY DEF Before
    <2>2. left' \in [TaskId -> Nat] /\ waitLeft' \in Nat
      BY <1>9, <2>1 DEF Tick
    <2> QED
      BY <1>9, <2>2 DEF Tick
  <1>10. CASE Start \/ StopBegins \/ StopRequests \/ StopJoins
    BY <1>10 DEF Start, StopBegins, StopRequests, StopJoins, WorkerInv
  <1> QED
    BY <1>1, <1>2, <1>3, <1>4, <1>5, <1>6, <1>7, <1>8, <1>9, <1>10 DEF Next, LoopStep, StopStep

LEMMA PlacesStep ==
  ASSUME TypeInv, PlacesInv, Next
  PROVE  PlacesInv'
  <1> USE SchedulerAssumption DEF TypeInv, PlacesInv, taskVars, loopVars, stopVars
  <1>1. ASSUME NEW k \in Intervals, AddPeriodicTask(k) PROVE PlacesInv'
    BY <1>1 DEF AddPeriodicTask
  <1>2. ASSUME NEW i \in TaskId, RemoveTask(i) \/ RunTask(i) PROVE PlacesInv'
    BY <1>2 DEF RemoveTask, RunTask
  <1>3. CASE LoopTop \/ IdleWakes \/ WaitInterrupted
    BY <1>3 DEF LoopTop, IdleWakes, WaitInterrupted, Waking
  <1>4. CASE WaitTimesOut \/ RunEnds \/ Tick
    BY <1>4 DEF WaitTimesOut, Waking, RunEnds, Tick
  <1>5. CASE Start
    <2>1. starts' \in 0 .. MaxStarts
      BY <1>5 DEF Start
    <2>2. running' \in BOOLEAN /\ stopReq' \in BOOLEAN
      BY <1>5 DEF Start
    <2> QED
      BY <1>5, <2>1, <2>2 DEF Start
  <1>6. CASE StopBegins \/ StopRequests \/ StopJoins
    BY <1>6 DEF StopBegins, StopRequests, StopJoins
  <1> QED
    BY <1>1, <1>2, <1>3, <1>4, <1>5, <1>6 DEF Next, LoopStep, StopStep

LEMMA WorkerStep ==
  ASSUME WorkerInv, Next
  PROVE  WorkerInv'
  <1> USE DEF WorkerInv, taskVars, loopVars, stopVars
  <1>1. ASSUME NEW k \in Intervals, AddPeriodicTask(k) PROVE WorkerInv'
    BY <1>1 DEF AddPeriodicTask
  <1>2. ASSUME NEW i \in TaskId, RemoveTask(i) \/ RunTask(i) PROVE WorkerInv'
    BY <1>2 DEF RemoveTask, RunTask
  <1>3. CASE LoopTop \/ IdleWakes \/ WaitInterrupted
    BY <1>3 DEF LoopTop, IdleWakes, WaitInterrupted, Waking
  <1>4. CASE WaitTimesOut \/ RunEnds \/ Tick
    BY <1>4 DEF WaitTimesOut, Waking, RunEnds, Tick
  <1>5. CASE Start \/ StopBegins \/ StopRequests \/ StopJoins
    BY <1>5 DEF Start, StopBegins, StopRequests, StopJoins
  <1> QED
    BY <1>1, <1>2, <1>3, <1>4, <1>5 DEF Next, LoopStep, StopStep

-----------------------------------------------------------------------------
(* The deadline.                                                           *)

\* Whoever changes the table wakes the worker; time passes for the deadline as it does for
\* the tasks.
LEMMA DeadlineStep ==
  ASSUME TypeInv, NeverOversleeps, Next
  PROVE  NeverOversleeps'
  <1> USE DEF NeverOversleeps, taskVars, loopVars, stopVars
  <1>1. ASSUME NEW k \in Intervals, AddPeriodicTask(k) PROVE NeverOversleeps'
    BY <1>1 DEF AddPeriodicTask
  <1>2. ASSUME NEW i \in TaskId, RemoveTask(i) PROVE NeverOversleeps'
    BY <1>2 DEF RemoveTask
  <1>3. CASE LoopTop
    <2>1. CASE tasks = {} \/ stopReq
      BY <1>3, <2>1 DEF LoopTop
    <2>2. CASE tasks # {} /\ ~stopReq
      <3> DEFINE S == {left[i] : i \in tasks}
      <3>1. S \in SUBSET Nat /\ S # {}
        BY <2>2 DEF TypeInv
      <3>2. \A i \in tasks : left[i] \in S
        OBVIOUS
      <3>3. lpc' = "wait" /\ waitLeft' = Min(S) /\ UNCHANGED <<tasks, left>>
        BY <1>3, <2>2 DEF LoopTop
      <3> HIDE DEF S
      <3>4. \A i \in tasks : Min(S) <= left[i]
        BY <3>1, <3>2, MinOfNats
      <3> QED
        BY <3>3, <3>4
    <2> QED
      BY <2>1, <2>2
  <1>4. CASE IdleWakes
    BY <1>4 DEF IdleWakes
  <1>5. CASE WaitInterrupted \/ WaitTimesOut
    BY <1>5 DEF WaitInterrupted, WaitTimesOut, Waking
  <1>6. ASSUME NEW i \in TaskId, RunTask(i) PROVE NeverOversleeps'
    BY <1>6 DEF RunTask
  <1>7. CASE RunEnds
    BY <1>7 DEF RunEnds
  <1>8. CASE Tick
    <2>1. \A i \in tasks : waitLeft <= left[i] => waitLeft' <= left'[i]
      BY <1>8 DEF Tick, Before, TypeInv
    <2> QED
      BY <1>8, <2>1 DEF Tick
  <1>9. CASE Start \/ StopBegins \/ StopRequests \/ StopJoins
    BY <1>9 DEF Start, StopBegins, StopRequests, StopJoins
  <1> QED
    BY <1>1, <1>2, <1>3, <1>4, <1>5, <1>6, <1>7, <1>8, <1>9 DEF Next, LoopStep, StopStep

-----------------------------------------------------------------------------
(* Late runs.                                                              *)

LEMMA LateStep ==
  ASSUME TypeInv, OnceOnly, Next
  PROVE  OnceOnly'
  <1> USE DEF TypeInv, OnceOnly, Used, taskVars, loopVars, stopVars
  <1>1. ASSUME NEW k \in Intervals, AddPeriodicTask(k) PROVE OnceOnly'
    BY <1>1 DEF AddPeriodicTask, TaskId
  <1>2. ASSUME NEW i \in TaskId, RemoveTask(i) PROVE OnceOnly'
    BY <1>2 DEF RemoveTask
  <1>3. CASE LoopTop \/ IdleWakes \/ WaitInterrupted \/ RunEnds \/ Tick
    BY <1>3 DEF LoopTop, IdleWakes, WaitInterrupted, Waking, RunEnds, Tick
  <1>4. CASE WaitTimesOut
    <2>1. due' \subseteq tasks /\ UNCHANGED <<tasks, nextId, late>>
      BY <1>4 DEF WaitTimesOut
    <2> QED
      BY <2>1
  <1>5. ASSUME NEW i \in TaskId, RunTask(i) PROVE OnceOnly'
    BY <1>5 DEF RunTask
  <1>6. CASE Start \/ StopBegins \/ StopRequests \/ StopJoins
    BY <1>6 DEF Start, StopBegins, StopRequests, StopJoins
  <1> QED
    BY <1>1, <1>2, <1>3, <1>4, <1>5, <1>6 DEF Next, LoopStep, StopStep

-----------------------------------------------------------------------------

LEMMA StutterInv == IInv /\ UNCHANGED vars => IInv'
  BY DEF vars, taskVars, loopVars, stopVars, IInv, TypeInv, PlacesInv, WorkerInv, NeverOversleeps,
         OnceOnly, Used

LEMMA Inductive == IInv /\ [Next]_vars => IInv'
  BY TypeStep, PlacesStep, WorkerStep, DeadlineStep, LateStep, StutterInv DEF IInv

\* Types; ids are given once, and collected tasks are run before anything else.
THEOREM SchedulerTypeCorrect == Spec => []TypeOK
  <1>1. IInv => TypeOK
    <2> SUFFICES ASSUME IInv PROVE TypeOK
      OBVIOUS
    <2>1. nextId \in 1 .. MaxTasks + 1
      BY SchedulerAssumption DEF IInv, TypeInv, PlacesInv
    <2>2. tasks \subseteq 1 .. nextId - 1
      BY <2>1 DEF IInv, OnceOnly, Used, TaskId
    <2> QED
      BY <2>1, <2>2 DEF IInv, TypeInv, PlacesInv, WorkerInv, TypeOK
  <1> QED
    BY InitHolds, Inductive, <1>1, PTL DEF Spec

\* The worker never sleeps past a task, whatever is added and removed while it sleeps.
THEOREM DeadlineIsKept == Spec => []NeverOversleeps
  <1>1. IInv => NeverOversleeps
    BY DEF IInv
  <1> QED
    BY InitHolds, Inductive, <1>1, PTL DEF Spec

\* A task that was removed runs once more at most, also across stop and start.
THEOREM RemovedRunsOnce == Spec => []AtMostOneLateRun
  <1>1. IInv => AtMostOneLateRun
    BY DEF IInv, OnceOnly, AtMostOneLateRun
  <1> QED
    BY InitHolds, Inductive, <1>1, PTL DEF Spec
=============================================================================
