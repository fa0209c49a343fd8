-------------------------- MODULE SchedulerProofs --------------------------
(***************************************************************************)
(* For every finite set of tasks: the cleanup task exists exactly while    *)
(* other tasks do or did, is the only one of its kind and never runs out,  *)
(* and nothing that is still to run is deleted. What the code counts, the  *)
(* tasks in the deque, is reduced to which tasks they are: with the flag   *)
(* down there is none, and with the flag up the last one is the cleanup.   *)
(***************************************************************************)
EXTENDS Scheduler, FiniteSetTheorems, TLAPS

USE SchedulerAssumption

IInv == TypeOK /\ CleanupWhileTasks

---------------------------------------------------------------------------
\* The first task pushed, and no other, needs the cleanup.
LEMMA FirstNeedsCleanup ==
  ASSUME IInv, NEW t \in Tasks \ scheduled_tasks
  PROVE  NeedsCleanup(scheduled_tasks \union {t}) <=> scheduled_tasks = {}
<1>1. CASE scheduled_tasks = {}
  <2>1. Cardinality({t}) = 1
    BY FS_Singleton
  <2>2. scheduled_tasks \union {t} = {t} /\ ~is_cleanup_running
    BY <1>1 DEF IInv, CleanupWhileTasks
  <2> QED BY <1>1, <2>1, <2>2 DEF NeedsCleanup
<1>2. CASE scheduled_tasks # {}
  BY <1>2 DEF NeedsCleanup, IInv, CleanupWhileTasks
<1> QED BY <1>1, <1>2

\* When one task is left after a cleanup, it is the cleanup task itself.
LEMMA LastIsCleanup ==
  ASSUME IInv, NEW t \in Cleaners,
         OnlyCleanupLeft({x \in scheduled_tasks : enabled[x]})
  PROVE  {x \in scheduled_tasks : enabled[x]} = {t}
<1> DEFINE kept == {x \in scheduled_tasks : enabled[x]}
<1>1. kept \in SUBSET Tasks
  BY DEF IInv, TypeOK
<1>2. IsFiniteSet(kept)
  BY <1>1, FS_Subset
<1>3. t \in kept
  BY DEF IInv, CleanupWhileTasks, Cleaners
<1>4. Cardinality(kept) = 1
  BY DEF OnlyCleanupLeft
<1> HIDE DEF kept
<1>5. PICK y : kept = {y}
  BY <1>2, <1>4, FS_Singleton
<1> QED BY <1>3, <1>5 DEF kept

---------------------------------------------------------------------------
\* A new task, and with the first one its cleanup task.
LEMMA ScheduleStep ==
  ASSUME IInv, NEW t \in Tasks, NEW left \in -1..MaxRepetitions, Schedule(t, left)
  PROVE  IInv'
<1>1. t \in Tasks \ scheduled_tasks
  BY DEF Schedule
<1>2. CASE scheduled_tasks = {}
  <2>1. NeedsCleanup(scheduled_tasks \union {t})
    BY <1>1, <1>2, FirstNeedsCleanup
  <2>2. PICK c \in Tasks \ {t} :
          /\ Create([x \in {t, c} |-> IF x = t THEN App(left) ELSE Cleanup])
          /\ scheduled_tasks' = {t, c}
          /\ is_cleanup_running'
    BY <1>2, <2>1 DEF Schedule
  <2>3. /\ enabled' = [x \in Tasks |-> x \in {t, c} \/ enabled[x]]
        /\ iterations' = [x \in Tasks |->
             IF x = t THEN left ELSE IF x = c THEN TASK_FOREVER ELSE iterations[x]]
        /\ callback' = [x \in Tasks |->
             IF x = t THEN "app" ELSE IF x = c THEN "cleanup" ELSE callback[x]]
    BY <2>2 DEF Create, App, Cleanup
  <2>4. TypeOK'
    BY <2>2, <2>3 DEF IInv, TypeOK, TASK_FOREVER
  <2>5. Cleaners' = {c}
    BY <2>2, <2>3 DEF Cleaners
  <2>6. enabled'[c] /\ iterations'[c] = TASK_FOREVER
    BY <2>2, <2>3
  <2>7. CleanupWhileTasks'
    BY <2>2, <2>5, <2>6 DEF CleanupWhileTasks
  <2> QED BY <2>4, <2>7 DEF IInv
<1>3. CASE scheduled_tasks # {}
  <2>1. /\ Create([x \in {t} |-> App(left)])
        /\ scheduled_tasks' = scheduled_tasks \union {t}
        /\ is_cleanup_running' = is_cleanup_running
    BY <1>1, <1>3, FirstNeedsCleanup DEF Schedule
  <2>2. /\ enabled' = [x \in Tasks |-> x = t \/ enabled[x]]
        /\ iterations' = [x \in Tasks |-> IF x = t THEN left ELSE iterations[x]]
        /\ callback' = [x \in Tasks |-> IF x = t THEN "app" ELSE callback[x]]
    BY <2>1 DEF Create, App
  <2>3. TypeOK'
    BY <2>1, <2>2 DEF IInv, TypeOK
  <2>4. Cleaners' = Cleaners
    BY <1>1, <2>1, <2>2 DEF Cleaners, IInv, TypeOK
  <2>5. \A x \in Cleaners : enabled'[x] /\ iterations'[x] = iterations[x]
    BY <1>1, <2>2 DEF Cleaners, IInv, TypeOK, CleanupWhileTasks
  <2>6. CleanupWhileTasks'
    BY <1>3, <2>1, <2>4, <2>5 DEF IInv, CleanupWhileTasks
  <2> QED BY <2>3, <2>6 DEF IInv
<1> QED BY <1>2, <1>3

\* A step that leaves the cleanup task, the deque and the flag as they are.
LEMMA QuietStep ==
  ASSUME IInv, TypeOK',
         UNCHANGED <<scheduled_tasks, is_cleanup_running, callback>>,
         \A x \in Cleaners : enabled'[x] = enabled[x] /\ iterations'[x] = iterations[x]
  PROVE  IInv'
<1>1. Cleaners' = Cleaners
  BY DEF Cleaners
<1> QED BY <1>1 DEF IInv, CleanupWhileTasks

LEMMA StopStep ==
  ASSUME IInv, NEW t \in Tasks, scheduler_stop(t)
  PROVE  IInv'
<1>1. TypeOK'
  BY DEF scheduler_stop, IInv, TypeOK
<1>2. \A x \in Cleaners : enabled'[x] = enabled[x] /\ iterations'[x] = iterations[x]
  BY DEF scheduler_stop, Cleaners, IInv, TypeOK
<1> QED BY <1>1, <1>2, QuietStep DEF scheduler_stop

LEMMA RunStep ==
  ASSUME IInv, NEW t \in Tasks, Run(t)
  PROVE  IInv'
<1>1. TypeOK'
  BY DEF Run, IInv, TypeOK, TASK_FOREVER
<1>2. \A x \in Cleaners : enabled'[x] = enabled[x] /\ iterations'[x] = iterations[x]
  BY DEF Run, Cleaners, IInv, TypeOK
<1> QED BY <1>1, <1>2, QuietStep DEF Run

\* The task that expires is not the cleanup task, which never runs out.
LEMMA ExpireStep ==
  ASSUME IInv, NEW t \in Tasks, Expire(t)
  PROVE  IInv'
<1>1. TypeOK'
  BY DEF Expire, IInv, TypeOK
<1>2. t \notin Cleaners
  BY DEF Expire, IInv, CleanupWhileTasks, TASK_FOREVER
<1>3. \A x \in Cleaners : enabled'[x] = enabled[x] /\ iterations'[x] = iterations[x]
  BY <1>2 DEF Expire, Cleaners, IInv, TypeOK
<1> QED BY <1>1, <1>3, QuietStep DEF Expire

\* The cleanup keeps itself, or goes last.
LEMMA CleanupStep ==
  ASSUME IInv, NEW t \in Tasks, _delete_completed_tasks(t)
  PROVE  IInv'
<1> DEFINE kept == {x \in scheduled_tasks : enabled[x]}
<1>1. TypeOK'
  BY DEF _delete_completed_tasks, IInv, TypeOK
<1>2. t \in Cleaners
  BY DEF _delete_completed_tasks, Cleaners
<1>3. CASE OnlyCleanupLeft(kept)
  <2>1. scheduled_tasks' = {} /\ ~is_cleanup_running'
    BY <1>3 DEF _delete_completed_tasks
  <2>2. Cleaners' = {}
    BY <2>1 DEF Cleaners
  <2> QED BY <1>1, <2>1, <2>2 DEF IInv, CleanupWhileTasks
<1>4. CASE ~OnlyCleanupLeft(kept)
  <2>1. scheduled_tasks' = kept /\ UNCHANGED <<is_cleanup_running, enabled, iterations, callback>>
    BY <1>4 DEF _delete_completed_tasks
  <2>2. Cleaners' = Cleaners
    BY <2>1 DEF Cleaners, IInv, CleanupWhileTasks
  <2>3. t \in kept /\ is_cleanup_running
    BY <1>2 DEF Cleaners, IInv, CleanupWhileTasks
  <2> QED BY <1>1, <2>1, <2>2, <2>3 DEF IInv, CleanupWhileTasks
<1> QED BY <1>3, <1>4

LEMMA Inductive ==
  ASSUME IInv, [Next]_vars
  PROVE  IInv'
<1>1. CASE UNCHANGED vars
  BY <1>1 DEF vars, IInv, TypeOK, CleanupWhileTasks, Cleaners
<1>2. ASSUME NEW t \in Tasks, TaskStep(t)
      PROVE  IInv'
  <2>1. CASE scheduler_once(t)
    <3>1. 1 \in -1..MaxRepetitions
      OBVIOUS
    <3> QED BY <2>1, <3>1, ScheduleStep DEF scheduler_once
  <2>2. CASE scheduler_infinite(t)
    <3>1. TASK_FOREVER \in -1..MaxRepetitions
      BY DEF TASK_FOREVER
    <3> QED BY <2>2, <3>1, ScheduleStep DEF scheduler_infinite
  <2>3. CASE scheduler_repeat(t)
    <3>1. PICK k \in 1..MaxRepetitions : Schedule(t, k)
      BY <2>3 DEF scheduler_repeat
    <3> QED BY <3>1, ScheduleStep
  <2> QED BY <1>2, <2>1, <2>2, <2>3, StopStep, RunStep, ExpireStep, CleanupStep DEF TaskStep
<1> QED BY <1>1, <1>2 DEF Next

---------------------------------------------------------------------------
\* The inductive invariant.
THEOREM SchedulerInvariant == Spec => []IInv
<1>1. ASSUME Init
      PROVE  IInv
  <2>1. TypeOK
    <3>1. 0 \in -1..MaxRepetitions
      OBVIOUS
    <3>2. iterations \in [Tasks -> -1..MaxRepetitions]
      BY <1>1, <3>1 DEF Init
    <3>3. enabled \in [Tasks -> BOOLEAN] /\ is_cleanup_running \in BOOLEAN
      BY <1>1, Zenon DEF Init
    <3> QED BY <1>1, <3>2, <3>3 DEF Init, TypeOK
  <2>2. Cleaners = {}
    BY <1>1 DEF Init, Cleaners
  <2> QED BY <1>1, <2>1, <2>2 DEF Init, IInv, CleanupWhileTasks
<1>2. IInv /\ [Next]_vars => IInv'
  BY Inductive
<1> QED BY <1>1, <1>2, PTL DEF Spec

\* scheduler.cpp:14-16: the flag, the deque and the library's data of a task.
THEOREM TypeCorrect == Spec => []TypeOK
<1>1. IInv => TypeOK
  BY DEF IInv
<1> QED BY <1>1, SchedulerInvariant, PTL

\* scheduler.cpp:71-91: while there are tasks there is exactly one cleanup
\* task, which is enabled for ever, and the flag says so.
THEOREM CleanupExists == Spec => []CleanupWhileTasks
<1>1. IInv => CleanupWhileTasks
  BY DEF IInv
<1> QED BY <1>1, SchedulerInvariant, PTL

\* scheduler.cpp:54-69: the cleanup deletes only tasks that are disabled, and
\* at the end itself.
THEOREM DeletesOnlyFinished == Spec => OnlyFinishedLeave
<1> DEFINE Leaves == \A t \in scheduled_tasks \ scheduled_tasks' :
                       ~enabled[t] \/ (callback[t] = "cleanup" /\ scheduled_tasks' = {})
<1>1. ASSUME IInv, [Next]_vars
      PROVE  [Leaves]_vars
  <2>1. CASE scheduled_tasks \subseteq scheduled_tasks'
    BY <2>1
  <2>2. CASE ~(scheduled_tasks \subseteq scheduled_tasks')
    <3>1. PICK t \in Tasks : TaskStep(t)
      BY <1>1, <2>2 DEF Next, vars
    <3>2. _delete_completed_tasks(t)
      BY <2>2, <3>1 DEF TaskStep, scheduler_once, scheduler_infinite, scheduler_repeat,
                        Schedule, scheduler_stop, Run, Expire
    <3>3. t \in Cleaners
      BY <3>2 DEF _delete_completed_tasks, Cleaners
    <3>4. CASE OnlyCleanupLeft({x \in scheduled_tasks : enabled[x]})
      <4>1. {x \in scheduled_tasks : enabled[x]} = {t}
        BY <1>1, <3>3, <3>4, LastIsCleanup
      <4> QED BY <3>2, <3>3, <3>4, <4>1 DEF _delete_completed_tasks, Cleaners
    <3>5. CASE ~OnlyCleanupLeft({x \in scheduled_tasks : enabled[x]})
      BY <3>2, <3>5 DEF _delete_completed_tasks
    <3> QED BY <3>4, <3>5
  <2> QED BY <2>1, <2>2
<1>2. IInv /\ [Next]_vars => [Leaves]_vars
  BY <1>1
<1> HIDE DEF Leaves
<1>3. Spec => [][Leaves]_vars
  BY <1>2, SchedulerInvariant, PTL DEF Spec
<1> QED BY <1>3 DEF OnlyFinishedLeave, Leaves
=============================================================================
