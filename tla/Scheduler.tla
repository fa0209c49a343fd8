----------------------------- MODULE Scheduler -----------------------------
(***************************************************************************)
(* The task scheduler every layer uses (src/firmware/src/utils/scheduler.cpp): *)
(* tasks are allocated by the calls that schedule them and deleted by a    *)
(* cleanup task, which exists while there are others and deletes itself    *)
(* last. The deque of tasks is a set: nothing depends on its order, and an *)
(* address the allocator returns is not in it. The library below runs the  *)
(* tasks that are enabled and disables one that has no iterations left; a  *)
(* callback that schedules or stops tasks does so as a step of its own     *)
(* after its task has run.                                                 *)
(***************************************************************************)
EXTENDS Integers, FiniteSets

CONSTANTS
  Tasks,          \* addresses the allocator may return
  MaxRepetitions  \* bound: repetitions asked of scheduler_repeat

ASSUME SchedulerAssumption == IsFiniteSet(Tasks) /\ MaxRepetitions \in Nat \ {0}

TASK_FOREVER == -1

VARIABLES
  scheduled_tasks,     \* the tasks that exist
  is_cleanup_running,
  enabled,             \* Task::isEnabled
  iterations,          \* what a task has left to run
  callback             \* "cleanup", or "app" for any other

vars == <<scheduled_tasks, is_cleanup_running, enabled, iterations, callback>>

---------------------------------------------------------------------------
\* Mutant: the cleanup starts with the second task.
NeedsCleanupLate(s) == ~is_cleanup_running /\ Cardinality(s) = 2

\* The condition of _start_cleanup_if_needed.
NeedsCleanup(s) == ~is_cleanup_running /\ Cardinality(s) = 1

\* The new tasks of a call, each with what it has to run.
Create(fresh) ==
  /\ enabled' = [t \in Tasks |-> t \in DOMAIN fresh \/ enabled[t]]
  /\ iterations' = [t \in Tasks |-> IF t \in DOMAIN fresh THEN fresh[t].left ELSE iterations[t]]
  /\ callback' = [t \in Tasks |-> IF t \in DOMAIN fresh THEN fresh[t].cb ELSE callback[t]]

App(left) == [left |-> left, cb |-> "app"]
Cleanup   == [left |-> TASK_FOREVER, cb |-> "cleanup"]

\* A task is created and pushed; the first one brings the cleanup task along,
\* which scheduler_infinite creates.
Schedule(t, left) ==
  LET pushed == scheduled_tasks \union {t} IN
  /\ t \notin scheduled_tasks
  /\ \/ /\ NeedsCleanup(pushed)
        /\ \E c \in Tasks \ pushed :
             /\ Create([x \in {t, c} |-> IF x = t THEN App(left) ELSE Cleanup])
             /\ scheduled_tasks' = pushed \union {c}
        /\ is_cleanup_running' = TRUE
     \/ /\ ~NeedsCleanup(pushed)
        /\ Create([x \in {t} |-> App(left)])
        /\ scheduled_tasks' = pushed
        /\ UNCHANGED is_cleanup_running

scheduler_once(t) == Schedule(t, 1)

scheduler_infinite(t) == Schedule(t, TASK_FOREVER)

scheduler_repeat(t) == \E k \in 1..MaxRepetitions : Schedule(t, k)

\* A caller stops a task it scheduled, as long as that exists. There is a
\* cleanup task then (CleanupWhileTasks), so the call starts none.
scheduler_stop(t) ==
  /\ t \in scheduled_tasks /\ callback[t] = "app"
  /\ enabled' = [enabled EXCEPT ![t] = FALSE]
  /\ UNCHANGED <<scheduled_tasks, is_cleanup_running, iterations, callback>>

---------------------------------------------------------------------------
(* A pass of scheduler_run. *)

\* A task of the layers above runs.
Run(t) ==
  /\ t \in scheduled_tasks /\ callback[t] = "app" /\ enabled[t] /\ iterations[t] # 0
  /\ iterations' = [iterations EXCEPT ![t] = IF @ = TASK_FOREVER THEN @ ELSE @ - 1]
  /\ UNCHANGED <<scheduled_tasks, is_cleanup_running, enabled, callback>>

\* In the pass after its last run the library disables a task.
Expire(t) ==
  /\ t \in scheduled_tasks /\ enabled[t] /\ iterations[t] = 0
  /\ enabled' = [enabled EXCEPT ![t] = FALSE]
  /\ UNCHANGED <<scheduled_tasks, is_cleanup_running, iterations, callback>>

\* Mutant: one task more may be left.
LastTwo(s) == is_cleanup_running /\ Cardinality(s) \in {1, 2}

\* The condition of _stop_cleanup_if_needed.
OnlyCleanupLeft(s) == is_cleanup_running /\ Cardinality(s) = 1

\* Mutant: the flag is left as it was.
DeleteForgetfully(t) ==
  LET kept == {x \in scheduled_tasks : enabled[x]} IN
  /\ t \in scheduled_tasks /\ callback[t] = "cleanup" /\ enabled[t]
  /\ scheduled_tasks' = (IF OnlyCleanupLeft(kept) THEN {} ELSE kept)
  /\ UNCHANGED <<is_cleanup_running, enabled, iterations, callback>>

\* The callback of the cleanup task: it deletes the tasks that are disabled,
\* then itself if it is the only one left.
_delete_completed_tasks(t) ==
  LET kept == {x \in scheduled_tasks : enabled[x]} IN
  /\ t \in scheduled_tasks /\ callback[t] = "cleanup" /\ enabled[t]
  /\ \/ OnlyCleanupLeft(kept) /\ scheduled_tasks' = {} /\ is_cleanup_running' = FALSE
     \/ ~OnlyCleanupLeft(kept) /\ scheduled_tasks' = kept /\ UNCHANGED is_cleanup_running
  /\ UNCHANGED <<enabled, iterations, callback>>

---------------------------------------------------------------------------
Init ==
  /\ scheduled_tasks = {} /\ is_cleanup_running = FALSE
  /\ enabled = [t \in Tasks |-> FALSE]
  /\ iterations = [t \in Tasks |-> 0]
  /\ callback = [t \in Tasks |-> "app"]

TaskStep(t) ==
  \/ scheduler_once(t) \/ scheduler_infinite(t) \/ scheduler_repeat(t)
  \/ scheduler_stop(t)
  \/ Run(t) \/ Expire(t) \/ _delete_completed_tasks(t)

Next == \E t \in Tasks : TaskStep(t)

Spec == Init /\ [][Next]_vars

\* Every pass runs every task that is due.
FairSpec ==
  Spec /\ \A t \in Tasks :
    WF_vars(Run(t)) /\ WF_vars(Expire(t)) /\ WF_vars(_delete_completed_tasks(t))

---------------------------------------------------------------------------
(* Properties. *)

\* Addresses, with what the library keeps of each.
TypeOK ==
  /\ scheduled_tasks \subseteq Tasks
  /\ is_cleanup_running \in BOOLEAN
  /\ enabled \in [Tasks -> BOOLEAN]
  /\ iterations \in [Tasks -> -1..MaxRepetitions]
  /\ callback \in [Tasks -> {"app", "cleanup"}]

Cleaners == {t \in scheduled_tasks : callback[t] = "cleanup"}

\* scheduler.cpp:71-91: there is a cleanup task exactly while the flag says so
\* and while any task exists, it is enabled and the only one: the task that
\* _stop_cleanup_if_needed deletes as its own is its own.
CleanupWhileTasks ==
  /\ is_cleanup_running <=> scheduled_tasks # {}
  /\ is_cleanup_running <=> Cleaners # {}
  /\ \A t \in Cleaners : enabled[t] /\ iterations[t] = TASK_FOREVER
  /\ \A s, t \in Cleaners : s = t

\* scheduler.cpp:54-69, 81-91: a task that is still to run is never deleted,
\* but for the cleanup task, which goes last.
OnlyFinishedLeave ==
  [][\A t \in scheduled_tasks \ scheduled_tasks' :
       ~enabled[t] \/ (callback[t] = "cleanup" /\ scheduled_tasks' = {})]_vars

\* A task that has run out or was stopped gives its memory back.
Collected == \A t \in Tasks : t \in scheduled_tasks /\ ~enabled[t] ~> t \notin scheduled_tasks
=============================================================================
