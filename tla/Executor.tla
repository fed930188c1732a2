------------------------------ MODULE Executor ------------------------------
(***************************************************************************)
(* The async executor of the kernel crate (kernel/src): Handle::add_task,  *)
(* Kernel::run, Task::run and the wakers it hands to the futures.          *)
(*                                                                         *)
(* There is one run loop.  Around it run the contexts that call add_task   *)
(* (Callers) and the contexts that make a condition true that a future is  *)
(* waiting for and then wake it (Sources): interrupt handlers and other    *)
(* tasks.  An interrupt can be taken between any two steps of the loop and *)
(* of a caller, so all of them are interleaved step by step.               *)
(*                                                                         *)
(* The futures are the code the executor runs.  Each of them follows the   *)
(* contract of Future::poll: it leaves a clone of its waker with the event *)
(* source before it looks at the condition it waits for.                   *)
(***************************************************************************)
EXTENDS Integers, Sequences, Functions

CONSTANTS Callers,   \* contexts holding a Handle
          Sources,   \* contexts that signal events and wake tasks
          MaxTasks,  \* bound: number of tasks that are ever added
          MaxQueue,  \* bound: no new event while the run queue is this long
          Trivial,   \* tasks whose future is ready on its first poll
          Finite     \* tasks whose future is ready once its event occurred

ASSUME BoundAssumption == MaxTasks \in Nat /\ MaxQueue \in Nat

VARIABLES id_count,   \* Handle::id_count
          add_queue,  \* task_add_queue: tasks the loop has not taken over yet
          run_queue,  \* ids to poll, oldest first
          tasks,      \* Kernel::tasks
          adding,     \* where each caller is inside add_task
          pc, run_id, \* where the run loop is, and the id it works on
          future,     \* what each task's future has come to
          wakers,     \* tasks with a waker registered at their event source
          signal,     \* tasks whose awaited condition is true and not yet seen
          waking      \* the task each source has signalled but not yet woken

vars == <<id_count, add_queue, run_queue, tasks, adding, pc, run_id, future,
          wakers, signal, waking>>

TaskID == 0..MaxTasks-1

NoTask == -1

Idle == [at |-> "idle", id |-> NoTask]

Init ==
  /\ id_count = 0
  /\ add_queue = <<>>
  /\ run_queue = <<>>
  /\ tasks = <<>>
  /\ adding = [c \in Callers |-> Idle]
  /\ pc = "dequeue"
  /\ run_id = NoTask
  /\ future = [t \in TaskID |-> "new"]
  /\ wakers = {}
  /\ signal = {}
  /\ waking = [s \in Sources |-> NoTask]

-----------------------------------------------------------------------------
(* Handle::add_task and add_raw_task: draw an id, hand the task over, then  *)
(* queue its id for the first poll.                                        *)

\* Mutant: the counter is read but not moved on.
FetchId_NoIncrement(c) ==
  /\ adding[c] = Idle
  /\ id_count < MaxTasks
  /\ adding' = [adding EXCEPT ![c] = [at |-> "task", id |-> id_count]]
  /\ UNCHANGED <<id_count, add_queue, run_queue, tasks, pc, run_id, future,
                 wakers, signal, waking>>

FetchId(c) ==
  /\ adding[c] = Idle
  /\ id_count < MaxTasks
  /\ adding' = [adding EXCEPT ![c] = [at |-> "task", id |-> id_count]]
  /\ id_count' = id_count + 1
  /\ UNCHANGED <<add_queue, run_queue, tasks, pc, run_id, future, wakers,
                 signal, waking>>

\* Mutant: the id is queued before the task is handed over.
EnqueueTask_IdFirst(c) ==
  /\ adding[c].at = "task"
  /\ run_queue' = Append(run_queue, adding[c].id)
  /\ adding' = [adding EXCEPT ![c].at = "id"]
  /\ UNCHANGED <<id_count, add_queue, tasks, pc, run_id, future, wakers,
                 signal, waking>>

EnqueueTask(c) ==
  /\ adding[c].at = "task"
  /\ add_queue' = Append(add_queue, adding[c].id)
  /\ adding' = [adding EXCEPT ![c].at = "id"]
  /\ UNCHANGED <<id_count, run_queue, tasks, pc, run_id, future, wakers,
                 signal, waking>>

\* Mutant: the new task is handed over but nothing queues its first poll.
EnqueueId_Dropped(c) ==
  /\ adding[c].at = "id"
  /\ adding' = [adding EXCEPT ![c] = Idle]
  /\ UNCHANGED <<id_count, add_queue, run_queue, tasks, pc, run_id, future,
                 wakers, signal, waking>>

EnqueueId(c) ==
  /\ adding[c].at = "id"
  /\ run_queue' = Append(run_queue, adding[c].id)
  /\ adding' = [adding EXCEPT ![c] = Idle]
  /\ UNCHANGED <<id_count, add_queue, tasks, pc, run_id, future, wakers,
                 signal, waking>>

-----------------------------------------------------------------------------
(* Kernel::run.  The loop itself holds a sender of the run queue, so the    *)
(* queue is never closed and dequeue only waits while it is empty.         *)

Dequeue ==
  /\ pc = "dequeue"
  /\ run_queue # <<>>
  /\ run_id' = Head(run_queue)
  /\ run_queue' = Tail(run_queue)
  /\ pc' = "drain"
  /\ UNCHANGED <<id_count, add_queue, tasks, adding, future, wakers, signal,
                 waking>>

TakeOver ==
  /\ pc = "drain"
  /\ add_queue # <<>>
  /\ tasks' = Append(tasks, Head(add_queue))
  /\ add_queue' = Tail(add_queue)
  /\ UNCHANGED <<id_count, run_queue, adding, pc, run_id, future, wakers,
                 signal, waking>>

Drained ==
  /\ pc = "drain"
  /\ add_queue = <<>>
  /\ pc' = "find"
  /\ UNCHANGED <<id_count, add_queue, run_queue, tasks, adding, run_id, future,
                 wakers, signal, waking>>

Find ==
  /\ pc = "find"
  /\ pc' = IF run_id \in Range(tasks) THEN "poll" ELSE "dequeue"
  /\ UNCHANGED <<id_count, add_queue, run_queue, tasks, adding, run_id, future,
                 wakers, signal, waking>>

-----------------------------------------------------------------------------
(* Task::run: create_waker, then Future::poll.  Kernel::run ignores the     *)
(* result, so a task stays in tasks after its future is ready; the futures *)
(* of async functions panic when they are polled again after that.         *)

PollTrivial ==
  /\ pc = "poll"
  /\ future[run_id] # "ready"
  /\ run_id \in Trivial
  /\ future' = [future EXCEPT ![run_id] = "ready"]
  /\ pc' = "dequeue"
  /\ UNCHANGED <<id_count, add_queue, run_queue, tasks, adding, run_id, wakers,
                 signal, waking>>

PollRegister ==
  /\ pc = "poll"
  /\ future[run_id] # "ready"
  /\ run_id \notin Trivial
  /\ wakers' = wakers \cup {run_id}
  /\ future' = [future EXCEPT ![run_id] = "pending"]
  /\ pc' = "check"
  /\ UNCHANGED <<id_count, add_queue, run_queue, tasks, adding, run_id, signal,
                 waking>>

PollCompleted ==
  /\ pc = "poll"
  /\ future[run_id] = "ready"
  /\ pc' = "panicked"
  /\ UNCHANGED <<id_count, add_queue, run_queue, tasks, adding, run_id, future,
                 wakers, signal, waking>>

CheckPending ==
  /\ pc = "check"
  /\ run_id \notin signal
  /\ pc' = "dequeue"
  /\ UNCHANGED <<id_count, add_queue, run_queue, tasks, adding, run_id, future,
                 wakers, signal, waking>>

\* The future sees its event and is ready.
CheckReady ==
  /\ pc = "check"
  /\ run_id \in signal
  /\ run_id \in Finite
  /\ signal' = signal \ {run_id}
  /\ future' = [future EXCEPT ![run_id] = "ready"]
  /\ pc' = "dequeue"
  /\ UNCHANGED <<id_count, add_queue, run_queue, tasks, adding, run_id, wakers,
                 waking>>

\* The future sees its event and awaits the next one in the same poll.
CheckAgain ==
  /\ pc = "check"
  /\ run_id \in signal
  /\ run_id \notin Finite
  /\ signal' = signal \ {run_id}
  /\ pc' = "poll"
  /\ UNCHANGED <<id_count, add_queue, run_queue, tasks, adding, run_id, future,
                 wakers, waking>>

\* The future sees its event and yields: wake_by_ref on its own waker.
CheckYield ==
  /\ pc = "check"
  /\ run_id \in signal
  /\ run_id \notin Finite
  /\ signal' = signal \ {run_id}
  /\ run_queue' = Append(run_queue, run_id)
  /\ pc' = "dequeue"
  /\ UNCHANGED <<id_count, add_queue, tasks, adding, run_id, future, wakers,
                 waking>>

-----------------------------------------------------------------------------
(* The event sources.  wake and wake_by_ref queue the id again, whatever   *)
(* the loop is doing and whether or not the id is queued already.          *)

Signal(s, t) ==
  /\ waking[s] = NoTask
  /\ t < id_count
  /\ Len(run_queue) < MaxQueue
  /\ signal' = signal \cup {t}
  /\ waking' = [waking EXCEPT ![s] = t]
  /\ UNCHANGED <<id_count, add_queue, run_queue, tasks, adding, pc, run_id,
                 future, wakers>>

\* Mutant: a task that is being polled is not queued again.
wake_NotWhilePolled(s) ==
  /\ waking[s] # NoTask
  /\ run_queue' = IF waking[s] \in wakers /\ ~(pc = "check" /\ run_id = waking[s])
                    THEN Append(run_queue, waking[s]) ELSE run_queue
  /\ wakers' = wakers \ {waking[s]}
  /\ waking' = [waking EXCEPT ![s] = NoTask]
  /\ UNCHANGED <<id_count, add_queue, tasks, adding, pc, run_id, future, signal>>

wake(s) ==
  /\ waking[s] # NoTask
  /\ run_queue' = IF waking[s] \in wakers
                    THEN Append(run_queue, waking[s]) ELSE run_queue
  /\ wakers' = wakers \ {waking[s]}
  /\ waking' = [waking EXCEPT ![s] = NoTask]
  /\ UNCHANGED <<id_count, add_queue, tasks, adding, pc, run_id, future, signal>>

-----------------------------------------------------------------------------

AddTask(c) == FetchId(c) \/ EnqueueTask(c) \/ EnqueueId(c)

Poll ==
  \/ PollTrivial \/ PollRegister \/ PollCompleted
  \/ CheckPending \/ CheckReady \/ CheckAgain \/ CheckYield

Run == Dequeue \/ TakeOver \/ Drained \/ Find \/ Poll

Next ==
  \/ \E c \in Callers : AddTask(c)
  \/ Run
  \/ \E s \in Sources : wake(s) \/ \E t \in TaskID : Signal(s, t)

Spec == Init /\ [][Next]_vars

(* The loop spins on the CPU and never stops by itself, and a context that *)
(* has begun to add or to wake a task runs on.  Whether an event occurs is *)
(* up to the outside and whether a task is added is up to the caller, so   *)
(* Signal and FetchId are not fair.  A poll returns in the end: events do  *)
(* not for ever arrive faster than the future that awaits them takes them. *)
PollReturns == Poll /\ pc' = "dequeue"

Fairness ==
  /\ WF_vars(Run)
  /\ SF_vars(PollReturns)
  /\ \A c \in Callers : WF_vars(EnqueueTask(c)) /\ WF_vars(EnqueueId(c))
  /\ \A s \in Sources : WF_vars(wake(s))

FairSpec == Spec /\ Fairness

-----------------------------------------------------------------------------
(* Properties.                                                             *)

CallerState ==
  {Idle} \cup [at : {"task", "id"}, id : TaskID]

\* Every variable keeps to the values the code can give it.
TypeOK ==
  /\ id_count \in 0..MaxTasks
  /\ add_queue \in Seq(TaskID)
  /\ run_queue \in Seq(TaskID)
  /\ tasks \in Seq(TaskID)
  /\ adding \in [Callers -> CallerState]
  /\ pc \in {"dequeue", "drain", "find", "poll", "check", "panicked"}
  /\ run_id \in TaskID \cup {NoTask}
  /\ future \in [TaskID -> {"new", "pending", "ready"}]
  /\ wakers \in SUBSET TaskID
  /\ signal \in SUBSET TaskID
  /\ waking \in [Sources -> TaskID \cup {NoTask}]

Queued(t) == t \in Range(run_queue)

BeingAdded(t) == \E c \in Callers : adding[c].id = t

\* The loop holds the id t and has not yet looked at its condition.
AboutToCheck(t) == run_id = t /\ pc \in {"drain", "find", "poll", "check"}

\* When Kernel::run looks for the task of the id it dequeued, it finds it: the
\* branch that reports "Task no longer available" (kernel/src/lib.rs:100) is
\* never taken, however add_task calls, wake-ups and the draining of
\* task_add_queue interleave.
TaskAvailable == pc = "find" => run_id \in Range(tasks)

\* Ids identify tasks: concurrent add_task calls never hand over two tasks with
\* one id, so `find` in Kernel::run (kernel/src/lib.rs:98) has one candidate.
UniqueIds ==
  /\ IsInjective(tasks)
  /\ IsInjective(add_queue)
  /\ Range(tasks) \cap Range(add_queue) = {}

\* A wake-up is never lost: while the condition a task waits for is true and
\* unseen, the task's id is queued, or the loop is about to look at the
\* condition, or add_task is still to queue the id, or the source is still to
\* call the waker (kernel/src/task.rs:65).
NoLostWakeup ==
  \A t \in signal :
    \/ future[t] = "ready"
    \/ Queued(t) \/ AboutToCheck(t) \/ BeingAdded(t)
    \/ \E s \in Sources : waking[s] = t

\* Every task that add_task has given an id is polled, unless the loop polls a
\* completed async function again, which panics and stops the kernel
\* (kernel/src/lib.rs:107).
AddedTaskIsPolled ==
  \A t \in TaskID : (t < id_count) ~> (future[t] # "new" \/ pc = "panicked")

\* An event is seen: once its condition is true, a task that waits for events
\* is polled and takes notice of it, with the same exception.
EventIsSeen ==
  \A t \in TaskID \ Trivial : (t \in signal) ~> (t \notin signal \/ pc = "panicked")
=============================================================================
