--------------------------- MODULE ExecutorProofs ---------------------------
(***************************************************************************)
(* Proofs about Executor, for every number of callers, event sources and   *)
(* tasks.  The inductive invariant IInv says where the id of every task    *)
(* that was ever drawn can be found.                                       *)
(***************************************************************************)
EXTENDS Executor, TLAPS

-----------------------------------------------------------------------------
(* Sequences.                                                              *)

\* A sequence that is not empty has elements.
LEMMA EmptySeq ==
  ASSUME NEW S, NEW seq \in Seq(S), seq # <<>>
  PROVE  Len(seq) \in Nat \ {0}
  OBVIOUS

\* A sequence is a function on 1 to its length.
LEMMA LenProperties ==
  ASSUME NEW S, NEW seq \in Seq(S)
  PROVE  Len(seq) \in Nat /\ seq \in [1..Len(seq) -> S] /\ DOMAIN seq = 1..Len(seq)
  OBVIOUS

\* What Head and Tail return.
LEMMA HeadTailProperties ==
  ASSUME NEW S, NEW s \in Seq(S), s # <<>>
  PROVE  /\ Head(s) \in S /\ Tail(s) \in Seq(S)
         /\ Len(Tail(s)) = Len(s) - 1
         /\ \A i \in 1..Len(Tail(s)) : Tail(s)[i] = s[i + 1]
  OBVIOUS

\* What Append returns.
LEMMA AppendProperties ==
  ASSUME NEW S, NEW seq \in Seq(S), NEW elt \in S
  PROVE  /\ Append(seq, elt) \in Seq(S)
         /\ Len(Append(seq, elt)) = Len(seq) + 1
         /\ \A i \in 1..Len(seq) : Append(seq, elt)[i] = seq[i]
         /\ Append(seq, elt)[Len(seq) + 1] = elt
  OBVIOUS

\* The elements of a sequence.
LEMMA ElementOfSeq ==
  ASSUME NEW S, NEW seq \in Seq(S), NEW n \in 1..Len(seq)
  PROVE  seq[n] \in S
  OBVIOUS

-----------------------------------------------------------------------------
\* The tasks that were handed over: in add_queue or already in tasks.
Handed == Range(tasks) \cup Range(add_queue)

\* Whoever holds an id to poll holds the id of a known task.
IdsKnown ==
  /\ \A t \in Range(run_queue) : t \in Handed
  /\ \A c \in Callers : adding[c].at = "id" => adding[c].id \in Handed
  /\ pc = "drain" => run_id # NoTask /\ run_id \in Handed
  /\ pc \in {"find", "poll", "check"} => run_id \in Range(tasks)
  /\ wakers \subseteq Range(tasks)

\* Ids are drawn once: what is known or signalled was drawn, and what a caller has drawn and
\* not handed over is not known and not drawn by another caller.
IdsFresh ==
  /\ \A t \in TaskID : t \in Handed \/ t \in signal => t < id_count
  /\ \A c \in Callers : adding[c] # Idle => adding[c].id < id_count
  /\ \A c \in Callers : adding[c].at = "task" => adding[c].id \notin Handed
  /\ \A c, d \in Callers :
       adding[c] # Idle /\ adding[d] # Idle /\ adding[c].id = adding[d].id => c = d

\* Every drawn task that is not finished has someone who will queue or poll it.
Schedulable ==
  \A t \in TaskID :
    t < id_count =>
      \/ future[t] = "ready"
      \/ Queued(t)
      \/ t \in wakers
      \/ BeingAdded(t)
      \/ run_id = t /\ pc \in {"drain", "find", "poll"}

IInv ==
  /\ TypeOK
  /\ IdsKnown
  /\ IdsFresh
  /\ UniqueIds
  /\ Schedulable
  /\ NoLostWakeup

-----------------------------------------------------------------------------
(* Appending to a queue and taking from it.                                *)

\* Append adds one element to the range and keeps a sequence without
\* repetitions so, when the element is new.
LEMMA AppendFacts ==
  ASSUME NEW S, NEW s \in Seq(S), NEW e \in S
  PROVE  /\ Append(s, e) \in Seq(S)
         /\ Range(Append(s, e)) = Range(s) \cup {e}
         /\ IsInjective(s) /\ e \notin Range(s) => IsInjective(Append(s, e))
<1>1. /\ Append(s, e) \in Seq(S)
      /\ Len(Append(s, e)) = Len(s) + 1
      /\ \A i \in 1..Len(s) : Append(s, e)[i] = s[i]
      /\ Append(s, e)[Len(s) + 1] = e
  BY AppendProperties
<1>2. DOMAIN s = 1..Len(s) /\ DOMAIN Append(s, e) = 1..(Len(s) + 1) /\ Len(s) \in Nat
  BY <1>1, LenProperties
<1>3. Range(Append(s, e)) = Range(s) \cup {e}
  <2>1. ASSUME NEW x \in Range(Append(s, e)) PROVE x \in Range(s) \cup {e}
    BY <2>1, <1>1, <1>2 DEF Range
  <2>2. ASSUME NEW x \in Range(s) \cup {e} PROVE x \in Range(Append(s, e))
    <3>1. CASE x = e
      <4>1. Len(s) + 1 \in DOMAIN Append(s, e)
        BY <1>2
      <4> QED BY <4>1, <1>1, <3>1 DEF Range
    <3>2. CASE x \in Range(s)
      <4>1. PICK i \in 1..Len(s) : x = s[i]
        BY <3>2, <1>2 DEF Range
      <4>2. i \in DOMAIN Append(s, e)
        BY <1>2
      <4> QED BY <4>1, <4>2, <1>1 DEF Range
    <3> QED BY <3>1, <3>2
  <2> QED BY <2>1, <2>2
<1>4. IsInjective(s) /\ e \notin Range(s) => IsInjective(Append(s, e))
  BY <1>1, <1>2 DEF IsInjective, Range
<1> QED BY <1>1, <1>3, <1>4

\* Taking the head off leaves the rest of the range, and the head is not in it
\* when the sequence has no repetitions.
LEMMA TailFacts ==
  ASSUME NEW S, NEW s \in Seq(S), s # <<>>
  PROVE  /\ Head(s) \in S
         /\ Tail(s) \in Seq(S)
         /\ Range(s) = Range(Tail(s)) \cup {Head(s)}
         /\ IsInjective(s) => IsInjective(Tail(s)) /\ Head(s) \notin Range(Tail(s))
<1>1. /\ Head(s) \in S
      /\ Tail(s) \in Seq(S)
      /\ Len(Tail(s)) = Len(s) - 1
      /\ \A i \in 1..Len(Tail(s)) : Tail(s)[i] = s[i + 1]
      /\ Head(s) = s[1]
  BY HeadTailProperties
<1>2. DOMAIN s = 1..Len(s) /\ DOMAIN Tail(s) = 1..(Len(s) - 1) /\ Len(s) \in Nat \ {0}
  BY <1>1, LenProperties, EmptySeq
<1>3. Range(s) = Range(Tail(s)) \cup {Head(s)}
  <2>1. ASSUME NEW x \in Range(s) PROVE x \in Range(Tail(s)) \cup {Head(s)}
    <3>1. PICK i \in 1..Len(s) : x = s[i]
      BY <1>2 DEF Range
    <3>2. CASE i = 1
      BY <3>1, <3>2, <1>1
    <3>3. CASE i # 1
      <4>1. i - 1 \in 1..(Len(s) - 1) /\ (i - 1) + 1 = i
        BY <3>3, <1>2
      <4>2. x = Tail(s)[i - 1]
        BY <4>1, <3>1, <1>1
      <4> QED BY <4>1, <4>2, <1>2, ZenonT(40) DEF Range
    <3> QED BY <3>2, <3>3
  <2>2. ASSUME NEW x \in Range(Tail(s)) \cup {Head(s)} PROVE x \in Range(s)
    BY <1>1, <1>2 DEF Range
  <2> QED BY <2>1, <2>2
<1>4. IsInjective(s) => IsInjective(Tail(s)) /\ Head(s) \notin Range(Tail(s))
  BY <1>1, <1>2 DEF IsInjective, Range
<1> QED BY <1>1, <1>3, <1>4

-----------------------------------------------------------------------------
(* Every step preserves IInv: one lemma per kind of step.                  *)

\* The initial state, in which nothing was added, satisfies IInv.
LEMMA InitIInv == Init => IInv
<1> SUFFICES ASSUME Init PROVE IInv
  OBVIOUS
<1>1. Range(<<>>) = {} /\ IsInjective(<<>>)
  BY DEF Range, IsInjective
<1>2. TypeOK
  BY BoundAssumption DEF Init, TypeOK, CallerState, TaskID, Idle, NoTask
<1>3. IdsKnown /\ IdsFresh /\ UniqueIds
  BY <1>1 DEF Init, IdsKnown, IdsFresh, UniqueIds, Handed, Idle, NoTask, TaskID
<1>4. Schedulable /\ NoLostWakeup
  BY <1>1, BoundAssumption DEF Init, Schedulable, NoLostWakeup, TaskID
<1> QED BY <1>2, <1>3, <1>4 DEF IInv

\* add_task draws an id nobody else has.
LEMMA FetchIdIInv ==
  ASSUME IInv, NEW c \in Callers, FetchId(c)
  PROVE  IInv'
<1> USE DEF IInv
<1>0. /\ id_count \in TaskID /\ id_count' = id_count + 1 /\ id_count \in Nat
      /\ MaxTasks \in Nat
  BY BoundAssumption DEF FetchId, TypeOK, TaskID
<1>1. TypeOK'
  BY <1>0 DEF FetchId, TypeOK, CallerState, TaskID
<1>2. adding'[c] = [at |-> "task", id |-> id_count] /\ \A d \in Callers \ {c} : adding'[d] = adding[d]
  BY DEF FetchId, TypeOK
<1>3. id_count \notin Handed
  BY <1>0 DEF IdsFresh
<1>4. Handed' = Handed
  BY DEF FetchId, Handed
<1>5. IdsKnown'
  BY <1>2, <1>4 DEF FetchId, IdsKnown
<1>6. IdsFresh'
  <2>1. \A t \in TaskID : t \in Handed' \/ t \in signal' => t < id_count'
    BY <1>0, <1>4 DEF FetchId, IdsFresh, TaskID
  <2>2. \A d \in Callers : adding'[d] # Idle => adding'[d].id < id_count'
    <3>1. \A d \in Callers : adding[d] # Idle => adding[d].id \in Int /\ adding[d].id < id_count
      BY <1>0 DEF IdsFresh, TypeOK, CallerState, TaskID
    <3> QED BY <1>0, <1>2, <3>1
  <2>3. \A d \in Callers : adding'[d].at = "task" => adding'[d].id \notin Handed'
    BY <1>2, <1>3, <1>4 DEF IdsFresh
  <2>4. \A d \in Callers \ {c} : adding[d] # Idle => adding[d].id # id_count
    BY <1>0 DEF IdsFresh
  <2> QED BY <1>2, <2>1, <2>2, <2>3, <2>4 DEF IdsFresh
<1>7. UniqueIds'
  BY DEF UniqueIds, FetchId
<1>8. \A t \in TaskID : BeingAdded(t) => BeingAdded(t)'
  BY <1>2 DEF BeingAdded, FetchId, Idle, NoTask, TaskID
<1>9. Schedulable'
  <2> SUFFICES ASSUME NEW t \in TaskID, t < id_count'
               PROVE  \/ future'[t] = "ready" \/ Queued(t)' \/ t \in wakers'
                      \/ BeingAdded(t)'
                      \/ run_id' = t /\ pc' \in {"drain", "find", "poll"}
    BY DEF Schedulable
  <2>1. CASE t < id_count
    BY <2>1, <1>8 DEF Schedulable, FetchId, Queued
  <2>2. CASE t = id_count
    BY <2>2, <1>2 DEF BeingAdded
  <2> QED BY <1>0, <2>1, <2>2 DEF TaskID
<1>10. NoLostWakeup'
  <2>1. signal \subseteq TaskID
    BY DEF TypeOK
  <2> QED BY <1>8, <2>1 DEF NoLostWakeup, FetchId, Queued, AboutToCheck
<1> QED BY <1>1, <1>5, <1>6, <1>7, <1>9, <1>10

\* add_task hands the task over.
LEMMA EnqueueTaskIInv ==
  ASSUME IInv, NEW c \in Callers, EnqueueTask(c)
  PROVE  IInv'
<1> USE DEF IInv
<1> DEFINE t0 == adding[c].id
<1>0. /\ adding[c] \in [at : {"task"}, id : TaskID]
      /\ t0 \in TaskID /\ adding[c] # Idle
      /\ adding'[c] = [at |-> "id", id |-> t0]
      /\ \A d \in Callers \ {c} : adding'[d] = adding[d]
      /\ adding' \in [Callers -> CallerState]
  BY DEF EnqueueTask, TypeOK, CallerState, Idle
<1>1. /\ add_queue' \in Seq(TaskID)
      /\ Range(add_queue') = Range(add_queue) \cup {t0}
      /\ IsInjective(add_queue) /\ t0 \notin Range(add_queue) => IsInjective(add_queue')
  BY <1>0, AppendFacts DEF EnqueueTask, TypeOK
<1> HIDE DEF t0
<1>2. TypeOK'
  BY <1>0, <1>1 DEF EnqueueTask, TypeOK
<1>3. Handed' = Handed \cup {t0}
  BY <1>1 DEF EnqueueTask, Handed
<1>4. t0 \notin Handed /\ t0 < id_count
  BY <1>0 DEF IdsFresh, t0
<1>5. IdsKnown'
  BY <1>0, <1>3 DEF EnqueueTask, IdsKnown
<1>6. IdsFresh'
  <2>1. \A d \in Callers \ {c} : adding[d] # Idle => adding[d].id # t0
    BY <1>0 DEF IdsFresh, t0
  <2>2. \A d \in Callers : adding'[d].at = "task" => adding'[d].id \notin Handed'
    BY <1>0, <1>3, <2>1 DEF IdsFresh, Idle
  <2>3. \A d \in Callers : adding'[d] # Idle => adding[d] # Idle /\ adding'[d].id = adding[d].id
    BY <1>0 DEF t0
  <2>4. id_count' = id_count /\ signal' = signal
    BY DEF EnqueueTask
  <2> QED BY <1>3, <1>4, <2>2, <2>3, <2>4 DEF IdsFresh
<1>7. UniqueIds'
  BY <1>1, <1>4 DEF UniqueIds, EnqueueTask, Handed
<1>8. \A t : BeingAdded(t) => BeingAdded(t)'
  BY <1>0 DEF BeingAdded, t0
<1>9. Schedulable' /\ NoLostWakeup'
  BY <1>8 DEF Schedulable, NoLostWakeup, EnqueueTask, Queued, AboutToCheck
<1> QED BY <1>2, <1>5, <1>6, <1>7, <1>9

\* add_task queues the id of a task it has handed over.
LEMMA EnqueueIdIInv ==
  ASSUME IInv, NEW c \in Callers, EnqueueId(c)
  PROVE  IInv'
<1> USE DEF IInv
<1> DEFINE t0 == adding[c].id
<1>0. /\ t0 \in TaskID /\ adding[c].at = "id"
      /\ adding'[c] = Idle
      /\ \A d \in Callers \ {c} : adding'[d] = adding[d]
      /\ adding' \in [Callers -> CallerState]
  BY DEF EnqueueId, TypeOK, CallerState, Idle
<1>1. run_queue' \in Seq(TaskID) /\ Range(run_queue') = Range(run_queue) \cup {t0}
  BY <1>0, AppendFacts DEF EnqueueId, TypeOK
<1> HIDE DEF t0
<1>2. TypeOK'
  BY <1>0, <1>1 DEF EnqueueId, TypeOK
<1>3. Handed' = Handed
  BY DEF EnqueueId, Handed
<1>4. t0 \in Handed
  BY <1>0 DEF IdsKnown, t0
<1>5. IdsKnown'
  BY <1>0, <1>1, <1>3, <1>4 DEF EnqueueId, IdsKnown, Idle
<1>6. IdsFresh'
  BY <1>0, <1>3 DEF EnqueueId, IdsFresh, Idle
<1>7. UniqueIds'
  BY DEF UniqueIds, EnqueueId
<1>8. \A t : BeingAdded(t) => BeingAdded(t)' \/ t = t0
  BY <1>0 DEF BeingAdded, t0
<1>9. \A t : Queued(t)' <=> Queued(t) \/ t = t0
  BY <1>1 DEF Queued
<1>10. Schedulable' /\ NoLostWakeup'
  BY <1>8, <1>9 DEF Schedulable, NoLostWakeup, EnqueueId, AboutToCheck
<1> QED BY <1>2, <1>5, <1>6, <1>7, <1>10

\* The loop takes the oldest id off the run queue.
LEMMA DequeueIInv ==
  ASSUME IInv, Dequeue
  PROVE  IInv'
<1> USE DEF IInv
<1>1. /\ run_id' \in TaskID /\ run_queue' \in Seq(TaskID)
      /\ Range(run_queue) = Range(run_queue') \cup {run_id'}
  BY TailFacts DEF Dequeue, TypeOK
<1>2. TypeOK'
  BY <1>1 DEF Dequeue, TypeOK
<1>3. Handed' = Handed
  BY DEF Dequeue, Handed
<1>4. run_id' # NoTask
  BY <1>1, BoundAssumption DEF TaskID, NoTask
<1>5. IdsKnown'
  BY <1>1, <1>3, <1>4 DEF Dequeue, IdsKnown
<1>6. IdsFresh'
  BY <1>3 DEF Dequeue, IdsFresh
<1>7. UniqueIds'
  BY DEF Dequeue, UniqueIds
<1>8. Schedulable'
  BY <1>1 DEF Dequeue, Schedulable, Queued, BeingAdded
<1>9. NoLostWakeup'
  BY <1>1 DEF Dequeue, NoLostWakeup, Queued, BeingAdded, AboutToCheck
<1> QED BY <1>2, <1>5, <1>6, <1>7, <1>8, <1>9

\* The loop moves one task from task_add_queue to tasks.
LEMMA TakeOverIInv ==
  ASSUME IInv, TakeOver
  PROVE  IInv'
<1> USE DEF IInv
<1> DEFINE t0 == Head(add_queue)
<1>1. /\ t0 \in TaskID /\ add_queue' \in Seq(TaskID)
      /\ Range(add_queue) = Range(add_queue') \cup {t0}
      /\ IsInjective(add_queue) => IsInjective(add_queue') /\ t0 \notin Range(add_queue')
  BY TailFacts DEF TakeOver, TypeOK
<1>2. /\ tasks' \in Seq(TaskID)
      /\ Range(tasks') = Range(tasks) \cup {t0}
      /\ IsInjective(tasks) /\ t0 \notin Range(tasks) => IsInjective(tasks')
  BY <1>1, AppendFacts DEF TakeOver, TypeOK
<1> HIDE DEF t0
<1>3. TypeOK'
  BY <1>1, <1>2 DEF TakeOver, TypeOK
<1>4. Handed' = Handed
  BY <1>1, <1>2 DEF Handed
<1>5. IdsKnown'
  BY <1>2, <1>4 DEF TakeOver, IdsKnown
<1>6. IdsFresh'
  BY <1>4 DEF TakeOver, IdsFresh
<1>7. UniqueIds'
  BY <1>1, <1>2 DEF UniqueIds
<1>8. Schedulable' /\ NoLostWakeup'
  BY DEF TakeOver, Schedulable, NoLostWakeup, Queued, BeingAdded, AboutToCheck
<1> QED BY <1>3, <1>5, <1>6, <1>7, <1>8

\* The loop finds task_add_queue empty: the task of its id is in tasks.
LEMMA DrainedIInv ==
  ASSUME IInv, Drained
  PROVE  IInv'
<1> USE DEF IInv
<1>1. Range(<<>>) = {}
  BY DEF Range
<1>2. TypeOK'
  BY DEF Drained, TypeOK
<1>3. Handed' = Handed /\ run_id \in Range(tasks)
  BY <1>1 DEF Drained, Handed, IdsKnown
<1>4. IdsKnown'
  BY <1>3 DEF Drained, IdsKnown
<1>5. IdsFresh' /\ UniqueIds'
  BY <1>3 DEF Drained, IdsFresh, UniqueIds
<1>6. Schedulable' /\ NoLostWakeup'
  BY DEF Drained, Schedulable, NoLostWakeup, Queued, BeingAdded, AboutToCheck
<1> QED BY <1>2, <1>4, <1>5, <1>6

\* The loop finds the task of its id.
LEMMA FindIInv ==
  ASSUME IInv, Find
  PROVE  IInv'
<1> USE DEF IInv
<1>1. pc' = "poll" /\ run_id \in Range(tasks)
  BY DEF Find, IdsKnown
<1>2. TypeOK'
  BY <1>1 DEF Find, TypeOK
<1>3. Handed' = Handed
  BY DEF Find, Handed
<1>4. IdsKnown' /\ IdsFresh' /\ UniqueIds'
  BY <1>1, <1>3 DEF Find, IdsKnown, IdsFresh, UniqueIds
<1>5. Schedulable' /\ NoLostWakeup'
  BY <1>1, SMTT(30) DEF Find, Schedulable, NoLostWakeup, Queued, BeingAdded, AboutToCheck
<1> QED BY <1>2, <1>4, <1>5

\* A poll leaves a waker behind, or the id queued, or the future ready.
LEMMA PollIInv ==
  ASSUME IInv, Poll
  PROVE  IInv'
<1> USE DEF IInv
<1>1. Range(tasks) \subseteq TaskID
  BY ElementOfSeq, LenProperties, SMTT(30) DEF TypeOK, Range
<1>2. run_id \in Range(tasks) /\ run_id \in TaskID /\ pc \in {"poll", "check"}
  BY <1>1, SMTT(30) DEF Poll, PollTrivial, PollRegister, PollCompleted, CheckPending,
              CheckReady, CheckAgain, CheckYield, IdsKnown
<1> USE DEF Handed, IdsKnown, IdsFresh, UniqueIds
<1>3. CASE PollTrivial
  <2>1. TypeOK' /\ future'[run_id] = "ready" /\ \A t \in TaskID \ {run_id} : future'[t] = future[t]
    BY <1>2, <1>3, SMTT(30) DEF PollTrivial, TypeOK
  <2>2. IdsKnown' /\ IdsFresh' /\ UniqueIds'
    BY <1>2, <1>3, SMTT(30) DEF PollTrivial
  <2>3. Schedulable'
    BY <1>3, <2>1 DEF PollTrivial, Schedulable, Queued, BeingAdded
  <2>4. NoLostWakeup'
    BY <1>3, <2>1, SMTT(30) DEF PollTrivial, NoLostWakeup, Queued, BeingAdded, AboutToCheck, TypeOK
  <2> QED BY <2>1, <2>2, <2>3, <2>4, ZenonT(30)
<1>4. CASE PollRegister
  <2>1. TypeOK' /\ \A t \in TaskID \ {run_id} : future'[t] = future[t]
    BY <1>2, <1>4, SMTT(30) DEF PollRegister, TypeOK
  <2>2. IdsKnown' /\ IdsFresh' /\ UniqueIds'
    BY <1>2, <1>4, SMTT(30) DEF PollRegister
  <2>3. Schedulable'
    BY <1>4, <2>1 DEF PollRegister, Schedulable, Queued, BeingAdded
  <2>4. NoLostWakeup'
    BY <1>4, <2>1, SMTT(30) DEF PollRegister, NoLostWakeup, Queued, BeingAdded, AboutToCheck, TypeOK
  <2> QED BY <2>1, <2>2, <2>3, <2>4, ZenonT(30)
<1>5. CASE PollCompleted
  <2>1. TypeOK' /\ IdsKnown' /\ IdsFresh' /\ UniqueIds'
    BY <1>5 DEF PollCompleted, TypeOK
  <2>2. Schedulable' /\ NoLostWakeup'
    BY <1>5, SMTT(30) DEF PollCompleted, Schedulable, NoLostWakeup, Queued, BeingAdded, AboutToCheck
  <2> QED BY <2>1, <2>2
<1>6. CASE CheckPending
  <2>1. TypeOK' /\ IdsKnown' /\ IdsFresh' /\ UniqueIds'
    BY <1>6, SMTT(30) DEF CheckPending, TypeOK
  <2>2. Schedulable' /\ NoLostWakeup'
    BY <1>6, SMTT(30) DEF CheckPending, Schedulable, NoLostWakeup, Queued, BeingAdded, AboutToCheck
  <2> QED BY <2>1, <2>2
<1>7. CASE CheckReady
  <2>1. TypeOK' /\ future'[run_id] = "ready" /\ \A t \in TaskID \ {run_id} : future'[t] = future[t]
    BY <1>2, <1>7, SMTT(30) DEF CheckReady, TypeOK
  <2>2. IdsKnown' /\ IdsFresh' /\ UniqueIds'
    BY <1>7, SMTT(30) DEF CheckReady
  <2>3. Schedulable'
    BY <1>7, <2>1, SMTT(30) DEF CheckReady, Schedulable, Queued, BeingAdded
  <2>4. NoLostWakeup'
    BY <1>7, <2>1, SMTT(30) DEF CheckReady, NoLostWakeup, Queued, BeingAdded, AboutToCheck, TypeOK
  <2> QED BY <2>1, <2>2, <2>3, <2>4
<1>8. CASE CheckAgain
  <2>1. TypeOK' /\ IdsKnown' /\ IdsFresh' /\ UniqueIds'
    BY <1>2, <1>8, SMTT(30) DEF CheckAgain, TypeOK
  <2>2. Schedulable' /\ NoLostWakeup'
    BY <1>8 DEF CheckAgain, Schedulable, NoLostWakeup, Queued, BeingAdded, AboutToCheck
  <2> QED BY <2>1, <2>2
<1>9. CASE CheckYield
  <2>1. run_queue' \in Seq(TaskID) /\ Range(run_queue') = Range(run_queue) \cup {run_id}
    BY <1>2, <1>9, AppendFacts, SMTT(30) DEF CheckYield, TypeOK
  <2>2. TypeOK' /\ IdsKnown' /\ IdsFresh' /\ UniqueIds'
    BY <1>2, <1>9, <2>1, SMTT(30) DEF CheckYield, TypeOK
  <2>3. Schedulable' /\ NoLostWakeup'
    BY <1>9, <2>1, SMTT(30) DEF CheckYield, Schedulable, NoLostWakeup, Queued, BeingAdded, AboutToCheck
  <2> QED BY <2>2, <2>3
<1> QED BY <1>3, <1>4, <1>5, <1>6, <1>7, <1>8, <1>9, ZenonT(40) DEF Poll

\* A source makes a condition true and is then obliged to wake the task.
LEMMA SignalIInv ==
  ASSUME IInv, NEW s \in Sources, NEW t0 \in TaskID, Signal(s, t0)
  PROVE  IInv'
<1> USE DEF IInv
<1>1. TypeOK' /\ waking'[s] = t0 /\ \A r \in Sources \ {s} : waking'[r] = waking[r]
  BY DEF Signal, TypeOK
<1>2. Handed' = Handed
  BY SMTT(30) DEF Signal, Handed
<1>3. IdsKnown' /\ IdsFresh' /\ UniqueIds'
  BY <1>2 DEF Signal, IdsKnown, IdsFresh, UniqueIds
<1>4. Schedulable'
  BY DEF Signal, Schedulable, Queued, BeingAdded
<1>5. NoTask \notin TaskID
  BY BoundAssumption DEF NoTask, TaskID
<1>6. NoLostWakeup'
  BY <1>1, <1>5 DEF Signal, NoLostWakeup, Queued, BeingAdded, AboutToCheck, TypeOK
<1> QED BY <1>1, <1>3, <1>4, <1>6

\* A wake-up queues the task, unless it is queued, polled or added anyway.
LEMMA WakeIInv ==
  ASSUME IInv, NEW s \in Sources, wake(s)
  PROVE  IInv'
<1> USE DEF IInv
<1> DEFINE t0 == waking[s]
<1>1. t0 \in TaskID /\ waking'[s] = NoTask /\ \A r \in Sources \ {s} : waking'[r] = waking[r]
  BY DEF wake, TypeOK
<1>2. /\ run_queue' \in Seq(TaskID)
      /\ t0 \in wakers => Range(run_queue') = Range(run_queue) \cup {t0}
      /\ t0 \notin wakers => run_queue' = run_queue
  <2>1. CASE t0 \in wakers
    BY <1>1, <2>1, AppendFacts DEF wake, TypeOK
  <2>2. CASE t0 \notin wakers
    BY <2>2 DEF wake, TypeOK
  <2> QED BY <2>1, <2>2
<1>3. TypeOK'
  BY <1>1, <1>2 DEF wake, TypeOK
<1>4. Handed' = Handed /\ Range(tasks) \subseteq Handed
  BY DEF wake, Handed
<1>5. IdsKnown'
  BY <1>2, <1>4, SMTT(30) DEF wake, IdsKnown
<1>6. IdsFresh' /\ UniqueIds'
  BY <1>4, SMTT(30) DEF wake, IdsFresh, UniqueIds
<1>7. Schedulable'
  BY <1>1, <1>2 DEF wake, Schedulable, Queued, BeingAdded
<1>8. t0 \in signal => \/ future[t0] = "ready" \/ t0 \in wakers
                       \/ Queued(t0) \/ AboutToCheck(t0) \/ BeingAdded(t0)
  BY <1>1, SMTT(30) DEF Schedulable, AboutToCheck, IdsFresh
<1>9. NoLostWakeup'
  BY <1>1, <1>2, <1>8, SMTT(30) DEF wake, NoLostWakeup, Queued, BeingAdded, AboutToCheck, TypeOK
<1> QED BY <1>3, <1>5, <1>6, <1>7, <1>9

-----------------------------------------------------------------------------

\* IInv holds in every state the executor can reach.
THEOREM ExecutorInvariant == Spec => []IInv
<1>1. Init => IInv
  BY InitIInv
<1>2. IInv /\ [Next]_vars => IInv'
  <2> SUFFICES ASSUME IInv, [Next]_vars PROVE IInv'
    OBVIOUS
  <2>1. ASSUME NEW c \in Callers, AddTask(c) PROVE IInv'
    BY <2>1, FetchIdIInv, EnqueueTaskIInv, EnqueueIdIInv DEF AddTask
  <2>2. CASE Run
    BY <2>2, DequeueIInv, TakeOverIInv, DrainedIInv, FindIInv, PollIInv DEF Run
  <2>3. ASSUME NEW s \in Sources, NEW t \in TaskID, Signal(s, t) PROVE IInv'
    BY <2>3, SignalIInv
  <2>4. ASSUME NEW s \in Sources, wake(s) PROVE IInv'
    BY <2>4, WakeIInv, SMTT(30)
  <2>5. CASE UNCHANGED vars
    BY <2>5 DEF vars, IInv, TypeOK, IdsKnown, IdsFresh, UniqueIds, Schedulable,
                NoLostWakeup, Handed, Queued, BeingAdded, AboutToCheck
  <2> QED BY <2>1, <2>2, <2>3, <2>4, <2>5 DEF Next
<1> QED BY <1>1, <1>2, PTL DEF Spec

\* Every variable of the executor keeps its type (Executor!TypeOK).
THEOREM TypeCorrect == Spec => []TypeOK
<1>1. IInv => TypeOK
  BY DEF IInv
<1> QED BY <1>1, ExecutorInvariant, PTL

\* Kernel::run always finds the task of the id it dequeued: "Task no longer
\* available" is never reported, for any number of callers, sources and tasks.
THEOREM TaskAlwaysAvailable == Spec => []TaskAvailable
<1>1. IInv => TaskAvailable
  BY DEF IInv, IdsKnown, TaskAvailable
<1> QED BY <1>1, ExecutorInvariant, PTL

\* No two tasks that add_task handed over have the same id.
THEOREM IdsUnique == Spec => []UniqueIds
<1>1. IInv => UniqueIds
  BY DEF IInv
<1> QED BY <1>1, ExecutorInvariant, PTL

\* No wake-up of a task is lost, wherever the run loop is when it comes.
THEOREM WakeupsNotLost == Spec => []NoLostWakeup
<1>1. IInv => NoLostWakeup
  BY DEF IInv
<1> QED BY <1>1, ExecutorInvariant, PTL
=============================================================================
