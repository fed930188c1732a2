-------------------------- MODULE PreemptionProofs --------------------------
(***************************************************************************)
(* Proofs about the two components that an interrupt may preempt between   *)
(* any two of their steps.                                                 *)
(*                                                                         *)
(* Interrupts, for every set of lines and every sequence of calls of       *)
(* set_interrupt: the inductive invariant IInv ties the tables, the locks  *)
(* and the interrupt flag to the step start-up has reached.                *)
(*                                                                         *)
(* Logging, for every set of tasks, levels and bounds: the inductive       *)
(* invariant LogIInv says that the queued messages, taken in order, turn   *)
(* the logger's stack of names into the stack of the spans that are        *)
(* entered, and that the table knows each span's name before it is needed. *)
(***************************************************************************)
EXTENDS Interrupts, Logging, TLAPS


\* The steps of start-up that run with interrupts disabled, and those at which
\* IDT holds the new table already.
Critical == {"basic_init", "replace", "load", "lock", "unmask", "drop", "sti"}
Replaced == {"load", "lock", "unmask", "drop", "sti"}
Registering == {"clone", "cli", "replace"} \cup Replaced

\* Either the handler or start-up runs, and each lock has the holder that its
\* step says.
Exclusive ==
  /\ irq # None => ~iflag
  /\ pc \in Critical => irq = None /\ ~iflag
  /\ step = None <=> irq = None
  /\ pics = "main" <=> pc \in {"unmask", "drop"}
  /\ pics = "handler" <=> step = "eoi"

\* Which table is in IDT and in the CPU at each step, and that both are
\* allocated.
Allocated ==
  /\ pc \in {"basic_init", "init_devices", "handle_queue"} => done = 0
  /\ pc \in Registering => done < Count
  /\ idt = IF pc \in Replaced THEN done + 1 ELSE done
  /\ loaded = CASE pc = "basic_init" -> Count + 1 [] pc = "load" -> done
                [] OTHER -> idt
  /\ idt \in live
  /\ pc = "load" => done \in live

\* The tables have what their next use needs.
Complete ==
  /\ Lines \ mask \subseteq tables[idt]
  /\ pc \in {"cli", "replace"} =>
       (Lines \ mask) \cup {Registrations[done + 1]} \subseteq n_idt
  /\ pc = "load" => Lines \ mask \subseteq tables[done]
  /\ pc \in {"load", "lock", "unmask"} => Registrations[done + 1] \in tables[idt]

\* The statics are set in this order.
Prepared ==
  /\ pc \notin {"basic_init", "init_devices"} => int_devices
  /\ handle_queue => int_devices
  /\ ~panicked

IInv == TypeOK /\ Exclusive /\ Allocated /\ Complete /\ Prepared

-----------------------------------------------------------------------------
\* The lines given to set_interrupt are lines.
LEMMA RegistrationFacts ==
  Count \in Nat /\ \A i \in 1..Count : Registrations[i] \in Lines
  BY LineAssumption DEF Count

\* IInv holds when start-up begins.
LEMMA InitIInv == Init => IInv
<1> SUFFICES ASSUME Init PROVE IInv
  OBVIOUS
<1>1. TypeOK
  <2>1. tables \in [0..Count -> SUBSET (Lines \cup InitialLines)]
    BY DEF Init
  <2>2. /\ done \in 0..Count /\ loaded \in 0..Count + 1
        /\ live \subseteq 0..Count /\ idt \in live
    BY RegistrationFacts DEF Init
  <2> QED BY <2>1, <2>2, ZenonT(40) DEF Init, TypeOK, Free, None
<1>2. Exclusive /\ Allocated /\ Complete /\ Prepared
  BY RegistrationFacts
  DEF Init, Exclusive, Allocated, Complete, Prepared, Critical, Replaced,
      Registering, Free, None, InitialLines
<1> QED BY <1>1, <1>2 DEF IInv

\* IInv is what IdtValid, PicsAvailable and HandlersReady need.
LEMMA IInvImplies == IInv => IdtValid /\ PicsAvailable /\ HandlersReady
<1> SUFFICES ASSUME IInv PROVE IdtValid /\ PicsAvailable /\ HandlersReady
  OBVIOUS
<1>1. IdtValid
  BY DEF IInv, Allocated, Complete, IdtValid, Replaced
<1>2. PicsAvailable
  BY DEF IInv, TypeOK, Exclusive, PicsAvailable, Critical, None, Free
<1> QED BY <1>1, <1>2 DEF IInv, Prepared, HandlersReady

-----------------------------------------------------------------------------
\* A step of start-up or of the heap preserves IInv.
LEMMA StartupStep == IInv /\ (Startup \/ Heap) => IInv'
<1> SUFFICES ASSUME IInv, Startup \/ Heap PROVE IInv'
  OBVIOUS
<1> USE RegistrationFacts
<1> USE DEF IInv, TypeOK, Exclusive, Allocated, Complete, Prepared, Critical,
        Replaced, Registering, Free, None, InitialLines, Main, controller, idts,
        locks, statics, handler
<1>1. CASE basic_init
  BY <1>1 DEF basic_init
<1>2. CASE init_devices
  BY <1>2 DEF init_devices
<1>3. CASE InitQueue
  BY <1>3 DEF InitQueue
<1>4. CASE CloneIdt
  BY <1>4 DEF CloneIdt
<1>5. CASE Disable
  BY <1>5, ZenonT(40) DEF Disable
<1>6. CASE ReplaceIdt
  BY <1>6 DEF ReplaceIdt
<1>7. CASE LoadIdt
  BY <1>7 DEF LoadIdt
<1>8. CASE LockPics
  BY <1>8 DEF LockPics
<1>9. CASE Unmask
  BY <1>9 DEF Unmask
<1>10. CASE DropIdt
  BY <1>10 DEF DropIdt
<1>11. CASE Enable
  BY <1>11 DEF Enable
<1>12. CASE Alloc
  BY <1>12 DEF Alloc, startup
<1>13. CASE AllocDone
  BY <1>13, ZenonT(40) DEF AllocDone, startup
<1> QED BY <1>1, <1>2, <1>3, <1>4, <1>5, <1>6, <1>7, <1>8, <1>9, <1>10, <1>11, ZenonT(40),
           <1>12, <1>13 DEF Startup, Heap, set_interrupt

\* The network interrupt needs its statics only when the queue exists.
LEMMA WorkStep == IInv /\ Work => IInv'
<1> SUFFICES ASSUME IInv, Work PROVE IInv'
  OBVIOUS
<1>1. panicked' = FALSE
  BY ZenonT(40) DEF IInv, Prepared, Work
<1> QED
  BY <1>1
  DEF IInv, TypeOK, Exclusive, Allocated, Complete, Prepared, Critical, Replaced,
      Registering, None, Work, HandlerStep, startup, controller, idts, locks,
      statics

\* A line that is dispatched has a handler in the table that the CPU uses, and
\* start-up is not at a critical step.
LEMMA DispatchStep == ASSUME IInv, NEW l \in Lines, Dispatch(l) PROVE IInv'
<1>1. pc \notin Critical /\ l \in tables[loaded]
  BY DEF IInv, Exclusive, Allocated, Complete, Dispatch, Critical, Replaced
<1>2. /\ irq' = l /\ step' \in {"span", "work"} /\ ~panicked' /\ iflag' = FALSE
      /\ irr' \subseteq Lines /\ isr' \subseteq Lines
  BY <1>1 DEF IInv, TypeOK, Prepared, Dispatch
<1>3. l # None
  BY LineAssumption DEF None
<1> QED
  BY <1>1, <1>2, <1>3, ZenonT(40)
  DEF IInv, TypeOK, Exclusive, Allocated, Complete, Prepared, Critical, Replaced,
      Registering, None, Dispatch, startup, idts, locks, statics

\* A step of a handler or of a device preserves IInv.
LEMMA HandlerStepInv ==
  IInv /\ (Handler \/ \E l \in Lines : Raise(l) \/ Dispatch(l)) => IInv'
<1> SUFFICES ASSUME IInv, Handler \/ \E l \in Lines : Raise(l) \/ Dispatch(l)
             PROVE  IInv'
  OBVIOUS
<1>1. CASE Work
  BY <1>1, WorkStep
<1>2. ASSUME NEW l \in Lines, Dispatch(l) PROVE IInv'
  BY <1>2, DispatchStep
<1> USE DEF IInv, TypeOK, Exclusive, Allocated, Complete, Prepared, Critical,
        Replaced, Registering, Free, None, HandlerStep, startup, controller,
        idts, locks, statics, handler
<1>3. ASSUME NEW l \in Lines, Raise(l) PROVE IInv'
  BY <1>3 DEF Raise
<1>4. CASE EnterSpan
  BY <1>4 DEF EnterSpan
<1>5. CASE HandlerLock
  BY <1>5 DEF HandlerLock
<1>6. CASE notify_end_of_interrupt
  BY <1>6 DEF notify_end_of_interrupt
<1>7. CASE Return
  BY <1>7 DEF Return
<1> QED BY <1>1, <1>2, <1>3, <1>4, <1>5, <1>6, <1>7, ZenonT(40) DEF Handler

\* IInv is inductive.
THEOREM Inductive == Spec => []IInv
<1>1. IInv /\ [Next]_vars => IInv'
  <2> SUFFICES ASSUME IInv, [Next]_vars PROVE IInv'
    OBVIOUS
  <2>1. CASE Next
    BY <2>1, StartupStep, HandlerStepInv DEF Next
  <2>2. CASE UNCHANGED vars
    BY <2>2
    DEF vars, startup, controller, idts, locks, statics, handler, IInv, TypeOK,
        Exclusive, Allocated, Complete, Prepared
  <2> QED BY <2>1, <2>2
<1> QED BY <1>1, InitIInv, PTL DEF Spec

-----------------------------------------------------------------------------
\* Every variable keeps its type, and a table is in use only after it was made.
THEOREM TypeCorrect == Spec => []TypeOK
  BY Inductive, PTL DEF IInv

\* At every point of every sequence of calls of set_interrupt, interrupts
\* included, the table of the CPU is allocated and has a handler for every
\* line that is not masked.
THEOREM LoadedIdtValid == Spec => []IdtValid
  BY Inductive, IInvImplies, PTL

\* A handler that is about to lock the interrupt controller finds the lock
\* free, wherever it interrupted start-up: the critical steps exclude it.
THEOREM PicsAlwaysAvailable == Spec => []PicsAvailable
  BY Inductive, IInvImplies, PTL

\* No interrupt panics for want of a table entry or of a static.
THEOREM HandlersAlwaysReady == Spec => []HandlersReady
  BY Inductive, IInvImplies, PTL

-----------------------------------------------------------------------------
(* Logging.                                                                *)

\* What the subscriber puts into the queue.
LogMessages ==
  [type : {"NewSpan"}, id : Nat, name : Contexts]
    \cup [type : {"Enter", "Exit"}, id : Nat]
    \cup [type : {"Event"}, level : LogLevels, span : Contexts \cup {""}]

LogTypes ==
  /\ id_counter \in Nat \ {0} /\ queue \in Seq(LogMessages)
  /\ at \in [Contexts -> {"idle", "plain", "fetch", "new", "enter", "inside"}]
  /\ span \in [Contexts -> Nat]
  /\ entered \in Seq(Contexts) /\ current_name \in Seq(Contexts)
  /\ \A i \in DOMAIN span_names : span_names[i] \in Contexts

\* One task at a time is inside its span, and the handler's is the inner one.
Nested ==
  /\ \A t, u \in Tasks : at[t] # "idle" /\ at[u] # "idle" => t = u
  /\ (\A x \in Contexts : at[x] # "inside") => entered = <<>>
  /\ (\A t \in Tasks : at[t] # "inside") /\ at[Irq] = "inside" => entered = <<Irq>>
  /\ \A t \in Tasks : at[t] = "inside" =>
       entered = IF at[Irq] = "inside" THEN Append(<<t>>, Irq) ELSE <<t>>

\* A context that is past new_span has a span.
Spanned == \A x \in Contexts : at[x] \in {"new", "enter", "inside"} => span[x] # 0

LogShape == LogTypes /\ Nested /\ Spanned

-----------------------------------------------------------------------------
\* The name of the innermost span of a stack.
Top(s) == IF s = <<>> THEN "" ELSE Last(s)

\* The id of a span is in the table, or will be when message i is taken.
Known(q, table, id, i) ==
  id \in table \/ \E j \in 1..i-1 : q[j].type = "NewSpan" /\ q[j].id = id

\* Message m turns the stack s into the stack t, where N gives the names of the
\* ids before n.
Explains(known, n, N, m, s, t) ==
  \/ m.type = "NewSpan" /\ m.id \in 1..n-1 /\ m.name = N[m.id] /\ t = s
  \/ m.type = "Enter" /\ m.id \in 1..n-1 /\ known /\ t = Append(s, N[m.id])
  \/ /\ m.type = "Exit" /\ m.id \in 1..n-1 /\ known
     /\ s # <<>> /\ Last(s) = N[m.id] /\ t = Front(s)
  \/ m.type = "Event" /\ enabled(m.level) /\ m.span = Top(s) /\ t = s

\* The messages of a queue take the logger's stack from S[1] to the last of S.
Rebuilds(q, table, n, N, S) ==
  \A i \in 1..Len(q) : Explains(Known(q, table, q[i].id, i), n, N, q[i], S[i], S[i + 1])

\* N gives every span, and every entry of the table, the name of its context.
Names(N, n, names, sp, a, q) ==
  /\ DOMAIN names \subseteq 1..n-1
  /\ \A i \in DOMAIN names : names[i] = N[i]
  /\ \A x \in Contexts : sp[x] # 0 =>
       /\ sp[x] \in 1..n-1 /\ N[sp[x]] = x
       /\ a[x] # "new" => Known(q, DOMAIN names, sp[x], Len(q) + 1)

Stacks(N, S, n, names, q, first, last) ==
  S[1] = first /\ S[Len(q) + 1] = last /\ Rebuilds(q, DOMAIN names, n, N, S)

\* The messages that wait rebuild, from the logger's stack, the stack of the
\* spans that are entered.
LogInv ==
  \E N \in [Nat -> Contexts] :
    /\ Names(N, id_counter, span_names, span, at, queue)
    /\ \E S \in [Nat -> Seq(Contexts)] :
         Stacks(N, S, id_counter, span_names, queue, current_name, entered)

LogIInv == LogShape /\ LogInv /\ EventInItsSpan

-----------------------------------------------------------------------------
(* The queue.                                                              *)

\* What Append returns.
LEMMA LogAppend ==
  ASSUME NEW M, NEW q \in Seq(M), NEW e \in M
  PROVE  /\ Append(q, e) \in Seq(M) /\ Len(q) \in Nat /\ Len(Append(q, e)) = Len(q) + 1
         /\ \A i \in 1..Len(q) : Append(q, e)[i] = q[i]
         /\ Append(q, e)[Len(q) + 1] = e
  OBVIOUS

\* What Tail returns.
LEMMA LogTail ==
  ASSUME NEW M, NEW q \in Seq(M), q # <<>>
  PROVE  /\ Head(q) \in M /\ Head(q) = q[1] /\ Tail(q) \in Seq(M)
         /\ Len(q) \in Nat \ {0} /\ Len(Tail(q)) = Len(q) - 1
         /\ \A i \in 1..Len(q)-1 : Tail(q)[i] = q[i + 1]
  OBVIOUS

\* What is known before a message is appended is known after it, and a new span
\* is known from then on.
LEMMA KnownAppend ==
  ASSUME NEW q \in Seq(LogMessages), NEW e \in LogMessages, NEW table, NEW id
  PROVE  /\ \A i \in 1..Len(q)+1 : Known(Append(q, e), table, id, i) <=> Known(q, table, id, i)
         /\ Known(Append(q, e), table, id, Len(q) + 2) <=>
              Known(q, table, id, Len(q) + 1) \/ (e.type = "NewSpan" /\ e.id = id)
<1>1. /\ Len(q) \in Nat /\ \A i \in 1..Len(q) : Append(q, e)[i] = q[i]
      /\ Append(q, e)[Len(q) + 1] = e
  BY LogAppend
<1>2. ASSUME NEW i \in 1..Len(q)+1 PROVE Known(Append(q, e), table, id, i) <=> Known(q, table, id, i)
  <2>1. \A j \in 1..i-1 : Append(q, e)[j] = q[j]
    BY <1>1
  <2> QED BY <2>1, Zenon DEF Known
<1>3. Known(Append(q, e), table, id, Len(q) + 2) <=>
              Known(q, table, id, Len(q) + 1) \/ (e.type = "NewSpan" /\ e.id = id)
  <2>1. 1..(Len(q) + 2)-1 = 1..(Len(q) + 1)-1 \cup {Len(q) + 1}
    BY <1>1
  <2>2. \A j \in 1..(Len(q) + 1)-1 : Append(q, e)[j] = q[j]
    BY <1>1
  <2> QED BY <1>1, <2>1, <2>2, Zenon DEF Known
<1> QED BY <1>2, <1>3

\* The positions of a queue of n messages, before and after a step.
LEMMA Positions ==
  ASSUME NEW n \in Nat
  PROVE  /\ n + 2 \in Nat /\ \A i \in 1..n+1 : i \in Nat /\ i # n + 2
         /\ \A i \in 1..n : i \in 1..n+1 /\ i + 1 \in 1..n+1
         /\ \A i \in 1..n : 1 \in 1..(i+1)-1 /\ \A j \in 1..i-1 : j + 1 \in 1..(i+1)-1 /\ j \in 1..n-1
         /\ \A i \in 1..n-1 : i \in Nat /\ i + 1 \in Nat /\ i \in 1..n /\ i + 1 \in 1..n
         /\ \A i \in 1..n : \A j \in 1..(i+1)-1 : j = 1 \/ (j - 1 \in 1..i-1 /\ (j - 1) + 1 = j)
  OBVIOUS

\* What EXCEPT returns.
LEMMA Updated ==
  ASSUME NEW A, NEW f \in [Nat -> A], NEW k \in Nat, NEW v \in A
  PROVE  /\ [f EXCEPT ![k] = v] \in [Nat -> A] /\ [f EXCEPT ![k] = v][k] = v
         /\ \A i \in Nat : i # k => [f EXCEPT ![k] = v][i] = f[i]
  OBVIOUS

\* A message that explains how the stack changes is appended.
Sent(q, e, table, n, N, S, t) ==
  /\ q \in Seq(LogMessages) /\ e \in LogMessages
  /\ S \in [Nat -> Seq(Contexts)] /\ t \in Seq(Contexts)
  /\ Rebuilds(q, table, n, N, S)
  /\ Explains(Known(q, table, e.id, Len(q) + 1), n, N, e, S[Len(q) + 1], t)

\* The messages r lead from the stack s to the stack t.
Rebuildable(r, table, n, N, s, t) ==
  \E T \in [Nat -> Seq(Contexts)] :
    T[1] = s /\ T[Len(r) + 1] = t /\ Rebuilds(r, table, n, N, T)

LEMMA RebuildsAppend ==
  ASSUME NEW q, NEW e, NEW table, NEW n, NEW N, NEW S, NEW t,
         Sent(q, e, table, n, N, S, t)
  PROVE  Rebuildable(Append(q, e), table, n, N, S[1], t)
<1> /\ q \in Seq(LogMessages) /\ e \in LogMessages
    /\ S \in [Nat -> Seq(Contexts)] /\ t \in Seq(Contexts)
    /\ Rebuilds(q, table, n, N, S)
    /\ Explains(Known(q, table, e.id, Len(q) + 1), n, N, e, S[Len(q) + 1], t)
  BY Zenon DEF Sent
<1> DEFINE r == Append(q, e)
           T == [S EXCEPT ![Len(q) + 2] = t]
<1>1. /\ r \in Seq(LogMessages) /\ Len(q) \in Nat /\ Len(r) = Len(q) + 1
      /\ \A i \in 1..Len(q) : r[i] = q[i]
      /\ r[Len(q) + 1] = e
  BY LogAppend
<1>2. /\ T \in [Nat -> Seq(Contexts)] /\ T[Len(q) + 2] = t
      /\ \A i \in 1..Len(q)+1 : T[i] = S[i]
  <2>1. Len(q) \in Nat /\ Len(q) + 2 \in Nat /\ \A i \in 1..Len(q)+1 : i \in Nat /\ i # Len(q) + 2
    BY <1>1, Positions, Zenon
  <2> QED BY <2>1, Updated, ZenonT(30)
<1>3. \A id : \A i \in 1..Len(q)+1 : Known(r, table, id, i) <=> Known(q, table, id, i)
  BY KnownAppend, Zenon
<1> HIDE DEF r, T
<1>4. ASSUME NEW i \in 1..Len(r)
      PROVE  Explains(Known(r, table, r[i].id, i), n, N, r[i], T[i], T[i + 1])
  <2>1. CASE i \in 1..Len(q)
    <3>0. Len(q) \in Nat /\ r[i] = q[i]
      BY <1>1, <2>1, Zenon
    <3>1. r[i] = q[i] /\ i \in 1..Len(q)+1 /\ i + 1 \in 1..Len(q)+1
      BY <2>1, <3>0, Positions, Zenon
    <3>2. T[i] = S[i] /\ T[i + 1] = S[i + 1]
      BY <1>2, <3>1, Zenon
    <3>3. Explains(Known(q, table, q[i].id, i), n, N, q[i], S[i], S[i + 1])
      BY <2>1, Zenon DEF Rebuilds
    <3>4. Known(r, table, q[i].id, i) <=> Known(q, table, q[i].id, i)
      BY <1>3, <3>1, Zenon
    <3> QED BY <3>1, <3>2, <3>3, <3>4, ZenonT(30) DEF Explains
  <2>2. CASE i = Len(q) + 1
    <3>1. r[i] = e /\ T[i] = S[Len(q) + 1] /\ T[i + 1] = t /\ i \in 1..Len(q)+1
      BY <1>1, <1>2, <2>2
    <3>2. Known(r, table, e.id, i) <=> Known(q, table, e.id, Len(q) + 1)
      BY <1>3, <2>2, <3>1, Zenon
    <3> QED BY <3>1, <3>2, ZenonT(30) DEF Explains
  <2> QED BY <1>1, <2>1, <2>2
<1>5. Rebuilds(r, table, n, N, T)
  BY <1>4, Zenon DEF Rebuilds
<1>6. T[1] = S[1] /\ T[Len(r) + 1] = t
  BY <1>1, <1>2
<1> QED BY <1>2, <1>5, <1>6, Zenon DEF r, Rebuildable

\* The logger takes the first message: the table knows its id when it needs it.
Taken(q, table, table2, n, N, S) ==
  /\ q \in Seq(LogMessages) /\ q # <<>>
  /\ S \in [Nat -> Seq(Contexts)] /\ Rebuilds(q, table, n, N, S)
  /\ \A id : id \in table2 <=> id \in table \/ (Head(q).type = "NewSpan" /\ Head(q).id = id)

LEMMA RebuildsTail ==
  ASSUME NEW q, NEW table, NEW table2, NEW n, NEW N, NEW S,
         Taken(q, table, table2, n, N, S)
  PROVE  /\ \A id : \A i \in 1..Len(q) :
              Known(Tail(q), table2, id, i) <=> Known(q, table, id, i + 1)
         /\ Rebuildable(Tail(q), table2, n, N, S[2], S[Len(q) + 1])
<1> DEFINE r == Tail(q)
           T == [i \in Nat |-> S[i + 1]]
<1> /\ q \in Seq(LogMessages) /\ q # <<>>
    /\ S \in [Nat -> Seq(Contexts)] /\ Rebuilds(q, table, n, N, S)
    /\ \A id : id \in table2 <=> id \in table \/ (Head(q).type = "NewSpan" /\ Head(q).id = id)
  BY Zenon DEF Taken
<1>1. /\ Head(q) = q[1] /\ Len(q) \in Nat \ {0} /\ Len(r) = Len(q) - 1
      /\ \A i \in 1..Len(q)-1 : r[i] = q[i + 1]
  BY LogTail
<1>0. Len(q) \in Nat
  BY <1>1, Zenon
<1>2. T \in [Nat -> Seq(Contexts)] /\ \A i \in Nat : T[i] = S[i + 1]
  <2>1. \A i \in Nat : i + 1 \in Nat
    OBVIOUS
  <2> QED BY <2>1, Zenon
<1> HIDE DEF r, T
<1>3. ASSUME NEW id, NEW i \in 1..Len(q)
      PROVE  Known(r, table2, id, i) <=> Known(q, table, id, i + 1)
  <2>1. ASSUME NEW j \in 1..i-1 PROVE j + 1 \in 1..(i+1)-1 /\ r[j] = q[j + 1]
    BY <1>0, <1>1, Positions, Zenon
  <2>2. ASSUME NEW j \in 1..(i+1)-1 PROVE j = 1 \/ (j - 1 \in 1..i-1 /\ (j - 1) + 1 = j)
    BY <1>0, Positions, Zenon
  <2>3. 1 \in 1..(i+1)-1
    BY <1>0, Positions, Zenon
  <2>4. ASSUME Known(r, table2, id, i) PROVE Known(q, table, id, i + 1)
    BY <1>1, <2>1, <2>3, <2>4, ZenonT(30) DEF Known
  <2>5. ASSUME Known(q, table, id, i + 1) PROVE Known(r, table2, id, i)
    <3>1. CASE id \in table
      BY <3>1, Zenon DEF Known
    <3>2. ASSUME NEW j \in 1..(i+1)-1, q[j].type = "NewSpan", q[j].id = id
          PROVE  Known(r, table2, id, i)
      <4>1. CASE j = 1
        BY <1>1, <3>2, <4>1, Zenon DEF Known
      <4>2. CASE j - 1 \in 1..i-1 /\ (j - 1) + 1 = j
        <5>1. r[j - 1] = q[j]
          BY <2>1, <4>2, Zenon
        <5> QED BY <3>2, <4>2, <5>1, Zenon DEF Known
      <4> QED BY <2>2, <4>1, <4>2, Zenon
    <3> QED BY <2>5, <3>1, <3>2, Zenon DEF Known
  <2> QED BY <2>4, <2>5, Zenon
<1>4. ASSUME NEW i \in 1..Len(r)
      PROVE  Explains(Known(r, table2, r[i].id, i), n, N, r[i], T[i], T[i + 1])
  <2>1. i \in 1..Len(q) /\ i + 1 \in 1..Len(q) /\ r[i] = q[i + 1] /\ i \in Nat /\ i + 1 \in Nat
    <3>1. i \in 1..Len(q)-1
      BY <1>1, Zenon
    <3> QED BY <1>0, <1>1, <3>1, Positions, Zenon
  <2>2. T[i] = S[i + 1] /\ T[i + 1] = S[(i + 1) + 1]
    BY <1>2, <2>1, Zenon
  <2>3. Explains(Known(q, table, q[i + 1].id, i + 1), n, N, q[i + 1], S[i + 1], S[(i + 1) + 1])
    BY <2>1, Zenon DEF Rebuilds
  <2>4. Known(r, table2, q[i + 1].id, i) <=> Known(q, table, q[i + 1].id, i + 1)
    BY <1>3, <2>1, Zenon
  <2> QED BY <2>1, <2>2, <2>3, <2>4, ZenonT(30) DEF Explains
<1>5. Rebuilds(r, table2, n, N, T)
  BY <1>4, Zenon DEF Rebuilds
<1>6. T[1] = S[2] /\ T[Len(r) + 1] = S[Len(q) + 1]
  BY <1>1, <1>2
<1>7. Rebuildable(r, table2, n, N, S[2], S[Len(q) + 1])
  BY <1>2, <1>5, <1>6, Zenon DEF Rebuildable
<1> QED BY <1>3, <1>7, Zenon DEF r

\* A new id does not change what the messages before it mean.
LEMMA RebuildsFetch ==
  ASSUME NEW q \in Seq(LogMessages), NEW table, NEW n \in Nat, NEW N, NEW P, NEW S,
         Rebuilds(q, table, n, N, S), \A id \in 1..n-1 : P[id] = N[id]
  PROVE  Rebuilds(q, table, n + 1, P, S)
<1>1. \A id \in 1..n-1 : id \in 1..(n+1)-1
  OBVIOUS
<1>2. ASSUME NEW known, NEW m, NEW s, NEW t, Explains(known, n, N, m, s, t)
      PROVE  Explains(known, n + 1, P, m, s, t)
  BY <1>1, <1>2, ZenonT(30) DEF Explains
<1> QED BY <1>2, Zenon DEF Rebuilds

\* A subscriber's message keeps the invariant when it explains the new stack and
\* is the NewSpan of every context that leaves new_span.
Sending(q, e, n, names, N, S, first, last, t, sp, a, sp2, a2) ==
  /\ q \in Seq(LogMessages) /\ e \in LogMessages
  /\ S \in [Nat -> Seq(Contexts)] /\ t \in Seq(Contexts)
  /\ Names(N, n, names, sp, a, q) /\ Stacks(N, S, n, names, q, first, last)
  /\ Explains(Known(q, DOMAIN names, e.id, Len(q) + 1), n, N, e, last, t)
  /\ \A x \in Contexts : sp2[x] # 0 =>
       /\ sp2[x] = sp[x]
       /\ a2[x] # "new" => a[x] # "new" \/ (e.type = "NewSpan" /\ e.id = sp[x])

LEMMA LogSends ==
  ASSUME NEW q, NEW e, NEW n, NEW names, NEW N, NEW S, NEW first, NEW last, NEW t,
         NEW sp, NEW a, NEW sp2, NEW a2,
         Sending(q, e, n, names, N, S, first, last, t, sp, a, sp2, a2)
  PROVE  /\ Names(N, n, names, sp2, a2, Append(q, e))
         /\ \E T \in [Nat -> Seq(Contexts)] :
              Stacks(N, T, n, names, Append(q, e), first, t)
<1> DEFINE r == Append(q, e)
<1>q. q \in Seq(LogMessages) /\ e \in LogMessages
  BY Zenon DEF Sending
<1>1. Len(r) + 1 = Len(q) + 2
  <2>1. Len(q) \in Nat /\ Len(r) = Len(q) + 1
    BY <1>q, LogAppend, Zenon
  <2>2. ASSUME NEW k \in Nat PROVE (k + 1) + 1 = k + 2
    OBVIOUS
  <2> QED BY <2>1, <2>2, Zenon
<1>2. ASSUME NEW id, Known(q, DOMAIN names, id, Len(q) + 1) \/ (e.type = "NewSpan" /\ e.id = id)
      PROVE  Known(r, DOMAIN names, id, Len(r) + 1)
  BY <1>q, <1>1, <1>2, KnownAppend, Zenon
<1>4. Rebuilds(q, DOMAIN names, n, N, S) /\ S[1] = first /\ S[Len(q) + 1] = last
  BY Zenon DEF Sending, Stacks
<1>5. Sent(q, e, DOMAIN names, n, N, S, t)
  BY <1>4, Zenon DEF Sending, Sent
<1>6. Rebuildable(r, DOMAIN names, n, N, S[1], t)
  BY <1>5, RebuildsAppend, Zenon
<1> HIDE DEF r
<1>3. Names(N, n, names, sp2, a2, r)
  BY <1>2, ZenonT(30) DEF Names, Sending
<1>7. \E T \in [Nat -> Seq(Contexts)] : Stacks(N, T, n, names, r, first, t)
  BY <1>4, <1>6, Zenon DEF Stacks, Rebuildable
<1> QED BY <1>3, <1>7, Zenon DEF r

\* The logger's step keeps the invariant when its stack follows S and its table
\* takes the name of a new span.
Taking(q, n, names, names2, N, S, first, last, sp, a) ==
  /\ q \in Seq(LogMessages) /\ q # <<>> /\ S \in [Nat -> Seq(Contexts)]
  /\ Names(N, n, names, sp, a, q) /\ Stacks(N, S, n, names, q, first, last)
  /\ \A id : id \in DOMAIN names2 <=>
              id \in DOMAIN names \/ (Head(q).type = "NewSpan" /\ Head(q).id = id)
  /\ DOMAIN names2 \subseteq 1..n-1 /\ \A i \in DOMAIN names2 : names2[i] = N[i]

LEMMA LogTakes ==
  ASSUME NEW q, NEW n, NEW names, NEW names2, NEW N, NEW S, NEW first, NEW last,
         NEW sp, NEW a, Taking(q, n, names, names2, N, S, first, last, sp, a)
  PROVE  /\ Names(N, n, names2, sp, a, Tail(q))
         /\ \E T \in [Nat -> Seq(Contexts)] :
              Stacks(N, T, n, names2, Tail(q), S[2], last)
<1> DEFINE r == Tail(q)
<1>q. q \in Seq(LogMessages) /\ q # <<>>
  BY Zenon DEF Taking
<1>1. Len(q) \in Nat \ {0} /\ Len(r) = Len(q) - 1
  BY <1>q, LogTail, Zenon
<1>2. Len(r) + 1 = Len(q) /\ Len(q) \in 1..Len(q)
  <2>1. ASSUME NEW k \in Nat \ {0} PROVE (k - 1) + 1 = k /\ k \in 1..k
    OBVIOUS
  <2> QED BY <1>1, <2>1, Zenon
<1>4. Rebuilds(q, DOMAIN names, n, N, S) /\ S[1] = first /\ S[Len(q) + 1] = last
  BY Zenon DEF Taking, Stacks
<1>3. Taken(q, DOMAIN names, DOMAIN names2, n, N, S)
  BY <1>4, Zenon DEF Taking, Taken
<1>5. /\ \A id : \A i \in 1..Len(q) :
           Known(r, DOMAIN names2, id, i) <=> Known(q, DOMAIN names, id, i + 1)
      /\ Rebuildable(r, DOMAIN names2, n, N, S[2], S[Len(q) + 1])
  BY <1>3, RebuildsTail, Zenon
<1> HIDE DEF r
<1>6. \A id : Known(q, DOMAIN names, id, Len(q) + 1)
               => Known(r, DOMAIN names2, id, Len(r) + 1)
  BY <1>2, <1>5, Zenon
<1>7. Names(N, n, names2, sp, a, r)
  BY <1>6, ZenonT(30) DEF Names, Taking
<1>8. \E T \in [Nat -> Seq(Contexts)] : Stacks(N, T, n, names2, r, S[2], last)
  BY <1>4, <1>5, Zenon DEF Stacks, Rebuildable
<1> QED BY <1>7, <1>8, Zenon DEF r

-----------------------------------------------------------------------------
(* The stack of the spans that are entered.                                *)

\* Two sequences with the same elements are equal.
LEMMA SeqEqual ==
  ASSUME NEW S, NEW s \in Seq(S), NEW t \in Seq(S), Len(s) = Len(t),
         \A i \in 1..Len(s) : s[i] = t[i]
  PROVE  s = t
  OBVIOUS

\* Front takes back what Append did.
LEMMA FrontAppend ==
  ASSUME NEW M, NEW s \in Seq(M), NEW x \in M
  PROVE  Front(Append(s, x)) = s /\ Last(Append(s, x)) = x /\ Append(s, x) # <<>>
<1> DEFINE r == Append(s, x)
<1>1. /\ r \in Seq(M) /\ Len(s) \in Nat /\ Len(r) = Len(s) + 1
      /\ \A i \in 1..Len(s) : r[i] = s[i]
      /\ r[Len(s) + 1] = x
  BY LogAppend
<1> HIDE DEF r
<1>2. Front(r) = SubSeq(r, 1, Len(s))
  BY <1>1 DEF Front
<1>3. /\ SubSeq(r, 1, Len(s)) \in Seq(M) /\ Len(SubSeq(r, 1, Len(s))) = Len(s)
      /\ \A i \in 1..Len(s) : SubSeq(r, 1, Len(s))[i] = r[i]
  BY <1>1
<1>4. SubSeq(r, 1, Len(s)) = s
  BY <1>1, <1>3, SeqEqual, Zenon
<1>5. Last(r) = x /\ r # <<>>
  BY <1>1 DEF Last
<1> QED BY <1>2, <1>4, <1>5, Zenon DEF r

\* What the operators return on the stacks that occur.
LEMMA SmallStacks ==
  ASSUME NEW x, NEW t
  PROVE  /\ Append(<<>>, x) = <<x>> /\ Front(<<x>>) = <<>> /\ Last(<<x>>) = x
         /\ Front(Append(<<t>>, x)) = <<t>> /\ Last(Append(<<t>>, x)) = x
         /\ <<x>> # <<>> /\ Append(<<t>>, x) # <<>>
<1>1. Append(<<>>, x) = <<x>> /\ <<>> \in Seq({x}) /\ x \in {x}
  OBVIOUS
<1>2. Front(Append(<<>>, x)) = <<>> /\ Last(Append(<<>>, x)) = x /\ Append(<<>>, x) # <<>>
  BY <1>1, FrontAppend, Zenon
<1>3. <<t>> \in Seq({t, x}) /\ x \in {t, x}
  OBVIOUS
<1>4. Front(Append(<<t>>, x)) = <<t>> /\ Last(Append(<<t>>, x)) = x /\ Append(<<t>>, x) # <<>>
  BY <1>3, FrontAppend, Zenon
<1> QED BY <1>1, <1>2, <1>4, Zenon

\* The innermost span is that of the context that runs.
LEMMA Inner ==
  ASSUME LogShape, NEW x \in Contexts, MayRun(x), at[x] = "inside"
  PROVE  entered # <<>> /\ Last(entered) = x
<1>1. CASE x = Irq
  <2>1. CASE \A t \in Tasks : at[t] # "inside"
    BY <1>1, <2>1, SmallStacks, Zenon DEF LogShape, Nested
  <2>2. ASSUME NEW t \in Tasks, at[t] = "inside" PROVE entered = Append(<<t>>, Irq)
    BY <1>1, <2>2, Zenon DEF LogShape, Nested
  <2> QED BY <1>1, <2>1, <2>2, SmallStacks, ZenonT(30)
<1>2. CASE x # Irq
  <2>1. x \in Tasks /\ Irq \in Contexts \ {x}
    BY <1>2, Zenon DEF Contexts
  <2>2. at[Irq] # "inside"
    BY <1>2, <2>1, Zenon DEF MayRun
  <2>3. entered = <<x>>
    BY <2>1, <2>2, Zenon DEF LogShape, Nested
  <2> QED BY <2>3, SmallStacks, Zenon
<1> QED BY <1>1, <1>2, Zenon

\* What one context's step changes, when its span is neither entered nor left.
LEMMA OutsideStep ==
  ASSUME Nested, LogTypes, NEW x \in Contexts, MayRun(x), at[x] # "inside",
         NEW v, v # "inside", at' = [at EXCEPT ![x] = v], entered' = entered
  PROVE  Nested'
<1>1. at'[x] = v /\ \A y \in Contexts \ {x} : at'[y] = at[y]
  BY Zenon DEF LogTypes
<1>2. Tasks \subseteq Contexts /\ Irq \in Contexts /\ Irq \notin Tasks
  BY LogAssumption, Zenon DEF Contexts
<1>3. \A y \in Contexts : at'[y] = "inside" <=> at[y] = "inside"
  BY <1>1, Zenon
<1>4. ASSUME NEW t \in Tasks, NEW u \in Tasks, at'[t] # "idle", at'[u] # "idle" PROVE t = u
  <2>1. CASE x = Irq
    BY <1>1, <1>2, <1>4, <2>1, Zenon DEF Nested
  <2>2. CASE x # Irq
    <3>1. \A y \in Contexts \ {x} : at'[y] = "idle"
      BY <1>1, <2>2, Zenon DEF MayRun
    <3>2. t = x
      BY <1>2, <1>4, <3>1, Zenon
    <3>3. u = x
      BY <1>2, <1>4, <3>1, Zenon
    <3> QED BY <3>2, <3>3, Zenon
  <2> QED BY <2>1, <2>2
<1> QED BY <1>2, <1>3, <1>4, ZenonT(30) DEF Nested

\* A span is entered.
LEMMA EnterStep ==
  ASSUME Nested, LogTypes, NEW x \in Contexts, MayRun(x), at[x] = "enter",
         at' = [at EXCEPT ![x] = "inside"], entered' = Append(entered, x)
  PROVE  Nested'
<1>1. at'[x] = "inside" /\ \A y \in Contexts \ {x} : at'[y] = at[y]
  BY Zenon DEF LogTypes
<1>2. Tasks \subseteq Contexts /\ Irq \in Contexts /\ Irq \notin Tasks
  BY LogAssumption, Zenon DEF Contexts
<1>3. CASE x = Irq
  <2>1. \A t \in Tasks : at'[t] = at[t]
    BY <1>1, <1>2, <1>3, Zenon
  <2>2. at'[Irq] = "inside" /\ at[Irq] # "inside"
    BY <1>1, <1>3, Zenon
  <2>3. CASE \A t \in Tasks : at[t] # "inside"
    <3>1. entered = <<>>
      BY <2>2, <2>3, Zenon DEF Nested, Contexts
    <3>2. entered' = <<Irq>>
      BY <1>3, <3>1, SmallStacks, Zenon
    <3> QED BY <1>2, <2>1, <2>2, <2>3, <3>2, ZenonT(30) DEF Nested
  <2>4. ASSUME NEW t \in Tasks, at[t] = "inside" PROVE Nested'
    <3>1. entered = <<t>>
      BY <2>2, <2>4, Zenon DEF Nested
    <3>2. entered' = Append(<<t>>, Irq)
      BY <1>3, <3>1, SmallStacks, Zenon
    <3>3. \A u \in Tasks : at[u] = "inside" => u = t
      BY <2>4, Zenon DEF Nested
    <3> QED BY <1>2, <2>1, <2>2, <2>4, <3>2, <3>3, ZenonT(30) DEF Nested
  <2> QED BY <2>3, <2>4, Zenon
<1>4. CASE x # Irq
  <2>1. \A y \in Contexts \ {x} : at[y] = "idle" /\ at'[y] = "idle"
    BY <1>1, <1>4, Zenon DEF MayRun
  <2>2. x \in Tasks /\ at'[Irq] = "idle"
    BY <1>2, <1>4, <2>1, Zenon DEF Contexts
  <2>3. entered = <<>>
    BY <2>1, Zenon DEF Nested
  <2>4. entered' = <<x>>
    BY <2>3, SmallStacks, Zenon
  <2>5. \A t \in Tasks : at'[t] # "idle" => t = x
    BY <1>2, <2>1, Zenon
  <2> QED BY <1>1, <1>2, <2>2, <2>4, <2>5, ZenonT(30) DEF Nested
<1> QED BY <1>3, <1>4, Zenon

\* A span is left.
LEMMA ExitStep ==
  ASSUME Nested, LogTypes, NEW x \in Contexts, MayRun(x), at[x] = "inside",
         at' = [at EXCEPT ![x] = "idle"], entered' = Front(entered)
  PROVE  Nested'
<1>1. at'[x] = "idle" /\ \A y \in Contexts \ {x} : at'[y] = at[y]
  BY Zenon DEF LogTypes
<1>2. Tasks \subseteq Contexts /\ Irq \in Contexts /\ Irq \notin Tasks
  BY LogAssumption, Zenon DEF Contexts
<1>3. CASE x = Irq
  <2>1. \A t \in Tasks : at'[t] = at[t]
    BY <1>1, <1>2, <1>3, Zenon
  <2>2. at'[Irq] = "idle" /\ at[Irq] = "inside"
    BY <1>1, <1>3, Zenon
  <2>3. CASE \A t \in Tasks : at[t] # "inside"
    <3>1. entered' = <<>>
      BY <2>2, <2>3, SmallStacks, Zenon DEF Nested
    <3> QED BY <1>2, <2>1, <2>2, <2>3, <3>1, ZenonT(30) DEF Nested
  <2>4. ASSUME NEW t \in Tasks, at[t] = "inside" PROVE Nested'
    <3>0. entered = Append(<<t>>, Irq)
      BY <2>2, <2>4, Zenon DEF Nested
    <3>1. entered' = <<t>>
      BY <3>0, SmallStacks, Zenon
    <3>3. \A u \in Tasks : at[u] = "inside" => u = t
      BY <2>4, Zenon DEF Nested
    <3> QED BY <1>2, <2>1, <2>2, <2>4, <3>1, <3>3, ZenonT(30) DEF Nested
  <2> QED BY <2>3, <2>4, Zenon
<1>4. CASE x # Irq
  <2>1. \A y \in Contexts : at'[y] = "idle"
    BY <1>1, <1>4, Zenon DEF MayRun
  <2>2. x \in Tasks /\ at[Irq] # "inside"
    BY <1>2, <1>4, Zenon DEF MayRun, Contexts
  <2>3. entered' = <<>>
    BY <2>2, SmallStacks, Zenon DEF Nested
  <2> QED BY <1>2, <2>1, <2>3, ZenonT(30) DEF Nested
<1> QED BY <1>3, <1>4, Zenon

-----------------------------------------------------------------------------
(* LogShape is inductive.                                                  *)

\* What Front and Last return.
LEMMA FrontLast ==
  ASSUME NEW M, NEW s \in Seq(M), s # <<>>
  PROVE  Front(s) \in Seq(M) /\ Last(s) \in M
  BY DEF Front, Last

\* What the subscriber sends has the type of the queue.
LEMMA MessageTypes ==
  ASSUME LogShape, NEW x \in Contexts
  PROVE  /\ [type |-> "NewSpan", id |-> span[x], name |-> x] \in LogMessages
         /\ [type |-> "Enter", id |-> span[x]] \in LogMessages
         /\ [type |-> "Exit", id |-> span[x]] \in LogMessages
         /\ \A l \in LogLevels :
              [type |-> "Event", level |-> l, span |-> Innermost] \in LogMessages
<1>1. span[x] \in Nat
  BY Zenon DEF LogShape, LogTypes
<1>2. Innermost \in Contexts \cup {""}
  BY FrontLast, Zenon DEF LogShape, LogTypes, Innermost
<1>3. [type |-> "NewSpan", id |-> span[x], name |-> x] \in LogMessages
  BY <1>1, Zenon DEF LogMessages
<1>4. [type |-> "Enter", id |-> span[x]] \in LogMessages
  BY <1>1, Zenon DEF LogMessages
<1>5. [type |-> "Exit", id |-> span[x]] \in LogMessages
  BY <1>1, Zenon DEF LogMessages
<1>6. ASSUME NEW l \in LogLevels
      PROVE  [type |-> "Event", level |-> l, span |-> Innermost] \in LogMessages
  BY <1>2, Zenon DEF LogMessages
<1> QED BY <1>3, <1>4, <1>5, <1>6, Zenon

\* A step of a context changes only its own entries.
LEMMA ContextStep ==
  ASSUME LogTypes, Spanned, NEW x \in Contexts,
         NEW v \in {"idle", "plain", "fetch", "new", "enter", "inside"}, NEW w \in Nat,
         at' = [at EXCEPT ![x] = v], span' = span \/ span' = [span EXCEPT ![x] = w],
         v \in {"new", "enter", "inside"} => span'[x] # 0,
         id_counter' \in Nat \ {0}, queue' \in Seq(LogMessages),
         entered' \in Seq(Contexts), UNCHANGED <<span_names, current_name>>
  PROVE  LogTypes' /\ Spanned'
<1>1. at' \in [Contexts -> {"idle", "plain", "fetch", "new", "enter", "inside"}]
  BY Zenon DEF LogTypes
<1>2. span' \in [Contexts -> Nat]
  BY Zenon DEF LogTypes
<1>3. LogTypes'
  BY <1>1, <1>2, Zenon DEF LogTypes
<1>4. at'[x] = v /\ \A y \in Contexts : y # x => at'[y] = at[y] /\ span'[y] = span[y]
  BY Zenon DEF LogTypes
<1>5. Spanned'
  BY <1>4, ZenonT(30) DEF Spanned
<1> QED BY <1>3, <1>5

\* LogShape holds when the extension is created.
LEMMA ShapeInit == LogInit => LogShape
<1> SUFFICES ASSUME LogInit PROVE LogShape
  OBVIOUS
<1>1. LogTypes
  BY DEF LogInit, LogTypes
<1>2. \A x \in Contexts : at[x] = "idle"
  BY Zenon DEF LogInit
<1>3. Nested
  BY <1>2, Zenon DEF Nested, LogInit, Contexts
<1>4. Spanned
  BY <1>2, Zenon DEF Spanned
<1> QED BY <1>1, <1>3, <1>4 DEF LogShape

\* A subscriber's step keeps LogShape.
LEMMA ShapeSubscriber ==
  ASSUME LogShape, NEW x \in Contexts, Subscriber(x)
  PROVE  LogShape'
<1> USE DEF LogShape
<1>0. /\ at[x] \in {"idle", "plain", "fetch", "new", "enter", "inside"} /\ span[x] \in Nat
      /\ id_counter \in Nat \ {0} /\ id_counter + 1 \in Nat \ {0} /\ 0 \in Nat
      /\ queue \in Seq(LogMessages) /\ entered \in Seq(Contexts)
  <2>1. id_counter \in Nat \ {0}
    BY Zenon DEF LogTypes
  <2>2. id_counter + 1 \in Nat \ {0}
    BY <2>1
  <2> QED BY <2>1, <2>2, 0 \in Nat, Zenon DEF LogTypes
<1>1. CASE Begin(x)
  <2> DEFINE v == IF ~enabled(SpanLevel[x]) THEN "plain"
                  ELSE IF NeedsSpan(x) THEN "fetch" ELSE "enter"
  <2>1. /\ at' = [at EXCEPT ![x] = v] /\ MayRun(x) /\ at[x] # "inside"
        /\ UNCHANGED <<id_counter, queue, span, entered, span_names, current_name>>
    BY <1>1, Zenon DEF Begin
  <2>2. v \in {"idle", "plain", "fetch", "new", "enter", "inside"} /\ v # "inside" /\ v # "new"
    BY Zenon
  <2>3. v \in {"new", "enter", "inside"} => span'[x] # 0
    BY <2>1, Zenon DEF NeedsSpan
  <2> HIDE DEF v
  <2>4. Nested'
    BY <2>1, <2>2, OutsideStep, Zenon
  <2> QED BY <1>0, <2>1, <2>2, <2>3, <2>4, ContextStep, Zenon
<1>2. CASE FetchSpanId(x)
  <2>1. /\ at' = [at EXCEPT ![x] = "new"] /\ MayRun(x) /\ at[x] # "inside"
        /\ UNCHANGED <<queue, entered, span_names, current_name>>
        /\ span' = [span EXCEPT ![x] = id_counter] /\ id_counter' = id_counter + 1
    BY <1>2, Zenon DEF FetchSpanId
  <2>2. span'[x] # 0
    BY <1>0, <2>1, Zenon DEF LogTypes
  <2>4. Nested'
    BY <2>1, "new" # "inside", OutsideStep, Zenon
  <2> QED BY <1>0, <2>1, <2>2, <2>4, ContextStep, Zenon
<1>3. CASE new_span(x)
  <2>1. /\ at' = [at EXCEPT ![x] = "enter"] /\ MayRun(x) /\ at[x] = "new"
        /\ UNCHANGED <<id_counter, span, entered, span_names, current_name>>
        /\ queue' = Append(queue, [type |-> "NewSpan", id |-> span[x], name |-> x])
    BY <1>3, Zenon DEF new_span
  <2>2. span'[x] # 0 /\ queue' \in Seq(LogMessages)
    BY <1>0, <2>1, MessageTypes, LogAppend, Zenon DEF Spanned
  <2>4. Nested'
    BY <2>1, "enter" # "inside", "new" # "inside", OutsideStep, Zenon
  <2> QED BY <1>0, <2>1, <2>2, <2>4, ContextStep, Zenon
<1>4. CASE enter(x)
  <2>1. /\ at' = [at EXCEPT ![x] = "inside"] /\ MayRun(x) /\ at[x] = "enter"
        /\ UNCHANGED <<id_counter, span, span_names, current_name>>
        /\ queue' = Append(queue, [type |-> "Enter", id |-> span[x]])
        /\ entered' = Append(entered, x)
    BY <1>4, Zenon DEF enter
  <2>2. span'[x] # 0 /\ queue' \in Seq(LogMessages) /\ entered' \in Seq(Contexts)
    BY <1>0, <2>1, MessageTypes, LogAppend, Zenon DEF Spanned
  <2>4. Nested'
    BY <2>1, EnterStep, Zenon
  <2> QED BY <1>0, <2>1, <2>2, <2>4, ContextStep, Zenon
<1>5. CASE event(x)
  <2>1. /\ UNCHANGED <<id_counter, at, span, entered, span_names, current_name>>
        /\ \E l \in LogLevels :
             queue' = Append(queue, [type |-> "Event", level |-> l, span |-> Innermost])
    BY <1>5, Zenon DEF event
  <2>2. queue' \in Seq(LogMessages)
    <3>1. PICK l \in LogLevels :
            queue' = Append(queue, [type |-> "Event", level |-> l, span |-> Innermost])
      BY <2>1, Zenon
    <3>2. [type |-> "Event", level |-> l, span |-> Innermost] \in LogMessages
      BY MessageTypes, Zenon
    <3> QED BY <1>0, <3>1, <3>2, LogAppend, Zenon
  <2> QED BY <2>1, <2>2, ZenonT(30) DEF LogTypes, Nested, Spanned
<1>6. CASE exit(x)
  <2>1. /\ at' = [at EXCEPT ![x] = "idle"] /\ MayRun(x) /\ at[x] = "inside"
        /\ UNCHANGED <<id_counter, span_names, current_name>>
        /\ queue' = Append(queue, [type |-> "Exit", id |-> span[x]])
        /\ entered' = Front(entered)
        /\ span' = span \/ span' = [span EXCEPT ![x] = 0]
    BY <1>6, Zenon DEF exit
  <2>2. queue' \in Seq(LogMessages) /\ entered' \in Seq(Contexts)
    BY <1>0, <2>1, MessageTypes, LogAppend, Inner, FrontLast, Zenon
  <2>4. Nested'
    BY <2>1, ExitStep, Zenon
  <2> QED BY <1>0, <2>1, <2>2, <2>4, ContextStep, Zenon
<1>7. CASE End(x)
  <2>1. /\ at' = [at EXCEPT ![x] = "idle"] /\ MayRun(x) /\ at[x] = "plain"
        /\ UNCHANGED <<id_counter, queue, span, entered, span_names, current_name>>
    BY <1>7, Zenon DEF End
  <2>4. Nested'
    BY <2>1, "idle" # "inside", "plain" # "inside", OutsideStep, Zenon
  <2> QED BY <1>0, <2>1, <2>4, ContextStep, Zenon
<1> QED BY <1>1, <1>2, <1>3, <1>4, <1>5, <1>6, <1>7, Zenon DEF Subscriber

\* What the logger reads from a message has the type it needs.
LEMMA ReadTypes ==
  ASSUME NEW m \in LogMessages
  PROVE  /\ m.type = "NewSpan" => m.id \in Nat /\ m.name \in Contexts
         /\ m.type = "Event" => m.level \in LogLevels
<1>1. CASE m \in [type : {"NewSpan"}, id : Nat, name : Contexts]
  BY <1>1
<1>2. CASE m \in [type : {"Enter", "Exit"}, id : Nat]
  BY <1>2
<1>3. CASE m \in [type : {"Event"}, level : LogLevels, span : Contexts \cup {""}]
  BY <1>3
<1> QED BY <1>1, <1>2, <1>3, Zenon DEF LogMessages

\* The logger's step keeps LogShape.
LEMMA ShapeLogger ==
  ASSUME LogShape, logger
  PROVE  LogShape'
<1> DEFINE m == Head(queue)
<1>1. /\ queue \in Seq(LogMessages) /\ queue # <<>> /\ queue' = Tail(queue)
      /\ current_name \in Seq(Contexts)
      /\ \A i \in DOMAIN span_names : span_names[i] \in Contexts
      /\ UNCHANGED <<id_counter, at, span, entered>>
  BY Zenon DEF logger, LogShape, LogTypes
<1>2. m \in LogMessages /\ queue' \in Seq(LogMessages)
  BY <1>1, LogTail, Zenon
<1>3. Nested' /\ Spanned'
  BY <1>1, ZenonT(30) DEF LogShape, Nested, Spanned
<1>4. /\ current_name' \in Seq(Contexts)
      /\ \A i \in DOMAIN span_names' : span_names'[i] \in Contexts
  <2>1. CASE /\ m.type = "NewSpan" /\ current_name' = current_name
             /\ span_names' = [i \in DOMAIN span_names \cup {m.id} |->
                                IF i = m.id THEN m.name ELSE span_names[i]]
    <3>1. m.name \in Contexts
      BY <1>2, <2>1, ReadTypes, Zenon
    <3> QED BY <1>1, <2>1, <3>1, Zenon
  <2>2. CASE current_name' = Entered(m.id) /\ span_names' = span_names
    BY <1>1, <2>2, LogAppend, Zenon DEF Entered
  <2>3. CASE current_name' = Exited(m.id) /\ span_names' = span_names
    BY <1>1, <2>3, FrontLast, Zenon DEF Exited
  <2>4. CASE current_name' = current_name /\ span_names' = span_names
    BY <1>1, <2>4, Zenon
  <2> QED BY <2>1, <2>2, <2>3, <2>4, ZenonT(30) DEF logger
<1> QED BY <1>1, <1>2, <1>3, <1>4, Zenon DEF LogShape, LogTypes

-----------------------------------------------------------------------------
(* LogIInv is inductive.                                                   *)

\* LogLevel's order, written out arm by arm, is that of the severities.
LEMMA EnabledIsSevere ==
  ASSUME NEW l \in LogLevels, enabled(l)
  PROVE  Severity[l] >= Severity[Level]
<1>1. Level \in LogLevels
  BY LogAssumption
<1>2. CASE Level = "Trace"
  BY <1>2 DEF LogLevels, enabled, partial_cmp, Severity
<1>3. CASE Level = "Debug"
  BY <1>3 DEF LogLevels, enabled, partial_cmp, Severity
<1>4. CASE Level = "Info"
  BY <1>4 DEF LogLevels, enabled, partial_cmp, Severity
<1>5. CASE Level = "Warn"
  BY <1>5 DEF LogLevels, enabled, partial_cmp, Severity
<1>6. CASE Level = "Error"
  BY <1>6 DEF LogLevels, enabled, partial_cmp, Severity
<1> QED BY <1>1, <1>2, <1>3, <1>4, <1>5, <1>6, Zenon DEF LogLevels

\* LogIInv holds when the extension is created, with any names and empty stacks.
LEMMA LogInitIInv == LogInit => LogIInv
<1> SUFFICES ASSUME LogInit PROVE LogIInv
  OBVIOUS
<1>1. LogShape
  BY ShapeInit
<1>2. EventInItsSpan
  BY Zenon DEF LogInit, EventInItsSpan
<1>3. LogInv
  <2> DEFINE N == [i \in Nat |-> Irq]
             S == [i \in Nat |-> <<>>]
  <2>1. N \in [Nat -> Contexts] /\ S \in [Nat -> Seq(Contexts)]
    BY DEF Contexts
  <2>2. queue = <<>> /\ Len(queue) = 0 /\ DOMAIN span_names = {}
    BY DEF LogInit
  <2>3. Names(N, id_counter, span_names, span, at, queue)
    BY <2>2, Zenon DEF Names, LogInit
  <2>4. S[1] = <<>> /\ S[Len(queue) + 1] = <<>> /\ 1..Len(queue) = {}
    BY <2>2
  <2>5. Stacks(N, S, id_counter, span_names, queue, current_name, entered)
    BY <2>4, Zenon DEF Stacks, Rebuilds, LogInit
  <2> HIDE DEF N, S
  <2> QED BY <2>1, <2>3, <2>5, Zenon DEF LogInv
<1> QED BY <1>1, <1>2, <1>3 DEF LogIInv

\* A subscriber's step keeps LogInv.
LEMMA InvSubscriber ==
  ASSUME LogIInv, NEW x \in Contexts, Subscriber(x)
  PROVE  LogInv'
<1> DEFINE dom == DOMAIN span_names
<1>0. LogShape /\ LogTypes /\ LogInv
  BY Zenon DEF LogIInv, LogShape
<1>1. PICK N \in [Nat -> Contexts] :
        /\ Names(N, id_counter, span_names, span, at, queue)
        /\ \E S \in [Nat -> Seq(Contexts)] :
             Stacks(N, S, id_counter, span_names, queue, current_name, entered)
  BY <1>0, Zenon DEF LogInv
<1>2. PICK S \in [Nat -> Seq(Contexts)] :
        Stacks(N, S, id_counter, span_names, queue, current_name, entered)
  BY <1>1, Zenon
<1>3. /\ queue \in Seq(LogMessages) /\ entered \in Seq(Contexts)
      /\ id_counter \in Nat \ {0} /\ span \in [Contexts -> Nat]
      /\ at \in [Contexts -> {"idle", "plain", "fetch", "new", "enter", "inside"}]
  BY <1>0, Zenon DEF LogTypes
<1>4. ASSUME span[x] # 0
      PROVE  /\ span[x] \in 1..id_counter-1 /\ N[span[x]] = x
             /\ at[x] # "new" => Known(queue, dom, span[x], Len(queue) + 1)
  BY <1>1, <1>4, Zenon DEF Names
<1>5. at[x] \in {"new", "enter", "inside"} => span[x] # 0
  BY <1>0, Zenon DEF LogShape, Spanned
\* A step that sends the message e.
<1>6. ASSUME NEW e \in LogMessages, queue' = Append(queue, e),
             UNCHANGED <<id_counter, span_names, current_name>>,
             Explains(Known(queue, dom, e.id, Len(queue) + 1), id_counter, N, e, entered, entered'),
             entered' \in Seq(Contexts),
             \A y \in Contexts : span'[y] # 0 =>
               /\ span'[y] = span[y]
               /\ at'[y] # "new" => at[y] # "new" \/ (e.type = "NewSpan" /\ e.id = span[y])
      PROVE  LogInv'
  <2>1. Sending(queue, e, id_counter, span_names, N, S, current_name, entered, entered',
                span, at, span', at')
    BY <1>1, <1>2, <1>3, <1>6, Zenon DEF Sending
  <2>2. /\ Names(N, id_counter, span_names, span', at', Append(queue, e))
        /\ \E T \in [Nat -> Seq(Contexts)] :
             Stacks(N, T, id_counter, span_names, Append(queue, e), current_name, entered')
    BY <2>1, LogSends, Zenon
  <2> QED BY <1>6, <2>2, Zenon DEF LogInv
\* A step that changes nothing but where x is.
<1>7. ASSUME NEW v, at' = [at EXCEPT ![x] = v], at[x] # "new",
             UNCHANGED <<id_counter, queue, span, entered, span_names, current_name>>
      PROVE  LogInv'
  <2>1. \A y \in Contexts : at'[y] # "new" => at[y] # "new"
    BY <1>3, <1>7, Zenon
  <2>2. Names(N, id_counter, span_names, span, at', queue)
    BY <1>1, <2>1, ZenonT(30) DEF Names
  <2> QED BY <1>2, <1>7, <2>2, Zenon DEF LogInv
<1>8. CASE Begin(x)
  <2>1. at[x] # "new"
    BY <1>8, Zenon DEF Begin
  <2> QED BY <1>7, <1>8, <2>1, Zenon DEF Begin
<1>9. CASE End(x)
  <2>1. at[x] # "new"
    BY <1>9, Zenon DEF End
  <2> QED BY <1>7, <1>9, <2>1, Zenon DEF End
<1>10. CASE FetchSpanId(x)
  <2> DEFINE n == id_counter
             P == [N EXCEPT ![n] = x]
  <2>1. /\ span' = [span EXCEPT ![x] = n] /\ at' = [at EXCEPT ![x] = "new"]
        /\ id_counter' = n + 1 /\ UNCHANGED <<queue, entered, span_names, current_name>>
    BY <1>10, Zenon DEF FetchSpanId
  <2>2. P \in [Nat -> Contexts] /\ P[n] = x /\ \A i \in Nat : i # n => P[i] = N[i]
    BY <1>3, Updated, ZenonT(30)
  <2>3. \A i \in 1..n-1 : i \in Nat /\ i # n /\ i \in 1..(n+1)-1
    BY <1>3
  <2>4. n \in 1..(n+1)-1
    BY <1>3
  <2>5. span'[x] = n /\ at'[x] = "new"
        /\ \A y \in Contexts : y # x => span'[y] = span[y] /\ at'[y] = at[y]
    BY <1>3, <2>1, Zenon
  <2> HIDE DEF n, P
  <2>6. /\ dom \subseteq 1..n-1 /\ \A i \in dom : span_names[i] = N[i]
        /\ \A y \in Contexts : span[y] # 0 =>
             /\ span[y] \in 1..n-1 /\ N[span[y]] = y
             /\ at[y] # "new" => Known(queue, dom, span[y], Len(queue) + 1)
    BY <1>1, Zenon DEF Names, n
  <2>7. \A i \in dom : span_names[i] = P[i] /\ i \in 1..(n+1)-1
    BY <2>2, <2>3, <2>6, Zenon
  <2>8. ASSUME NEW y \in Contexts, span'[y] # 0
        PROVE  /\ span'[y] \in 1..(n+1)-1 /\ P[span'[y]] = y
               /\ at'[y] # "new" => Known(queue, dom, span'[y], Len(queue) + 1)
    <3>1. CASE y = x
      BY <2>2, <2>4, <2>5, <3>1, Zenon
    <3>2. CASE y # x
      BY <2>2, <2>3, <2>5, <2>6, <2>8, <3>2, ZenonT(30)
    <3> QED BY <3>1, <3>2
  <2>9. Names(P, n + 1, span_names, span', at', queue)
    BY <2>7, <2>8, Zenon DEF Names
  <2>10. Rebuilds(queue, dom, n, N, S)
    BY <1>2, Zenon DEF Stacks, n
  <2>11. n \in Nat /\ \A i \in 1..n-1 : P[i] = N[i]
    BY <1>3, <2>2, <2>3, Zenon DEF n
  <2>12. Rebuilds(queue, dom, n + 1, P, S)
    BY <1>3, <2>10, <2>11, RebuildsFetch, Zenon
  <2>13. Stacks(P, S, n + 1, span_names, queue, current_name, entered)
    BY <1>2, <2>12, Zenon DEF Stacks
  <2> QED BY <2>1, <2>2, <2>9, <2>13, Zenon DEF LogInv
<1>11. CASE new_span(x)
  <2> DEFINE e == [type |-> "NewSpan", id |-> span[x], name |-> x]
  <2>1. /\ at' = [at EXCEPT ![x] = "enter"] /\ at[x] = "new"
        /\ UNCHANGED <<id_counter, span, entered, span_names, current_name>>
        /\ queue' = Append(queue, e)
    BY <1>11, Zenon DEF new_span
  <2>2. e \in LogMessages
    BY <1>0, MessageTypes, Zenon
  <2>3. e.type = "NewSpan" /\ e.id = span[x] /\ e.name = x
    BY Zenon
  <2> HIDE DEF e
  <2>4. Explains(Known(queue, dom, e.id, Len(queue) + 1), id_counter, N, e, entered, entered')
    BY <1>4, <1>5, <2>1, <2>3, Zenon DEF Explains
  <2>5. \A y \in Contexts : y # x => at'[y] = at[y]
    BY <1>3, <2>1, Zenon
  <2>6. \A y \in Contexts : at'[y] # "new" => at[y] # "new" \/ (e.type = "NewSpan" /\ e.id = span[y])
    BY <2>3, <2>5, Zenon
  <2> QED BY <1>3, <1>6, <2>1, <2>2, <2>4, <2>6, Zenon
<1>12. CASE enter(x)
  <2> DEFINE e == [type |-> "Enter", id |-> span[x]]
  <2>1. /\ at' = [at EXCEPT ![x] = "inside"] /\ at[x] = "enter"
        /\ UNCHANGED <<id_counter, span, span_names, current_name>>
        /\ queue' = Append(queue, e) /\ entered' = Append(entered, x)
    BY <1>12, Zenon DEF enter
  <2>2. e \in LogMessages /\ entered' \in Seq(Contexts)
    BY <1>0, <1>3, <2>1, MessageTypes, LogAppend, Zenon
  <2>3. e.type = "Enter" /\ e.id = span[x]
    BY Zenon
  <2> HIDE DEF e
  <2>4. Explains(Known(queue, dom, e.id, Len(queue) + 1), id_counter, N, e, entered, entered')
    BY <1>4, <1>5, <2>1, <2>3, "enter" # "new", Zenon DEF Explains
  <2>6. \A y \in Contexts : at'[y] # "new" => at[y] # "new"
    BY <1>3, <2>1, "enter" # "new", Zenon
  <2> QED BY <1>6, <2>1, <2>2, <2>4, <2>6, Zenon
<1>13. CASE exit(x)
  <2> DEFINE e == [type |-> "Exit", id |-> span[x]]
  <2>1. /\ at' = [at EXCEPT ![x] = "idle"] /\ at[x] = "inside" /\ MayRun(x)
        /\ UNCHANGED <<id_counter, span_names, current_name>>
        /\ queue' = Append(queue, e) /\ entered' = Front(entered)
        /\ span' = span \/ span' = [span EXCEPT ![x] = 0]
    BY <1>13, Zenon DEF exit
  <2>2. entered # <<>> /\ Last(entered) = x
    BY <1>0, <2>1, Inner, Zenon
  <2>3. e \in LogMessages /\ entered' \in Seq(Contexts)
    BY <1>0, <1>3, <2>1, <2>2, MessageTypes, FrontLast, Zenon
  <2>4. e.type = "Exit" /\ e.id = span[x]
    BY Zenon
  <2> HIDE DEF e
  <2>5. Explains(Known(queue, dom, e.id, Len(queue) + 1), id_counter, N, e, entered, entered')
    BY <1>4, <1>5, <2>1, <2>2, <2>4, "inside" # "new", Zenon DEF Explains
  <2>6. \A y \in Contexts : at'[y] # "new" => at[y] # "new"
    BY <1>3, <2>1, "inside" # "new", Zenon
  <2>7. \A y \in Contexts : span'[y] # 0 => span'[y] = span[y]
    BY <1>3, <2>1, Zenon
  <2> QED BY <1>6, <2>1, <2>3, <2>5, <2>6, <2>7, Zenon
<1>14. CASE event(x)
  <2>1. PICK l \in LogLevels :
          enabled(l) /\ queue' = Append(queue, [type |-> "Event", level |-> l, span |-> Innermost])
    BY <1>14, Zenon DEF event
  <2>2. UNCHANGED <<id_counter, at, span, entered, span_names, current_name>>
    BY <1>14, Zenon DEF event
  <2> DEFINE e == [type |-> "Event", level |-> l, span |-> Innermost]
  <2>3. e \in LogMessages
    BY <1>0, MessageTypes, Zenon
  <2>4. e.type = "Event" /\ e.level = l /\ e.span = Top(entered)
    BY Zenon DEF Innermost, Top
  <2>5. queue' = Append(queue, e)
    BY <2>1, Zenon
  <2> HIDE DEF e
  <2>6. Explains(Known(queue, dom, e.id, Len(queue) + 1), id_counter, N, e, entered, entered')
    BY <2>1, <2>2, <2>4, Zenon DEF Explains
  <2> QED BY <1>3, <1>6, <2>2, <2>3, <2>5, <2>6, Zenon
<1> QED BY <1>8, <1>9, <1>10, <1>11, <1>12, <1>13, <1>14, Zenon DEF Subscriber

\* The logger's step keeps LogInv and writes the event's own span.
LEMMA InvLogger ==
  ASSUME LogIInv, logger
  PROVE  LogInv' /\ EventInItsSpan'
<1> DEFINE dom == DOMAIN span_names
           n == id_counter
<1>0. LogShape /\ LogTypes /\ LogInv
  BY Zenon DEF LogIInv, LogShape
<1>1. PICK N \in [Nat -> Contexts] :
        /\ Names(N, id_counter, span_names, span, at, queue)
        /\ \E S \in [Nat -> Seq(Contexts)] :
             Stacks(N, S, id_counter, span_names, queue, current_name, entered)
  BY <1>0, Zenon DEF LogInv
<1>2. PICK S \in [Nat -> Seq(Contexts)] :
        Stacks(N, S, id_counter, span_names, queue, current_name, entered)
  BY <1>1, Zenon
<1>3. /\ queue \in Seq(LogMessages) /\ queue # <<>> /\ queue' = Tail(queue)
      /\ UNCHANGED <<id_counter, at, span, entered>>
  BY <1>0, Zenon DEF logger, LogTypes
<1>4. PICK m \in LogMessages : m = Head(queue)
  BY <1>3, LogTail, Zenon
<1>5. m = queue[1] /\ 1 \in 1..Len(queue) /\ 1 + 1 = 2 /\ 1..1-1 = {}
  <2>1. m = queue[1] /\ Len(queue) \in Nat \ {0}
    BY <1>3, <1>4, LogTail, Zenon
  <2>2. ASSUME NEW k \in Nat \ {0} PROVE 1 \in 1..k
    OBVIOUS
  <2>3. 1 + 1 = 2 /\ 1..1-1 = {}
    OBVIOUS
  <2> QED BY <2>1, <2>2, <2>3, Zenon
<1>6. Explains(m.id \in dom, n, N, m, current_name, S[2])
  <2>1. Known(queue, dom, m.id, 1) <=> m.id \in dom
    BY <1>5, Zenon DEF Known
  <2>2. S[1] = current_name /\ Rebuilds(queue, dom, n, N, S)
    BY <1>2, Zenon DEF Stacks
  <2>3. Explains(Known(queue, dom, queue[1].id, 1), n, N, queue[1], S[1], S[1 + 1])
    BY <1>5, <2>2, Zenon DEF Rebuilds
  <2>4. Explains(Known(queue, dom, m.id, 1), n, N, m, current_name, S[2])
    BY <1>5, <2>2, <2>3, Zenon
  <2> QED BY <2>1, <2>4, ZenonT(30) DEF Explains
<1>7. dom \subseteq 1..n-1 /\ \A i \in dom : span_names[i] = N[i]
  BY <1>1, Zenon DEF Names
\* What remains to be shown of a step.
<1>8. ASSUME current_name' = S[2],
             \A id : id \in DOMAIN span_names' <=> id \in dom \/ (m.type = "NewSpan" /\ m.id = id),
             DOMAIN span_names' \subseteq 1..n-1,
             \A i \in DOMAIN span_names' : span_names'[i] = N[i]
      PROVE  LogInv'
  <2>1. Taking(queue, id_counter, span_names, span_names', N, S, current_name, entered, span, at)
    BY <1>1, <1>2, <1>3, <1>4, <1>8, Zenon DEF Taking
  <2>2. /\ Names(N, id_counter, span_names', span, at, Tail(queue))
        /\ \E T \in [Nat -> Seq(Contexts)] :
             Stacks(N, T, id_counter, span_names', Tail(queue), S[2], entered)
    BY <2>1, LogTakes, Zenon
  <2> QED BY <1>3, <1>8, <2>2, Zenon DEF LogInv
<1>9. CASE m.type = "NewSpan"
  <2>1. /\ span_names' = [i \in dom \cup {m.id} |-> IF i = m.id THEN m.name ELSE span_names[i]]
        /\ UNCHANGED <<current_name, printed>>
    BY <1>4, <1>9, ZenonT(30) DEF logger
  <2>2. m.id \in 1..n-1 /\ m.name = N[m.id] /\ S[2] = current_name
    BY <1>6, <1>9, Zenon DEF Explains
  <2>3. DOMAIN span_names' = dom \cup {m.id}
    BY <2>1, Zenon
  <2>4. \A i \in DOMAIN span_names' : span_names'[i] = N[i]
    BY <1>7, <2>1, <2>2, <2>3, Zenon
  <2>5. LogInv'
    BY <1>7, <1>8, <1>9, <2>1, <2>2, <2>3, <2>4, Zenon
  <2>6. EventInItsSpan'
    BY <2>1, Zenon DEF LogIInv, EventInItsSpan
  <2> QED BY <2>5, <2>6
<1>10. CASE m.type = "Enter"
  <2>1. current_name' = Entered(m.id) /\ UNCHANGED <<span_names, printed>>
    BY <1>4, <1>10, ZenonT(30) DEF logger
  <2>2. m.id \in dom /\ S[2] = Append(current_name, N[m.id])
    BY <1>6, <1>10, Zenon DEF Explains
  <2>3. current_name' = S[2]
    BY <1>7, <2>1, <2>2, Zenon DEF Entered
  <2>4. LogInv'
    BY <1>7, <1>8, <1>10, <2>1, <2>3, "Enter" # "NewSpan", Zenon
  <2>5. EventInItsSpan'
    BY <2>1, Zenon DEF LogIInv, EventInItsSpan
  <2> QED BY <2>4, <2>5
<1>11. CASE m.type = "Exit"
  <2>1. current_name' = Exited(m.id) /\ UNCHANGED <<span_names, printed>>
    BY <1>4, <1>11, ZenonT(30) DEF logger
  <2>2. /\ m.id \in dom /\ current_name # <<>> /\ Last(current_name) = N[m.id]
        /\ S[2] = Front(current_name)
    BY <1>6, <1>11, Zenon DEF Explains
  <2>3. current_name' = S[2]
    BY <1>7, <2>1, <2>2, Zenon DEF Exited
  <2>4. LogInv'
    BY <1>7, <1>8, <1>11, <2>1, <2>3, "Exit" # "NewSpan", Zenon
  <2>5. EventInItsSpan'
    BY <2>1, Zenon DEF LogIInv, EventInItsSpan
  <2> QED BY <2>4, <2>5
<1>12. CASE m.type = "Event"
  <2>1. /\ printed' = {[level |-> m.level, span |-> m.span,
                        name |-> IF current_name = <<>> THEN "" ELSE Last(current_name)]}
        /\ UNCHANGED <<span_names, current_name>>
    BY <1>4, <1>12, ZenonT(30) DEF logger
  <2>2. enabled(m.level) /\ m.span = Top(current_name) /\ S[2] = current_name
    BY <1>6, <1>12, Zenon DEF Explains
  <2>3. LogInv'
    BY <1>7, <1>8, <1>12, <2>1, <2>2, "Event" # "NewSpan", Zenon
  <2>4. m.level \in LogLevels /\ Severity[m.level] >= Severity[Level]
    BY <1>12, <2>2, ReadTypes, EnabledIsSevere, Zenon
  <2>5. EventInItsSpan'
    <3>1. ASSUME NEW line \in printed'
          PROVE  line.name = line.span /\ Severity[line.level] >= Severity[Level]
      <4>0. line = [level |-> m.level, span |-> m.span, name |-> Top(current_name)]
        BY <2>1, Zenon DEF Top
      <4>1. line.level = m.level /\ line.span = m.span /\ line.name = Top(current_name)
        BY <4>0, Zenon
      <4> QED BY <2>2, <2>4, <4>1, Zenon
    <3> QED BY <3>1, Zenon DEF EventInItsSpan
  <2> QED BY <2>3, <2>5
<1> QED BY <1>6, <1>9, <1>10, <1>11, <1>12, Zenon DEF Explains

\* Every step keeps LogIInv.
LEMMA LogNextIInv == LogIInv /\ [LogNext]_logVars => LogIInv'
<1> SUFFICES ASSUME LogIInv, [LogNext]_logVars PROVE LogIInv'
  OBVIOUS
<1>1. ASSUME NEW x \in Contexts, Subscriber(x) PROVE LogIInv'
  <2>1. LogShape'
    BY <1>1, ShapeSubscriber, Zenon DEF LogIInv
  <2>2. LogInv'
    BY <1>1, InvSubscriber, Zenon
  <2>3. printed' = printed
    BY <1>1, Zenon DEF Subscriber, Begin, FetchSpanId, new_span, enter, event, exit, End
  <2>4. EventInItsSpan'
    BY <2>3, Zenon DEF LogIInv, EventInItsSpan
  <2> QED BY <2>1, <2>2, <2>4 DEF LogIInv
<1>2. CASE logger
  <2>1. LogShape'
    BY <1>2, ShapeLogger, Zenon DEF LogIInv
  <2> QED BY <1>2, <2>1, InvLogger, Zenon DEF LogIInv
<1>3. CASE UNCHANGED logVars
  BY <1>3, ZenonT(30)
  DEF logVars, LogIInv, LogShape, LogTypes, Nested, Spanned, LogInv, EventInItsSpan
<1> QED BY <1>1, <1>2, <1>3, Zenon DEF LogNext

LEMMA LogInvariant == LogSpec => []LogIInv
  BY LogInitIInv, LogNextIInv, PTL DEF LogSpec

\* Every event the logger task prints carries the name of the innermost span it
\* was recorded in, wherever the interrupt handler's own spans fall, and has at
\* least the configured level.
THEOREM EventsKeepTheirSpan == LogSpec => []EventInItsSpan
<1>1. LogIInv => EventInItsSpan
  BY DEF LogIInv
<1> QED BY <1>1, LogInvariant, PTL

\* The logger task's stack of span names is empty once it has taken every message
\* and nothing runs.
THEOREM StackIsBalanced == LogSpec => []StackBalanced
<1>1. LogIInv => StackBalanced
  <2> SUFFICES ASSUME LogIInv, queue = <<>>, \A x \in Contexts : at[x] = "idle"
               PROVE  current_name = <<>>
    BY Zenon DEF StackBalanced
  <2>1. entered = <<>>
    BY Zenon DEF LogIInv, LogShape, Nested
  <2>2. PICK S : S[1] = current_name /\ S[Len(queue) + 1] = entered
    BY Zenon DEF LogIInv, LogInv, Stacks
  <2>3. Len(queue) + 1 = 1
    BY SMT
  <2> QED BY <2>1, <2>2, <2>3, Zenon
<1> QED BY <1>1, LogInvariant, PTL
=============================================================================
