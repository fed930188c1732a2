------------------------------- MODULE Logging -------------------------------
(***************************************************************************)
(* The logging extension (src/extensions/logging.rs): the subscriber, which*)
(* turns spans and events into messages wherever they occur, and the logger*)
(* task, which rebuilds the nesting of the spans from those messages.      *)
(*                                                                         *)
(* The contexts are the tasks and the interrupt handler.  A task runs only *)
(* when no other does; the handler runs in between any two steps of a task *)
(* or of the logger, to its end.  A task's span is created once and entered*)
(* at every poll (tracing::instrument); the handler's is new every time.   *)
(***************************************************************************)
EXTENDS Naturals, Sequences, FiniteSets

CONSTANTS Tasks, Irq,
          SpanLevel,   \* the level of each context's span
          Level,       \* the level the extension was created with
          MaxSpans,    \* bound: spans that are created
          MaxEvents,   \* bound: events that are recorded
          MaxQueue     \* bound: messages queued when a poll begins

LogLevels == {"Trace", "Debug", "Info", "Warn", "Error"}
Contexts == Tasks \cup {Irq}

ASSUME LogAssumption ==
  /\ Irq \notin Tasks
  /\ SpanLevel \in [Contexts -> LogLevels] /\ Level \in LogLevels
  /\ MaxSpans \in Nat /\ MaxEvents \in Nat /\ MaxQueue \in Nat

VARIABLES
  id_counter,
  queue,         \* messages from the subscriber to the logger
  at, span,      \* per context: its next step, its span's id or 0
  entered,       \* the contexts whose spans are entered, innermost last
  events,        \* events recorded so far
  span_names, current_name,  \* the logger's table and stack
  printed        \* the line written last, if any

logVars == <<id_counter, queue, at, span, entered, events, span_names,
            current_name, printed>>

LogInit ==
  /\ id_counter = 1 /\ queue = <<>>
  /\ at = [x \in Contexts |-> "idle"] /\ span = [x \in Contexts |-> 0]
  /\ entered = <<>> /\ events = 0
  /\ span_names = [i \in {} |-> ""] /\ current_name = <<>>
  /\ printed = {}

\* A Vec without its last element, as pop leaves it, and that element.
Front(s) == SubSeq(s, 1, Len(s) - 1)
Last(s) == s[Len(s)]

-----------------------------------------------------------------------------
(* The subscriber.                                                         *)

\* LogLevel's order, arm by arm.
partial_cmp(a, b) ==
  CASE a = b -> "Equal"
    [] a # b /\ a = "Trace" -> "Less"
    [] a # b /\ a = "Debug" -> IF b = "Trace" THEN "Greater" ELSE "Less"
    [] a # b /\ a = "Info" -> IF b \in {"Trace", "Debug"} THEN "Greater" ELSE "Less"
    [] a # b /\ a = "Warn" ->
         IF b \in {"Trace", "Debug", "Info"} THEN "Greater" ELSE "Less"
    [] OTHER -> IF b \in {"Trace", "Debug", "Info", "Warn"} THEN "Greater" ELSE "Less"

enabled(level) == partial_cmp(level, Level) \in {"Greater", "Equal"}

\* The handler preempts every task; a task runs when nothing else does.
MayRun(x) ==
  x = Irq \/ \A y \in Contexts \ {x} : at[y] = "idle"

NeedsSpan(x) == enabled(SpanLevel[x]) /\ span[x] = 0
Creating == {x \in Contexts : at[x] = "fetch"}

\* A poll or an interrupt begins.  A disabled span leaves no trace, and the
\* span of an earlier poll is used again.
Begin(x) ==
  /\ MayRun(x) /\ at[x] = "idle" /\ Len(queue) <= MaxQueue
  /\ NeedsSpan(x) => id_counter + Cardinality(Creating) <= MaxSpans
  /\ at' = [at EXCEPT ![x] = IF ~enabled(SpanLevel[x]) THEN "plain"
                             ELSE IF NeedsSpan(x) THEN "fetch" ELSE "enter"]
  /\ UNCHANGED <<id_counter, queue, span, entered, events, span_names,
                 current_name, printed>>

\* new_span: id_counter.fetch_add, then the message.
FetchSpanId_Load(x) ==
  /\ MayRun(x) /\ at[x] = "fetch"
  /\ span' = [span EXCEPT ![x] = id_counter]
  /\ at' = [at EXCEPT ![x] = "new"]
  /\ UNCHANGED <<id_counter, queue, entered, events, span_names, current_name,
                 printed>>

FetchSpanId(x) ==
  /\ MayRun(x) /\ at[x] = "fetch"
  /\ span' = [span EXCEPT ![x] = id_counter]
  /\ id_counter' = id_counter + 1
  /\ at' = [at EXCEPT ![x] = "new"]
  /\ UNCHANGED <<queue, entered, events, span_names, current_name, printed>>

new_span(x) ==
  /\ MayRun(x) /\ at[x] = "new"
  /\ queue' = Append(queue, [type |-> "NewSpan", id |-> span[x], name |-> x])
  /\ at' = [at EXCEPT ![x] = "enter"]
  /\ UNCHANGED <<id_counter, span, entered, events, span_names, current_name,
                 printed>>

enter(x) ==
  /\ MayRun(x) /\ at[x] = "enter"
  /\ queue' = Append(queue, [type |-> "Enter", id |-> span[x]])
  /\ entered' = Append(entered, x)
  /\ at' = [at EXCEPT ![x] = "inside"]
  /\ UNCHANGED <<id_counter, span, events, span_names, current_name, printed>>

\* The span an event belongs to is kept beside the message, to compare the
\* printed line with.
Innermost == IF entered = <<>> THEN "" ELSE Last(entered)

event(x) ==
  /\ MayRun(x) /\ at[x] \in {"inside", "plain"} /\ events < MaxEvents
  /\ \E l \in LogLevels :
       /\ enabled(l)
       /\ queue' = Append(queue, [type |-> "Event", level |-> l,
                                  span |-> Innermost])
  /\ events' = events + 1
  /\ UNCHANGED <<id_counter, at, span, entered, span_names, current_name,
                 printed>>

\* The span is left; the handler also drops it.
exit(x) ==
  /\ MayRun(x) /\ at[x] = "inside"
  /\ queue' = Append(queue, [type |-> "Exit", id |-> span[x]])
  /\ entered' = Front(entered)
  /\ span' = IF x = Irq THEN [span EXCEPT ![x] = 0] ELSE span
  /\ at' = [at EXCEPT ![x] = "idle"]
  /\ UNCHANGED <<id_counter, events, span_names, current_name, printed>>

End(x) ==
  /\ MayRun(x) /\ at[x] = "plain"
  /\ at' = [at EXCEPT ![x] = "idle"]
  /\ UNCHANGED <<id_counter, queue, span, entered, events, span_names,
                 current_name, printed>>

-----------------------------------------------------------------------------
(* The logger task.                                                        *)

\* What the logger's stack becomes on an Enter and on an Exit message.
Entered(id) ==
  IF id \in DOMAIN span_names THEN Append(current_name, span_names[id])
                              ELSE current_name

Exited_First(id) ==
  IF current_name # <<>> /\ Head(current_name) = span_names[id]
  THEN Front(current_name) ELSE current_name

Exited(id) ==
  IF /\ id \in DOMAIN span_names
     /\ current_name # <<>>
     /\ Last(current_name) = span_names[id]
  THEN Front(current_name)
  ELSE current_name

\* One turn of its loop.  The logger is a task too.
logger ==
  /\ \A x \in Contexts : at[x] = "idle"
  /\ queue # <<>>
  /\ queue' = Tail(queue)
  /\ LET m == Head(queue)
     IN  \/ /\ m.type = "NewSpan"
            /\ span_names' = [i \in DOMAIN span_names \cup {m.id} |->
                                IF i = m.id THEN m.name ELSE span_names[i]]
            /\ UNCHANGED <<current_name, printed>>
         \/ /\ m.type = "Enter"
            /\ current_name' = Entered(m.id)
            /\ UNCHANGED <<span_names, printed>>
         \/ /\ m.type = "Exit"
            /\ current_name' = Exited(m.id)
            /\ UNCHANGED <<span_names, printed>>
         \/ /\ m.type = "Event"
            /\ printed' = {[level |-> m.level, span |-> m.span,
                            name |-> IF current_name = <<>> THEN ""
                                     ELSE Last(current_name)]}
            /\ UNCHANGED <<span_names, current_name>>
  /\ UNCHANGED <<id_counter, at, span, entered, events>>

Subscriber(x) == Begin(x) \/ FetchSpanId(x) \/ new_span(x) \/ enter(x)
                 \/ event(x) \/ exit(x) \/ End(x)

LogNext == (\E x \in Contexts : Subscriber(x)) \/ logger

LogSpec == LogInit /\ [][LogNext]_logVars

-----------------------------------------------------------------------------
(* Properties.                                                             *)

\* Every variable has the type the code declares: the logger's stack holds
\* the names of spans and its table maps the ids handed out to such names.
LogTypeOK ==
  /\ id_counter \in 1..MaxSpans + 1 /\ events \in 0..MaxEvents
  /\ at \in [Contexts -> {"idle", "plain", "fetch", "new", "enter", "inside"}]
  /\ span \in [Contexts -> 0..MaxSpans]
  /\ entered \in Seq(Contexts) /\ current_name \in Seq(Contexts)
  /\ DOMAIN span_names \subseteq 1..MaxSpans
  /\ \A i \in DOMAIN span_names : span_names[i] \in Contexts

Severity == [Trace |-> 1, Debug |-> 2, Info |-> 3, Warn |-> 4, Error |-> 5]

\* Every event is printed with the name of the innermost span it was recorded
\* in, although the handler enters and leaves spans of its own in the middle
\* of the task's and of new_span itself; and only if it is at least as severe
\* as the configured level: LogLevel's own order agrees with that although it is
\* written out by hand and the declaration lists Debug before Trace.
EventInItsSpan ==
  \A line \in printed : /\ line.name = line.span
                        /\ Severity[line.level] >= Severity[Level]

\* No name is left behind on the logger's stack: once every message has been
\* processed, with nothing running, the stack is empty.
StackBalanced ==
  (queue = <<>> /\ \A x \in Contexts : at[x] = "idle") => current_name = <<>>
=============================================================================
