----------------------------- MODULE Interrupts -----------------------------
(***************************************************************************)
(* Interrupts on the one CPU: the interrupt controller, the descriptor     *)
(* tables (src/interrupts.rs), the handlers (src/interrupts/timer.rs,      *)
(* src/interrupts/keyboard.rs and network_interrupt), the spin locks they  *)
(* share with the code they interrupt, and the start-up code that installs *)
(* them (src/hardware.rs, src/extensions/networking.rs).                   *)
(*                                                                         *)
(* A handler runs with interrupts disabled on top of the code it           *)
(* interrupts, so a lock that code holds is never released under it.       *)
(***************************************************************************)
EXTENDS Naturals, Sequences

CONSTANTS Lines,          \* the interrupt lines in use
          Registrations   \* the lines set_interrupt is called for, in order

ASSUME LineAssumption ==
  /\ Lines \subseteq {"timer", "keyboard", "network"}
  /\ Registrations \in Seq(Lines)

VARIABLES
  pc, done,       \* the start-up code: its next step, registrations made
  allocating,     \* the code outside the handlers is inside the allocator
  n_idt,          \* set_interrupt's copy of the table
  iflag,          \* are interrupts enabled?
  irr, isr, mask, \* the controller: requested, in service, masked lines
  tables, live,   \* the lines with a handler in each table; allocated tables
  idt, loaded,    \* the table in IDT; the one the CPU uses
  pics, allocator,  \* the holders of the two locks
  int_devices, handle_queue,  \* have the statics been set?
  irq, step,      \* the line whose handler runs, its next step
  panicked

startup == <<pc, done, n_idt>>
controller == <<irr, isr, mask>>
idts == <<tables, live, idt, loaded>>
locks == <<pics, allocator>>
statics == <<int_devices, handle_queue>>
handler == <<irq, step>>
vars == <<startup, allocating, iflag, controller, idts, locks, statics, handler,
          panicked>>

Free == "free"
None == "none"
InitialLines == {"timer", "keyboard"}  \* the lines of INITIAL_IDT
Count == Len(Registrations)

\* Table 0 is INITIAL_IDT; the bootloader leaves the network line masked.
Init ==
  /\ pc = "basic_init" /\ done = 0 /\ allocating = FALSE /\ n_idt = {}
  /\ iflag = FALSE /\ irr = {} /\ isr = {} /\ mask = Lines \ InitialLines
  /\ tables = [k \in 0..Count |-> IF k = 0 THEN InitialLines ELSE {}]
  /\ live = {0} /\ idt = 0 /\ loaded = Count + 1
  /\ pics = Free /\ allocator = Free
  /\ int_devices = FALSE /\ handle_queue = FALSE
  /\ irq = None /\ step = None /\ panicked = FALSE

\* The code outside the handlers makes a step.
Main(from) ==
  /\ irq = None /\ ~panicked /\ ~allocating
  /\ pc = from

-----------------------------------------------------------------------------
(* Start-up.                                                               *)

\* Hardware::basic_init: with interrupts disabled.
basic_init ==
  /\ Main("basic_init")
  /\ loaded' = idt
  /\ iflag' = TRUE
  /\ pc' = "init_devices"
  /\ UNCHANGED <<done, n_idt, allocating, controller, tables, live, idt, locks,
                 statics, handler, panicked>>

init_devices_Forgotten ==
  /\ Main("init_devices")
  /\ pc' = "handle_queue"
  /\ UNCHANGED <<done, n_idt, allocating, iflag, controller, idts, locks,
                 statics, handler, panicked>>

\* NetworkExtension::setup: the statics, then the interrupt.
init_devices ==
  /\ Main("init_devices")
  /\ int_devices' = TRUE
  /\ pc' = "handle_queue"
  /\ UNCHANGED <<done, n_idt, allocating, iflag, controller, idts, locks,
                 handle_queue, handler, panicked>>

InitQueue ==
  /\ Main("handle_queue")
  /\ handle_queue' = TRUE
  /\ pc' = IF Count = 0 THEN "run" ELSE "clone"
  /\ UNCHANGED <<done, n_idt, allocating, iflag, controller, idts, locks,
                 int_devices, handler, panicked>>

\* set_interrupt: the table is copied and the copy changed with interrupts
\* still enabled.
CloneIdt_Initial ==
  /\ Main("clone")
  /\ n_idt' = tables[0] \cup {Registrations[done + 1]}
  /\ pc' = "cli"
  /\ UNCHANGED <<done, allocating, iflag, controller, idts, locks, statics,
                 handler, panicked>>

CloneIdt ==
  /\ Main("clone")
  /\ n_idt' = tables[idt] \cup {Registrations[done + 1]}
  /\ pc' = "cli"
  /\ UNCHANGED <<done, allocating, iflag, controller, idts, locks, statics,
                 handler, panicked>>

Disable_Skipped ==
  /\ Main("cli")
  /\ pc' = "replace"
  /\ UNCHANGED <<done, n_idt, allocating, iflag, controller, idts, locks,
                 statics, handler, panicked>>

\* The closure of without_interrupts.
Disable ==
  /\ Main("cli")
  /\ iflag' = FALSE
  /\ pc' = "replace"
  /\ UNCHANGED <<done, n_idt, allocating, controller, idts, locks, statics,
                 handler, panicked>>

ReplaceIdt ==
  /\ Main("replace")
  /\ allocator = Free
  /\ idt' = done + 1
  /\ tables' = [tables EXCEPT ![done + 1] = n_idt]
  /\ live' = live \cup {done + 1}
  /\ pc' = "load"
  /\ UNCHANGED <<done, n_idt, allocating, iflag, controller, loaded, locks,
                 statics, handler, panicked>>

LoadIdt ==
  /\ Main("load")
  /\ loaded' = idt
  /\ pc' = "lock"
  /\ UNCHANGED <<done, n_idt, allocating, iflag, controller, tables, live, idt,
                 locks, statics, handler, panicked>>

LockPics ==
  /\ Main("lock")
  /\ pics = Free
  /\ pics' = "main"
  /\ pc' = "unmask"
  /\ UNCHANGED <<done, n_idt, allocating, iflag, controller, idts, allocator,
                 statics, handler, panicked>>

Unmask ==
  /\ Main("unmask")
  /\ mask' = mask \ {Registrations[done + 1]}
  /\ pc' = "drop"
  /\ UNCHANGED <<done, n_idt, allocating, iflag, irr, isr, idts, locks, statics,
                 handler, panicked>>

\* The old table is dropped, then the guards of the two locks; the initial
\* table is static.
DropIdt ==
  /\ Main("drop")
  /\ allocator = Free
  /\ live' = live \ ({done} \ {0})
  /\ pics' = Free
  /\ pc' = "sti"
  /\ UNCHANGED <<done, n_idt, allocating, iflag, controller, tables, idt, loaded,
                 allocator, statics, handler, panicked>>

Enable ==
  /\ Main("sti")
  /\ iflag' = TRUE
  /\ done' = done + 1
  /\ pc' = IF done + 1 = Count THEN "run" ELSE "clone"
  /\ UNCHANGED <<n_idt, allocating, controller, idts, locks, statics, handler,
                 panicked>>

set_interrupt == CloneIdt \/ Disable \/ ReplaceIdt \/ LoadIdt \/ LockPics
                 \/ Unmask \/ DropIdt \/ Enable

-----------------------------------------------------------------------------
(* Everything outside the handlers uses the heap, with interrupts enabled. *)

Alloc ==
  /\ irq = None /\ ~panicked /\ ~allocating /\ iflag
  /\ allocator = Free
  /\ allocator' = "main"
  /\ allocating' = TRUE
  /\ UNCHANGED <<startup, iflag, controller, idts, pics, statics, handler,
                 panicked>>

AllocDone ==
  /\ irq = None /\ ~panicked /\ allocating
  /\ allocator' = Free
  /\ allocating' = FALSE
  /\ UNCHANGED <<startup, iflag, controller, idts, pics, statics, handler,
                 panicked>>

-----------------------------------------------------------------------------
(* The controller and the handlers.                                        *)

Priority == [timer |-> 0, keyboard |-> 1, network |-> 11]

Raise(l) ==
  /\ l \notin irr /\ ~panicked
  /\ irr' = irr \cup {l}
  /\ UNCHANGED <<startup, allocating, iflag, isr, mask, idts, locks, statics,
                 handler, panicked>>

\* The controller holds a line back until those of its priority or above have
\* been acknowledged.  A line without a handler is a general protection fault.
Dispatch(l) ==
  /\ irq = None /\ ~panicked /\ iflag
  /\ l \in irr \ mask
  /\ \A k \in isr : Priority[k] > Priority[l]
  /\ \A k \in irr \ mask : Priority[k] >= Priority[l]
  /\ irr' = irr \ {l} /\ isr' = isr \cup {l}
  /\ iflag' = FALSE
  /\ IF l \in tables[loaded]
     THEN /\ irq' = l
          /\ step' = IF l = "network" THEN "span" ELSE "work"
          /\ UNCHANGED panicked
     ELSE /\ panicked' = TRUE
          /\ UNCHANGED handler
  /\ UNCHANGED <<startup, allocating, mask, idts, locks, statics>>

HandlerStep(from) == irq # None /\ step = from /\ ~panicked

\* network_interrupt: the span, its messages and the buffers for the packets
\* are allocated.
EnterSpan ==
  /\ HandlerStep("span")
  /\ allocator = Free
  /\ step' = "work"
  /\ UNCHANGED <<startup, allocating, iflag, controller, idts, locks, statics,
                 irq, panicked>>

\* What the handler does with its device; for the network line
\* interrupt::handle_interrupt with its early return and its expect.
Work ==
  /\ HandlerStep("work")
  /\ panicked' = (irq = "network" /\ handle_queue /\ ~int_devices)
  /\ step' = "lock"
  /\ UNCHANGED <<startup, allocating, iflag, controller, idts, locks, statics,
                 irq>>

HandlerLock ==
  /\ HandlerStep("lock")
  /\ pics = Free
  /\ pics' = "handler"
  /\ step' = "eoi"
  /\ UNCHANGED <<startup, allocating, iflag, controller, idts, allocator,
                 statics, irq, panicked>>

notify_end_of_interrupt_Missing ==
  /\ HandlerStep("eoi")
  /\ pics' = Free
  /\ step' = "return"
  /\ UNCHANGED <<startup, allocating, iflag, controller, idts, allocator,
                 statics, irq, panicked>>

notify_end_of_interrupt ==
  /\ HandlerStep("eoi")
  /\ isr' = isr \ {irq}
  /\ pics' = Free
  /\ step' = "return"
  /\ UNCHANGED <<startup, allocating, iflag, irr, mask, idts, allocator, statics,
                 irq, panicked>>

Return ==
  /\ HandlerStep("return")
  /\ irq' = None /\ step' = None
  /\ iflag' = TRUE
  /\ UNCHANGED <<startup, allocating, controller, idts, locks, statics, panicked>>

Startup == basic_init \/ init_devices \/ InitQueue \/ set_interrupt
Heap == Alloc \/ AllocDone
Handler == EnterSpan \/ Work \/ HandlerLock \/ notify_end_of_interrupt \/ Return
Next == \/ Startup \/ Heap \/ Handler
        \/ \E l \in Lines : Raise(l) \/ Dispatch(l)

Spec == Init /\ [][Next]_vars

\* The CPU keeps running, the code outside the handlers gets on in between
\* interrupts, and a line that can be taken again and again is taken.
Fairness ==
  /\ SF_vars(Startup) /\ SF_vars(AllocDone) /\ WF_vars(Handler)
  /\ \A l \in Lines : SF_vars(Dispatch(l))

FairSpec == Spec /\ Fairness

-----------------------------------------------------------------------------
(* Properties.                                                             *)

\* Every variable has its type; a table in use is one of those created.
TypeOK ==
  /\ pc \in {"basic_init", "init_devices", "handle_queue", "clone", "cli",
            "replace", "load", "lock", "unmask", "drop", "sti", "run"}
  /\ done \in 0..Count /\ n_idt \subseteq Lines \cup InitialLines
  /\ allocating \in BOOLEAN /\ iflag \in BOOLEAN /\ panicked \in BOOLEAN
  /\ int_devices \in BOOLEAN /\ handle_queue \in BOOLEAN
  /\ irr \subseteq Lines /\ isr \subseteq Lines /\ mask \subseteq Lines
  /\ tables \in [0..Count -> SUBSET (Lines \cup InitialLines)]
  /\ live \subseteq 0..Count /\ idt \in live /\ loaded \in 0..Count + 1
  /\ pics \in {Free, "main", "handler"} /\ allocator \in {Free, "main"}
  /\ irq \in Lines \cup {None}
  /\ step \in {None, "span", "work", "lock", "eoi", "return"}

\* Once the CPU has a table it is always an allocated one, and it has a
\* handler for every line that is not masked: set_interrupt loads the new
\* table before it unmasks the line and before it drops the old table, and a
\* handler that an earlier call installed is kept by a later one.
IdtValid ==
  pc # "basic_init" => /\ loaded \in live
                       /\ Lines \ mask \subseteq tables[loaded]

\* A handler never waits for the lock of the interrupt controller: the code
\* outside the handlers takes it with interrupts disabled only.
PicsAvailable == step = "lock" => pics = Free

\* No interrupt finds the kernel unprepared: the handler is installed after
\* the statics it reads, so neither its expect nor a missing entry stops it.
HandlersReady == ~panicked

\* Every interrupt that is requested and not masked is served, unless a line
\* of higher priority asks for the CPU; so the timer always is.  A missing
\* acknowledgement (every path through a handler, its early returns included,
\* has to send one) or a lock that is not given back would stop the line for
\* good.  The exception is a handler that waits for the allocator of the code
\* it interrupted, which LoggingNeverBlocks is about.
LineServed ==
  \A l \in Lines :
    (l \in irr \ mask)
      ~> \/ l \notin irr
         \/ \E k \in irr : Priority[k] < Priority[l]
         \/ step = "span" /\ allocator # Free

\* "In general this avoids any form of locking and can therefore not cause any
\* deadlocks" (the doc comment of the logging extension): the handler that
\* logs never waits for a lock of the code it interrupted.
LoggingNeverBlocks == step = "span" => allocator = Free
=============================================================================
