------------------------------ MODULE MCLogging ------------------------------
(* Small instances of Logging: a task with a span, a task whose span is    *)
(* below the level, and the interrupt handler.                             *)
EXTENDS Logging, TLC

CONSTANTS t1, t2

MCSpanLevel == (t1 :> "Info" @@ t2 :> "Trace" @@ Irq :> "Error")
=============================================================================
