SPECIFICATION LogSpec
CONSTANTS
  t1 = t1
  t2 = t2
  Tasks = {t1, t2}
  Irq = Irq
  SpanLevel <- MCSpanLevel
  Level = "Debug"
  MaxSpans = 3
  MaxEvents = 2
  MaxQueue = 3
INVARIANTS EventInItsSpan StackBalanced
