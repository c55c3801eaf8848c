SPECIFICATION Spec
CONSTANTS
  SeqClients = {}
  TimedClients = {t1}
  Monitors = {}
  EventType = FALSE
  Reserved = FALSE
  Span = 2
  Depth = 2
  Preemption = TRUE
  Ops = {}
  MaxWrites = 5
  MaxTime = 7
  MaxJump = 1
  MaxLength = 2
INVARIANTS TimedRight HistoryKept
