SPECIFICATION Spec
CONSTANTS
  SeqClients = {s1}
  TimedClients = {}
  Monitors = {}
  EventType = FALSE
  Reserved = FALSE
  Span = 0
  Depth = 1
  Preemption = FALSE
  Ops = {"flushOne", "flushAll", "spin", "spinTo", "keep"}
  MaxWrites = 4
  MaxTime = 4
  MaxJump = 1
  MaxLength = 1
INVARIANTS ChainOrdered
