SPECIFICATION Spec
CONSTANTS
  SeqClients = {s1}
  TimedClients = {}
  Monitors = {m1}
  EventType = FALSE
  Reserved = TRUE
  Span = 0
  Depth = 1
  Preemption = FALSE
  Ops = {}
  MaxWrites = 4
  MaxTime = 5
  MaxJump = 1
  MaxLength = 1
INVARIANTS TypeOK AccessCounted HeldNotDeleted
PROPERTIES EveryPointRead SavedUpFromStart
