SPECIFICATION FairSpec
CONSTANTS
  SeqClients = {}
  TimedClients = {t1}
  Monitors = {}
  EventType = TRUE
  Reserved = FALSE
  Span = 0
  Depth = 1
  Preemption = FALSE
  Ops = {}
  MaxWrites = 5
  MaxTime = 3
  MaxJump = 1
  MaxLength = 1
 
PROPERTIES  CleanedInTheEnd
