SPECIFICATION FairSpec
CONSTANTS
  p1 = p1
  p2 = p2
  e1 = e1
  e2 = e2
  Packers = {p1, p2}
  Ends = {e1, e2}
  Span = 0
  Depth = 1
  Capacity = 4
  Setups <- AllSetups
INVARIANTS  Received 
  
