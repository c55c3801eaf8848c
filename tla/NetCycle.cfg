SPECIFICATION FairSpec
CONSTANTS
  N = 2
  CycleMod = 5
  RepeatMod = 4
  Orders = {"bus", "sender"}
  FirstLoss = 2
  MaxPacks = 4
  MaxLosses = 2
  MaxEarly = 1
  MaxLate = 1
INVARIANTS RecoveryPossible CycleConfirmed
PROPERTIES InSequence AllCyclesCompleted
