SPECIFICATION FairSpec
CONSTANTS
  MaxPeers = 3
  MaxCycle = 24
  KickDelay = 2
  JoinDelay = 10
  LeaveDelay = 4
  CountMod = 16
  BreakStates = {"Active"}
  Scenes <- AllScenes
INVARIANTS  InTime
PROPERTIES RoundsGoOn
