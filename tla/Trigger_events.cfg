CONSTANTS
  TickMod = 64
  MaxTick = 7
  MaxQueue = 2
  MaxJump = 2
  Wirings <- TokenWithEvents
SPECIFICATION Spec
INVARIANT EventsComeOut
