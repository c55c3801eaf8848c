SPECIFICATION FairSpec
CONSTANTS
  w1 = w1
  w2 = w2
  Writers = {w1, w2}
  Reader = r
  TagModulus = 3
  SizeModulus = 64
  MaxGets = 4
  Share <- OneHeldUp
INVARIANTS TypeOK OnePlaceEach SizeWhenQuiet
PROPERTIES ImplementsFifo EverythingRead
