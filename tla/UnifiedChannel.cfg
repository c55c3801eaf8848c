SPECIFICATION FairSpec
CONSTANTS
  atMaster = atMaster
  elsewhere = elsewhere
  wa = wa
  wb = wb
  wc = wc
  ra = ra
  rb = rb
  Locations = {atMaster, elsewhere}
  Master = atMaster
  WriteTokens = {wa, wb, wc}
  ReadTokens = {ra, rb}
  Settings <- AllSettings
  MaxEntries = 3
  RoundMod = 4
  MaxQueue = 1
  NoEntry = NoEntry
INVARIANTS  TocheckExact  AgreeWhenQuiet
 
