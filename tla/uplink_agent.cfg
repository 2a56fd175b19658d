CONSTANTS
  Devices = {d1}
  Slots = {k1, k2}
  NoSlot = NoSlot
  MaxSamples = 3
  MaxBoots = 2
  MaxFaults = 1
  BatchLimit = 2
  Times = {0, 1}
  Headings = {0}
  Requests = {}
SPECIFICATION FairSpec
INVARIANTS CurrentIsNewest
PROPERTIES EveryReadingArrives
CHECK_DEADLOCK FALSE
