CONSTANTS
  Devices = {d1}
  Slots = {k1, k2}
  NoSlot = NoSlot
  MaxSamples = 2
  MaxBoots = 1
  MaxFaults = 0
  BatchLimit = 2
  Times = {0}
  Headings = {0, 360}
  Requests = {}
SPECIFICATION FairSpec
PROPERTIES EveryReadingArrives
CHECK_DEADLOCK FALSE
