CONSTANTS
  Devices = {d1, d2}
  Slots = {k1, k2}
  NoSlot = NoSlot
  MaxSamples = 2
  MaxBoots = 1
  MaxFaults = 1
  BatchLimit = 2
  Times = {0, 1}
  Headings = {0, 360}
  Requests = {"revoke", "delete", "remove", "clear"}
SPECIFICATION Spec
SYMMETRY Symmetry
INVARIANTS NothingForgotten BatchesPartitionHistory
PROPERTIES LogHolds CurrentNeverRewinds
CHECK_DEADLOCK FALSE
