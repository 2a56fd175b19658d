CONSTANTS
  Workers = {w1, w2}
  NoWorker = NoWorker
  Hooks = {h1, h2}
  Vehicles = {v1}
  MaxExec = 4
  Lease = 1
  MaxRun = 0
  Crashable = {}
  Deletes = TRUE
  Prompt = TRUE
SPECIFICATION Spec
SYMMETRY Symmetry
INVARIANTS OneChildPerHook NoPhantomEffect
PROPERTIES LedgerHolds
