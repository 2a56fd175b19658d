CONSTANTS
  Workers = {w1, w2}
  NoWorker = NoWorker
  Hooks = {h1}
  Vehicles = {v1}
  MaxExec = 2
  Lease = 3
  MaxRun = 2
  Crashable = {}
  Deletes = FALSE
  Prompt = TRUE
SPECIFICATION Spec
INVARIANT NoLostUpdate
