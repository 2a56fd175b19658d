CONSTANTS
  Workers = {w1, w2}
  NoWorker = NoWorker
  Hooks = {h1}
  Vehicles = {v1}
  MaxExec = 3
  Lease = 2
  MaxRun = 1
  Crashable = {w1}
  Deletes = FALSE
  Prompt = FALSE
SPECIFICATION FairSpec
INVARIANTS RunsAtMostOnce
PROPERTIES EveryJobEnds WaiterIsServed
