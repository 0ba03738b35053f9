\* A permanent query on a persistent index or a transient one in memory; every call may
\* fail.
SPECIFICATION Spec
CONSTANTS
  w1 = w1
  w2 = w2
  l1 = l1
  l2 = l2
  Workers <- MCWorkers
  Lifecycles <- MCLifecycles
  NoWorker = NoWorker
  Profiles <- BothProfiles
  ViewEnabled = TRUE
  Faults <- AllFaults
  MaxFaults = 1
  MaxCrashes = 1
  MaxConfigures = 2
  MaxDeletes = 1
SYMMETRY Slots
INVARIANTS TypeOK WorkerOwnership RestartKeepsResults
