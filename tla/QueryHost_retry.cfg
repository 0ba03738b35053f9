\* One failed call before the bootstrap of a query that does not crash.
SPECIFICATION Spec
CONSTANTS
  w1 = w1
  w2 = w2
  l1 = l1
  l2 = l2
  Workers <- MCWorkers
  Lifecycles <- MCLifecycles
  NoWorker = NoWorker
  Profiles <- PermanentOnly
  ViewEnabled = TRUE
  Faults = {"view"}
  MaxFaults = 1
  MaxCrashes = 0
  MaxConfigures = 1
  MaxDeletes = 1
SYMMETRY Slots
INVARIANTS BootstrapsBeforeStreaming
