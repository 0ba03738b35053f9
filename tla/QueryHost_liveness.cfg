\* Retry and termination: no symmetry, one of the calls a retry is for may fail.
SPECIFICATION Spec
CONSTANTS
  w1 = w1
  w2 = w2
  l1 = l1
  l2 = l2
  Workers <- MCWorkers
  Lifecycles <- MCLifecycles
  NoWorker = NoWorker
  Profiles <- PermanentOnly
  ViewEnabled = TRUE
  Faults = {"process"}
  MaxFaults = 1
  MaxCrashes = 1
  MaxConfigures = 1
  MaxDeletes = 1

PROPERTIES TransientErrorIsRetried StoppingWorkersEnd
