\* Every failure, a crash and a bootstrap in the middle.
SPECIFICATION Spec
CONSTANTS
  k1 = k1
  k2 = k2
  Keys <- TwoKeys
  Changes <- SomeChanges
  Kinds = {"reset", "change", "status", "bad"}
  Policies = {"Latest", "Expire", "All"}
  ExpireAfter = 1
  Faults = {"persist", "reminder", "index", "connect", "group", "row", "meta", "drop", "state", "ack", "crash"}
  MaxTime = 2
  MaxEvents = 3
  MaxFaults = 1
  MaxConfigures = 1
  MaxStops = 1
INVARIANTS TypeOK ReadsAreFresh HistoryIsExact
PROPERTIES ViewKeepsPromise
\* With every event handled and the actor idle nothing need happen.
CHECK_DEADLOCK FALSE
