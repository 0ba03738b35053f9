\* Recovery under fairness: no entry that fails to deserialise and no failed creation
\* of the consumer group, which the code does not get over.
SPECIFICATION Spec
CONSTANTS
  k1 = k1
  k2 = k2
  Keys <- TwoKeys
  Changes <- SomeChanges
  Kinds = {"reset", "change"}
  Policies = {"Latest"}
  ExpireAfter = 1
  Faults = {"index", "connect", "row", "meta", "drop", "ack", "crash"}
  MaxTime = 0
  MaxEvents = 3
  MaxFaults = 2
  MaxConfigures = 2
  MaxStops = 1
PROPERTIES ViewCatchesUp
\* With every event handled and the actor idle nothing need happen.
CHECK_DEADLOCK FALSE
