\* Stops, a crash, a deletion with the worker it leaves over, failures and redelivery.
SPECIFICATION Spec
CONSTANTS
  Kinds = {"change", "other", "bad", "malformed"}
  BufferSize = 1
  FetchBatch = 2
  Faults = {"connect", "group", "process", "publish", "status", "ack", "clear", "unsubscribe"}
  MaxEntries = 2
  MaxFaults = 1
  MaxStops = 1
  MaxStale = 2
  MaxCrashes = 1
  MaxDeletes = 1
INVARIANTS TypeOK AckedIsApplied ResultsMatchIndex
\* With every entry consumed the worker waits for the next: not a deadlock.
CHECK_DEADLOCK FALSE
