\* Consumption under fairness, and backpressure: enough entries to fill the
\* buffer, a batch and the item in hand, and one more.  There is no entry that
\* fails to deserialise: it would be retried for ever.  There is no deletion either,
\* since AckedIsApplied ends with one and a worker left over takes entries away.
SPECIFICATION Spec
CONSTANTS
  Kinds = {"change"}
  BufferSize = 1
  FetchBatch = 2
  Faults = {"connect", "group", "process", "ack"}
  MaxEntries = 5
  MaxFaults = 1
  MaxStops = 1
  MaxStale = 1
  MaxCrashes = 1
  MaxDeletes = 0
INVARIANTS AckedIsApplied PendingBounded
 
\* With every entry consumed the worker waits for the next: not a deadlock.
CHECK_DEADLOCK FALSE
