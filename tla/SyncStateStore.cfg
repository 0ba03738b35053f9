\* Every failure of the reaction, on results numbered in order.
SPECIFICATION Spec
CONSTANTS
  k1 = k1
  k2 = k2
  Keys <- TwoKeys
  Events <- SomeEvents
  MaxResults = 3
  MaxEnds = 0
  MaxCrashes = 0
  MaxMisses = 0
  InOrder = TRUE
  Faults = {"load", "save", "point"}
  MaxFaults = 1
  MaxRestarts = 1
INVARIANTS TypeOK 
PROPERTIES StoreNeverGoesBack EventsAreAnswered
\* With every event answered the reaction waits for the next: not a deadlock.
CHECK_DEADLOCK FALSE
