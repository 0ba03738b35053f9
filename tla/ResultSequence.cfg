\* Three managers after the first, so that the tasks of two dropped managers
\* write next to a third.
SPECIFICATION HostSpec
CONSTANTS
  Keys <- NoKeys
  Events <- NoContent
  MaxResults = 4
  MaxEnds = 3
  MaxCrashes = 1
  MaxMisses = 2
INVARIANTS HostTypeOK OrderlyRestartsNumberInOrder
\* The results and the ends of workers are bounded: the model may stop.
CHECK_DEADLOCK FALSE
