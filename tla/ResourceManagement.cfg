\* One resource, two services and two provider versions; three events from outside
\* (requests, failures, crashes, pod events) in any order.
SPECIFICATION Spec
CONSTANTS
    Services <- McServices
    Definitions <- McDefinitions
    Providers <- McProviders
    Slots <- McSlots
    Versions = {1, 2, 3}
    MaxConcurrent = 2
    FirstProvider <- McFirstProvider
    MaxQueue = 2
    MaxInstances = 2
    MaxEvents = 3
\* At rest the processes wait for the next request: not a deadlock.
CHECK_DEADLOCK FALSE
INVARIANTS ApiTypeOK Agreement SettledWhenQuiet
PROPERTIES ReconciliationEnds
