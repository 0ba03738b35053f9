\* Two changes, three requests, one failed call and one crash.
SPECIFICATION Spec
CONSTANTS
  q1 = q1
  q2 = q2
  c1 = c1
  c2 = c2
  la = la
  lb = lb
  Queries = {q1, q2}
  Nodes = {c1, c2}
  NodeOf <- MCNodeOf
  Labels = {la, lb}
  LabelsOf <- MCLabelsOf
  ChangeLabels <- MCChangeLabels
  Faults <- AllFaults
  MaxChanges = 2
  MaxControls = 3
  MaxFaults = 1
  MaxCrashes = 1
INVARIANTS TypeOK NoGap SubscriptionSurvives ArrivesInOrder
PROPERTIES MessagesAreHandled
\* With every message handled the processes wait for the next: not a deadlock.
CHECK_DEADLOCK FALSE
