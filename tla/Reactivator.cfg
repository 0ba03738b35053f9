\* Two changes of three objects, one failure and one restart.
SPECIFICATION Spec
CONSTANTS
  pod = pod
  set1 = set1
  set2 = set2
  Pods = Pods
  Sets = Sets
  Objects = {pod, set1, set2}
  Kinds = {Pods, Sets}
  KindOf <- MCKindOf
  Owned = {pod}
  Faults <- AllFaults
  MaxLog = 2
  MaxFaults = 1
  MaxRestarts = 1
INVARIANTS TypeOK Accounted LossIsBounded
PROPERTIES Settles
\* With every change published the reactivator waits for the next: not a deadlock.
CHECK_DEADLOCK FALSE
