SPECIFICATION Spec
CONSTANTS
  Connections = {x1, x2, x3}
  Requests = {r1, r2}
  MaxNotifies = 1
  MaxDrops = 1
INVARIANTS
  TypeOK
  NextIsLeastFree
  IdentifiersAreUnique
  SubscribersSeeEverything
  ConfirmedAtMostOnce
  AnsweredAtMostOnce
SYMMETRY MCSymmetry
CHECK_DEADLOCK FALSE
