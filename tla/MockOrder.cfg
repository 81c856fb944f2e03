CONSTANTS
  lpf2 = lpf2
  other = other
  t1 = t1
  t2 = t2
  Chars <- MCChars
  Tasks <- MCTwoTasks
  Capacity = 1
  MaxPush = 2
  MaxSubs = 2
  MaxConnects = 2
  MaxWrites = 1
  Cancels = TRUE
SPECIFICATION Spec
SYMMETRY MCSymmetry
CHECK_DEADLOCK FALSE
INVARIANTS
  TypeOK
  InOrder
  NoDuplicates
  NothingLost
  SendersNeedConnection
  NothingAfterDisconnect
