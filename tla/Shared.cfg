CONSTANTS
  lpf2 = lpf2
  h1 = h1
  h2 = h2
  t1 = t1
  Nobody = Nobody
  Orphan = Orphan
  Forfeit = Forfeit
  Chars <- MCChars
  Tasks <- MCTasks
  Handles <- MCHandles
  Lpf2 = lpf2
  Capacity = 1
  MaxPush = 2
  MaxSubs = 2
  MaxConnects = 2
  MaxWrites = 2
  Cancels = TRUE
SPECIFICATION SharedSpec
CHECK_DEADLOCK FALSE
INVARIANTS
  HubTypeOK
  OneHolder
  NoFrameTwice
PROPERTIES
  ImplementsLinkOwner
  FlushReturns
  EveryoneHearsTheEnd
