SPECIFICATION FairSpec
CONSTANTS
  Threads = {t1, t2, t3}
  Capacity = 2
  t1 = t1
  t2 = t2
  t3 = t3
INVARIANT Exclusive
INVARIANT NoSlotLost
PROPERTY Implements
PROPERTY LockFree
