SPECIFICATION FairSpec
CONSTANTS
  m1 = m1  m2 = m2  m3 = m3
  Msg <- MCMsg
  Producer = Producer  Other = Other  Lost = Lost  NoOwner = NoOwner
  Cancels = FALSE
  MaxCrash = 0
CHECK_DEADLOCK FALSE
PROPERTY LockFreed
