SPECIFICATION FairSpec
CONSTANTS
  m1 = m1  m2 = m2
  Msg <- Two
  Client = Client  Canceller = Canceller
  NoProc = NoProc
  Faults = {}
  MaxCrash = 1
CHECK_DEADLOCK FALSE

PROPERTIES OutcomeSettles Delivered
