SPECIFICATION Spec
CONSTANTS
  m1 = m1  m2 = m2
  Msg <- Two
  Client = Client  Canceller = Canceller
  NoProc = NoProc
  Faults = {"cancel", "raise", "io"}
  MaxCrash = 1
CHECK_DEADLOCK FALSE
SYMMETRY Symmetry
INVARIANTS TypeOK IndexComplete FailureKept
PROPERTIES SettledBeforeTerminal TerminalStays
