SPECIFICATION FairSpec
CONSTANTS
  j1 = j1
  j2 = j2
  Jobs <- OneJob
  Asked <- OneJob
  Overwriting <- OneJob
  Legacy = Legacy
  None = None
  Steps = 2
  MaxFaults = 2
PROPERTIES TerminalIsFinal CancelHonoured Settled
CHECK_DEADLOCK FALSE
