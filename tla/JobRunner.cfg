SPECIFICATION Spec
CONSTANTS
  j1 = j1
  j2 = j2
  Jobs <- BothJobs
  Asked <- OneJob
  Overwriting <- BothJobs
  Legacy = Legacy
  None = None
  Steps = 1
  MaxFaults = 1
INVARIANTS CompletedIsEarned NoLiveEnd RootIsMine
CHECK_DEADLOCK FALSE
