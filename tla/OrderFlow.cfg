\* Startup and two more jobs, with a stream that stops, an account of up to one share.
SPECIFICATION ResponsiveSpec
CONSTANTS
  j1 = j1
  j2 = j2
  j3 = j3
  NoJob = NoJob
  NoSnapshot = NoSnapshot
  Jobs <- ThreeJobs
  MaxShares = 1
  MaxFills = 1
CHECK_DEADLOCK FALSE
INVARIANTS TypeOK AcceptedOnce ListedIsAccepted NothingInFlight
PROPERTIES ShownMovesForward SubmittingEnds
