SPECIFICATION FairSpec
CONSTANTS
  MaxRequests = 2
  MaxEvents = 2
  DrainLimit = 2
  FaultyWorker = TRUE
INVARIANTS
  NoLostRequest
  WaitingStopsRunning
  CleanExit
  TruthfulVerdict
PROPERTIES
  Refinement
  StopCompletes
  PendingIsServed
  CloseCompletes
