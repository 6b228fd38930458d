SPECIFICATION HistorySpec
CONSTANTS
  MaxRequests = 1
  MaxEvents = 1
  DrainLimit = 1
  FaultyWorker = FALSE
INVARIANTS
  CancelledNeverYieldsResult
