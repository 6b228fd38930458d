SPECIFICATION FairSpec
CONSTANTS
  Texts = {"a", "bad"}
  InitialText = "a"
  BadTexts = {"bad"}
  MaxEdits = 2
  MaxConverts = 2
  HistoryLimit = 1
INVARIANTS
  HistoryTellsResult
  SavableIsCurrent
  AuthenticatedIsCurrent
  BusyHasAnEnd
  MarkedStale
  DeferralIsFinite
PROPERTIES
  LastKnownGood
  RevisionsImplement
  CallsAnswered
  RevisionSettles
