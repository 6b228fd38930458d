CONSTANTS
    Subjects = {"none", "x", "y"}
    NoQuery = "none"
    Unencodable = {"y"}
    MaxGeneration = 6
SPECIFICATION FairSpec
INVARIANTS MatchesAreCurrent
PROPERTIES SearchEnds WorkerReturns
CHECK_DEADLOCK FALSE
