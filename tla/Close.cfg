CONSTANTS
    Documents = {1, 2}
    Texts = {0, 1}
    Workers = 2
    Capacity = 2
    MaxEdits = 2
    MaxSaves = 2
    MaxCloses = 2
SPECIFICATION FairSpec
INVARIANTS ClosingAsksFirst PendingHasAnEnd
PROPERTIES SaveAllAnswers
CHECK_DEADLOCK FALSE
