CONSTANTS
    Documents = {1}
    Texts = {0, 1}
    Workers = 2
    Capacity = 2
    MaxEdits = 2
    MaxSaves = 3
    MaxCloses = 2
SPECIFICATION Spec
INVARIANTS ClosingKeepsSource
CHECK_DEADLOCK FALSE
