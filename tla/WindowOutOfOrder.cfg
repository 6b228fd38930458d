CONSTANTS
    Documents = {1, 2, 3}
    Texts = {0, 1}
    Blank = 0
    MaxEdits = 2
    MaxActions = 2
    MaxSaves = 1
SPECIFICATION Spec
INVARIANT WindowIsCurrent
CHECK_DEADLOCK FALSE
