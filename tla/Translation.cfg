SPECIFICATION Spec
CONSTANTS
    Programs <- MCPrograms
    Signatures <- MCSignatures
    Records <- MCRecords
    MaxElements = 2
    MaxFields = 2
    Values <- MCValues
    Answers <- MCAnswers
    MaxTurns = 3
INVARIANTS
    SameBehaviour
    CallsBindLikePython
    ValidatorIsLastResort
CHECK_DEADLOCK FALSE
