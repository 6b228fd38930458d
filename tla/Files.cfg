CONSTANTS
    Texts = {"x"}
    Names = {"main", "m"}
    MainName = "main"
    Paths <- OnePath
    CFiles <- OneCFile
    DefaultC <- Only
    GeneratedC = "x"
    MaxDocuments = 2
    MaxSequence = 5
    MaxGeneration = 4
    Workers = {w1, w2}
    Capacity = 2
    MaxJobs = 3
    MaxEdits = 1
    MaxAdds = 1
SPECIFICATION FilesSpec
INVARIANTS SentinelForEach CleanWasWritten GoneMeansAnswered
VIEW WhatMatters
CHECK_DEADLOCK FALSE
