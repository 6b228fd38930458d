CONSTANTS
    Texts = {"x"}
    Names = {"main", "m"}
    MainName = "main"
    Paths <- OnePath
    CFiles <- OneCFile
    DefaultC <- Only
    GeneratedC = "x"
    MaxDocuments = 2
    MaxSequence = 3
    MaxGeneration = 3
    Workers = {w1, w2}
    Capacity = 2
    MaxJobs = 2
    MaxEdits = 1
    MaxAdds = 0
SPECIFICATION FairFilesSpec
PROPERTIES StaleCNeverWritten
CHECK_DEADLOCK FALSE
