CONSTANTS
    Texts = {"x", "y"}
    Names = {"main", "m"}
    MainName = "main"
    Paths <- TwoPaths
    CFiles <- TwoCFiles
    DefaultC <- WithSuffixC
    GeneratedC = "y"
    MaxDocuments = 2
    MaxSequence = 2
    MaxGeneration = 2
SPECIFICATION Spec
VIEW WithoutCFiles
INVARIANTS LinkFollowsPrimary MirrorsAgree
PROPERTIES ChangeRetiresC CleanStaysOnDisk
CHECK_DEADLOCK FALSE
