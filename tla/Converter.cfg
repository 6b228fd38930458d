CONSTANTS
    Stages = 6
    MaxDiagnostics = 2
    Listing <- ThreeModules
    Submodules <- Dotted
    MaxImportEdges = 4
    AllowRecords = TRUE
    Inputs <- SomeInputs
    Policy <- Ceilings
SPECIFICATION Spec
INVARIANTS
    ResultIsHonest
    CancelIsHeeded
    ConvertedIsAdmitted
    CallsMeanTheSame
    OrderIsSound
PROPERTIES
    StreamIsTold
