SPECIFICATION Spec
CONSTANTS
    Space = 16
    Width = 2
    Candidates <- Tries
    Files <- AllFiles
    Names = {"ram", "flash"}
    MaxTries = 3
    MaxLoads = 2
INVARIANTS RegistryCoherent StagedFits MemoryHoldsImage
CHECK_DEADLOCK FALSE
