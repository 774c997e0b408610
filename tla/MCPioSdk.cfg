SPECIFICATION Spec
CONSTANTS
    N = 3
    NSm = 2
    PinSms = {0}
    NPins = 2
    Chunk = 1
    Programs <- Programs2
    Rules <- AllRules
INVARIANTS NothingShared RunsOwnProgram PinsAsAsked
