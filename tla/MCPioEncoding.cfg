SPECIFICATION EncodingSpec
CONSTANTS
    Operands <- Boundary
    MaxCalls = 2
    MaxBefore = 1
INVARIANTS FieldsDecode InstrDecode
CHECK_DEADLOCK FALSE
