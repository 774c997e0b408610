\* The first RX transfer after reset.
CONSTANTS
    NumSm = 1
    Depth = 1
    Data = {0}
    Lengths = {2}
    Rules <- Retargets
SPECIFICATION Spec
INVARIANTS DmaConserves
