\* The DMA engine between CPU and program at the FIFOs of one state machine.
CONSTANTS
    NumSm = 1
    Depth = 1
    Data = {0, 1}
    Lengths = {0, 3}
    Rules <- Disciplined
SPECIFICATION FairSpec
INVARIANTS DmaConserves
PROPERTIES DoneNotLost DmaTerminates
