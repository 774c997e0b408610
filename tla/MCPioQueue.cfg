\* CPU and programs at one state machine's FIFOs.
CONSTANTS
    NumSm = 1
    Depth = 2
    Data = {0, 1}
    Lengths = {}
    Rules <- Disciplined
SPECIFICATION Spec
INVARIANTS BlockingOpsStall
PROPERTIES TxIsQueue RxIsQueue
