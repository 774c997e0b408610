\* Software that leaves memory alone during a transfer: the engine implements the chain.
CONSTANTS
    Words = 16
    Mapped <- MCWord
    ErrWord = 3
    Memories <- AllMemories
    DescAddrs <- MCDescAddrs
    Stores <- DataStore
    StoreWhileBusy = FALSE
SPECIFICATION HSpec
INVARIANTS TypeOK LatchedIsCurrent
PROPERTIES ImplementsChain
