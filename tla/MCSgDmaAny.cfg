\* Software that stores to memory, descriptors included, while the engine runs,
\* and a bus that answers some addresses with errors.
CONSTANTS
    Words = 16
    Mapped <- LowWords
    ErrWord = 3
    Memories <- SomeMemories
    DescAddrs <- MCDescAddrs
    Stores <- AnyStore
    StoreWhileBusy = TRUE
SPECIFICATION Spec
INVARIANTS CopyInWindow StatusCoherent
PROPERTIES WritesOnlyDestination
