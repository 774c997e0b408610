\* Software that writes every register at any time.
CONSTANTS
    Words = 4
    Proc <- Relu
    Memories <- MCMemories
    Sources <- MCSources
    Destinations <- MCDestinations
    Lengths <- MCLengths
    StreamWords <- MCStreamWords
SPECIFICATION FairSpec
INVARIANTS TypeOK StatusCoherent WordsConserved MemoryHoldsOutputs InputsFromSource OutputsPlaced
PROPERTIES Terminates
