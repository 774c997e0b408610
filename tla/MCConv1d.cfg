\* Software that keeps to the rules and writes every register at any time.
CONSTANTS
    Words = 8
    MaxKernel = 2
    Samples = {0, 1}
    Sources = {6}
    Destinations = {0}
    Lengths = {3}
    Kernels = {1, 2}
    Rules <- Obeyed
SPECIFICATION FairSpec
INVARIANTS TypeOK StatusCoherent ResultsCounted ConvCorrect BuffersRespected
PROPERTIES Terminates
