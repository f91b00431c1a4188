SPECIFICATION Spec
CONSTANTS
    Inputs <- MCInputs
    Messages <- MCMessages
    Types <- MCTypes
    ChunkSize = 64
    Doublings = 8
INVARIANTS
    StacksAgree
    MemoryInBounds
    ParserAgrees
    ReadsWhatWasSent
