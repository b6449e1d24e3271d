SPECIFICATION BackendSpec
CONSTANTS
    SizeMax = 31
    InitialBuffers <- MCInitialBuffers
    Needs <- MCNeeds
    Outputs = {"one", "other"}
INVARIANTS OneCodecDecides
PROPERTIES CallEnds
CHECK_DEADLOCK FALSE
