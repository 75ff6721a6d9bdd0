CONSTANTS
    Depth = 2
    Names = {x}
    PutValues = {1, 2}
    Layouts = {"union"}
    MaxFns = 2
    IndexNames = {}
    Responses <- DeclineOnly
    ChainConfigs <- ExtendedChains
SPECIFICATION Spec
INVARIANT InvokedWithOwnGeneration
CHECK_DEADLOCK FALSE
