CONSTANTS
    Depth = 2
    Names = {x}
    PutValues = {1, 2}
    Layouts = {"separate"}
    MaxFns = 2
    IndexNames = {}
    Responses <- DeclineOnly
    ChainConfigs <- CoherenceChains
SPECIFICATION Spec
PROPERTY DeleteForgets
CHECK_DEADLOCK FALSE
