CONSTANTS
    Depth = 2
    Names = {x}
    PutValues = {1, 2}
    Layouts = {"separate"}
    MaxFns = 2
    IndexNames = {x}
    Responses <- DeclineOnly
    ChainConfigs <- CoherenceChains
SPECIFICATION OwnSpec
INVARIANT TypeOK
PROPERTY ReadYourWrites
PROPERTY CellsRefined
CHECK_DEADLOCK FALSE
