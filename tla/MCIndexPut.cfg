CONSTANTS
    Depth = 2
    Names = {x}
    PutValues = {1}
    Layouts = {"separate"}
    MaxFns = 2
    IndexNames = {x}
    Responses <- AnswerAnywhere
    ChainConfigs <- CoherenceChains
SPECIFICATION Spec
CHECK_DEADLOCK FALSE
INVARIANT IndexPutAgrees
