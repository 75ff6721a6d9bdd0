CONSTANTS
    Depth = 2
    Names = {x}
    PutValues = {1}
    Layouts = {"separate"}
    MaxFns = 1
    IndexNames = {}
    Responses <- AnswerAnywhere
    ChainConfigs <- ProtocolChains
SPECIFICATION Spec
CHECK_DEADLOCK FALSE
INVARIANT ValueFromResponder
