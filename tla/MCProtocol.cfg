\* Walk protocol on the protocol chains and on the dispatch chains (call,
\* construct, hasInstance, defaultValue and the lifecycle).
CONSTANTS
    Depth = 2
    Names = {x}
    PutValues = {1}
    Layouts = {"separate"}
    MaxFns = 1
    IndexNames = {x}
    Responses <- AnswerAtTop
    ChainConfigs <- WalkOrDispatchChains
SPECIFICATION WalkOrDispatchSpec
INVARIANT NoCallBelowFirstResponder
CHECK_DEADLOCK FALSE
