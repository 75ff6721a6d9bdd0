\* GetFileSize may also over-report (the file shrank before the read).
CONSTANTS
    Paths = {a, b}
    Sizes = {0, 1, 2}
    MaxHandles = 2
    BadSizes = {3}
    Word = 8
    MaxBuffer = 15
SPECIFICATION Spec
INVARIANT TypeOK
INVARIANT ReaderLeavesNoHandleOpen
INVARIANT WholeFileOrNothing
