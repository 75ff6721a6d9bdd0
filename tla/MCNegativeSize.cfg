\* GetFileSize reports -1 with success.  size_t is scaled down to 8 bits:
\* the conversion of a negative int64 lands near 2^Word whatever Word is.
\* The abort is a stop of the program, so deadlock is not reported.
CONSTANTS
    Paths = {a}
    Sizes = {0, 1, 2}
    MaxHandles = 1
    BadSizes <- NegativeReports
    Word = 8
    MaxBuffer = 15
SPECIFICATION Spec
INVARIANT BufferAsReported
CHECK_DEADLOCK FALSE
