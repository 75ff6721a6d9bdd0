\* Calls reach convertToType in defaultValue, which keeps the lock.  A
\* thread stuck for good is a stop of the program, so deadlock is not
\* reported as such; the liveness property says what goes wrong.
CONSTANTS
    Threads = {t1, t2}
    NoThread = NoThread
    Sites = {"getProperty", "convertToType"}
    MaxDepth = 5
SPECIFICATION Spec
PROPERTY CallsReturn
CHECK_DEADLOCK FALSE
