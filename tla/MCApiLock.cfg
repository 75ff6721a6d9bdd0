\* Two host threads whose calls reach callbacks that drop the lock; at the
\* hasProperty site the answer is tested before the lock is re-taken.
CONSTANTS
    Threads = {t1, t2}
    NoThread = NoThread
    Sites = {"hasProperty", "getProperty", "setProperty"}
    MaxDepth = 5
SPECIFICATION Spec
 
PROPERTY CallsReturn
