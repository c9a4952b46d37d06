\* Two sessions.
SPECIFICATION Spec
CONSTANTS
    Threads = {t1, t2}
    NoThread = NoThread
    Size = 2
    MaxSessions = 2
\* After the last session nothing is left to do.
CHECK_DEADLOCK FALSE
PROPERTY InitializesItsNodes
