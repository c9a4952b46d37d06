\* One session; the tasks do meet in the list.
SPECIFICATION Spec
CONSTANTS
    Threads = {t1, t2}
    NoThread = NoThread
    Size = 2
    MaxSessions = 1
\* After the last session nothing is left to do.
CHECK_DEADLOCK FALSE
PROPERTY AddedIsListed
