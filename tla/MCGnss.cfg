\* Two threads, a list of three nodes that old entries can fill.  One session.
SPECIFICATION FairSpec
CONSTANTS
    Threads = {t1, t2}
    NoThread = NoThread
    Size = 3
    MaxSessions = 1
\* The properties have ~raced as their premise.
CONSTRAINT NotRaced
\* After the last session nothing is left to do.
CHECK_DEADLOCK FALSE
INVARIANTS
    NodeOwnership
    WaitersListed
PROPERTY NativesReturn
