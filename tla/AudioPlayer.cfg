\* Two Java threads: one plays, the other pauses, plays or closes.  A FIFO of
\* two elements of two bytes, which a file of five does not fit in: one element
\* is pushed first, the others are refilled, and the last is not full.
SPECIFICATION FairSpec
CONSTANTS
    Threads = {t1, t2}
    NoThread = NoThread
    ElementSize = 2
    ElementNum = 2
    PushNumMax = 1
    Sizes = {5}
CONSTRAINT SemBound
\* When every Java thread waits for an answer that was lost, nothing moves.
CHECK_DEADLOCK FALSE
INVARIANTS
    PlayingFromOpenFile
    FileClosedAfterSong
    ResidueBounded
    NothingDropped
PROPERTIES
    PlayReturns
    NativesReturn
