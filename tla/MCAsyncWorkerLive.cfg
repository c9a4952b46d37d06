\* One job and two waiting slots for three threads, so that threads queue for
\* the job; no symmetry, which would be unsound for liveness.
SPECIFICATION FairSpec
CONSTANTS
    Threads = {t1, t2, t3}
    JobCount = 1
    WaitingListSize = 2
    Worker = Worker
    NoThread = NoThread
    NoJob = NoJob
CONSTRAINT BeforeStaleJob
PROPERTIES
    CallsComplete
    WaitersResumed
