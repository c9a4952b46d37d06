\* Four threads, two jobs, one waiting slot: two jobs can be queued, executed
\* and awaited at once, and the fourth thread finds the waiting list full.
SPECIFICATION Spec
CONSTANTS
    Threads = {t1, t2, t3, t4}
    JobCount = 2
    WaitingListSize = 1
    Worker = Worker
    NoThread = NoThread
    NoJob = NoJob
SYMMETRY ThreadSymmetry
CONSTRAINT BeforeStaleJob
INVARIANTS
    TypeOK
    JobOwnership
    CompletionOwed
    ResultReady
    NewJobToExecute
    NoJobIdleWhileWaiting
    NoStrayResume
PROPERTIES
    RefusedOnlyWhenFull
    ImplementsAsyncCall
