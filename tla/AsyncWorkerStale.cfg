\* Two threads and one job suffice for the worker to execute a job twice.
SPECIFICATION Spec
CONSTANTS
    Threads = {t1, t2}
    JobCount = 1
    WaitingListSize = 1
    Worker = Worker
    NoThread = NoThread
    NoJob = NoJob
INVARIANT DoneMeansFinished
