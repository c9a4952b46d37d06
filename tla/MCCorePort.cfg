\* Two native tasks beside the virtual machine and the interrupts: both use
\* the Shielded Plug, and one resumes Java threads.  uint32_t has 8 values and
\* the clock stops at 1: a thread can sleep until 1, which comes, and until 9,
\* which does not, and whose request wraps to tick 1.
SPECIFICATION CoreSpec
CONSTANTS
    VM = VM
    Natives = {n1, n2}
    Resumers = {n1}
    Uint32 = 8
    UsecPerTick = 1000
    RealTimes = {20}
    Deadlines = {1, 9}
    NoDeadline = NoDeadline
    MaxClock = 1
    MaxIntrusions = 1
VIEW View
INVARIANTS
    AsleepOnlyIfArmed
    ExclusiveAccess
    WakeupHeard
PROPERTY SleeperRuns
