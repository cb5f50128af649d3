SPECIFICATION Spec
CONSTANTS
    MaxJobs = 3
    MaxRepos = 2
    MaxRestarts = 1
    MaxFaults = 1
    Runtimes = {"raises", "swallows"}
INVARIANTS
    TypeOK
    UnfinishedIsHeld
    OneUnfinished
PROPERTIES
    FinishedStays
    Lifecycle
    EveryJobSettles
CHECK_DEADLOCK FALSE
