SPECIFICATION Spec
CONSTANTS
    MaxJobs = 1
    MaxRepos = 1
    MaxRestarts = 0
    MaxFaults = 0
    Runtimes = {"raises"}
PROPERTY FailureCleansUp
CHECK_DEADLOCK FALSE
