SPECIFICATION Spec
CONSTANTS
    MaxJobs = 1
    MaxRepos = 1
    MaxRestarts = 1
    MaxFaults = 0
    Runtimes = {"raises"}
PROPERTY RestartRecovers
CHECK_DEADLOCK FALSE
