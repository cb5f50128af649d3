SPECIFICATION Safety
CONSTANTS
    Threads = {t1, t2}
    Kinds = {"cancel"}
    Tasks <- MCTasks
    DepChoices <- ChainOnly
    MaxPlans = 1
    MaxRestarts = 0
    NoTask = NoTask
PROPERTY TerminalLock
CHECK_DEADLOCK FALSE
