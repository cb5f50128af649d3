SPECIFICATION Safety
CONSTANTS
    Threads = {t1, t2}
    Kinds = {"approve"}
    Tasks <- MCTasks
    DepChoices <- ChainOnly
    MaxPlans = 1
    MaxRestarts = 0
    NoTask = NoTask
INVARIANT NoDuplicateWorker
CHECK_DEADLOCK FALSE
