SPECIFICATION Safety
CONSTANTS
    Threads = {t1}
    Kinds = {"approve"}
    Tasks <- MCTasks
    DepChoices <- AnyShape
    MaxPlans = 1
    MaxRestarts = 0
    NoTask = NoTask
INVARIANT CompletedMeansAllPassed
CHECK_DEADLOCK FALSE
