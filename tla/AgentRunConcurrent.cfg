SPECIFICATION Safety
CONSTANTS
    Threads = {t1, t2}
    Kinds = {"plan", "approve", "execute", "next", "cancel", "reject", "resolve"}
    Tasks <- MCTasks
    DepChoices <- ChainOnly
    MaxPlans = 2
    MaxRestarts = 0
    NoTask = NoTask
SYMMETRY ThreadSymmetry
VIEW OrderOfApprovals
INVARIANTS
    TypeOK
    ExecutesOnlyApproved
    ExecutesInOrder
    PassedMeansExecuted
PROPERTIES
    GateSafety
CHECK_DEADLOCK FALSE
