SPECIFICATION Spec
CONSTANTS
    Threads = {t1}
    Kinds = {"plan", "revise", "context", "approve", "execute", "next", "cancel", "reject", "transition", "resolve"}
    Tasks <- MCTasks
    DepChoices <- AnyShape
    MaxPlans = 2
    MaxRestarts = 1
    NoTask = NoTask
INVARIANTS
    OneLiveApproval
    NoReexecution
PROPERTIES
    TerminalLock
    RejectionIsFinal
    ExecutionSettles
CHECK_DEADLOCK FALSE
