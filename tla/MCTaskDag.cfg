SPECIFICATION Spec
CONSTANTS
    Tasks <- MCTasks
    DepChoices <- MCDepChoices
    Orders <- MCOrders
    RepairVerdicts = {"PASSED", "BLOCKED", "FAILED"}
    MaxRepairs = 1
    NoTask = NoTask
INVARIANTS
    TypeOK
    DependencyOrder
    NoneMeansComplete
PROPERTIES
    AtomicEvaluation
    EvaluationReturns
    ExecutorEnds
CHECK_DEADLOCK FALSE
