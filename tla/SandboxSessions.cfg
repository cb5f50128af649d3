SPECIFICATION Spec
CONSTANTS
    Runs = {r1, r2}
    Objects = {o1, o2}
    Chosen = {}
    Requests = {q1, q2}
    Closers = {c1}
    None = None
INVARIANTS
    TypeOK
    MapsAgree
    ShellsAccounted
    OnlyRevivedOutlive
    AnswersAreReal
    ShutdownClean
PROPERTY
    EveryRequestAnswered
CHECK_DEADLOCK FALSE
