SPECIFICATION Spec
CONSTANTS
    Search = Search
    Edit = Edit
    Shell = Shell
    WholeFile = WholeFile
    None = None
    Calls <- MCCalls
    Commands <- MCCommands
    AgentCalls <- MCAgentCalls
    Searches <- MCSearches
    OpenReads <- MCOpenReads
    Symbols <- MCSymbols
    Place <- MCPlace
    Manners <- MCManners
    Ranges <- MCRanges
    Lines = 3
    MaxTurns = 4
    MaxToolCalls = 3
    MaxCommands = 1
    MaxRepeats = 2
    MaxOverflows = 2
    MaxRetries = 2
    MaxMalformed = 3
    Faults = {"f1"}
    Diffs = {"d1"}
    MaxAttempts = 2
    MaxSame = 2
    MaxCalls = 2
    Files = {"a"}
    Plans <- MCPlans
    MaxTasks = 3
    WorkerTurns = 3
    MaxUnparsed = 3
INVARIANTS
    TypeOK
    ModelCallsWithinTurns
    PassedIsVerified
    AttemptsBounded
    NoStagnantWork
    CancelStopsTools
    KnownCallsNotRepeated
    ReadsBringNewLines
    WorkFollowsFindings
    AnswersFromEvidence
PROPERTY
    EveryLoopEnds
CHECK_DEADLOCK FALSE
