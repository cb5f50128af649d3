---------------------------- MODULE MCAgentLoops ----------------------------
(* A small instance of AgentLoops for TLC.                                 *)
EXTENDS AgentLoops

CONSTANTS Search, Edit, Shell, WholeFile

MCSearches == {Search}

MCCommands == {Shell}

MCAgentCalls == {Edit, Shell}

MCOpenReads == {WholeFile}

(* A symbol that is found, and none.                                       *)
MCSymbols == {"found", "none"}

MCPlace == [s \in MCSymbols |-> IF s = "found" THEN <<1, 2>> ELSE <<>>]

Manner(context, symbol, name) ==
    [context |-> context, symbol |-> symbol, name |-> name]

Bare == Manner(0, "none", "recorded")

Wide == Manner(1, "none", "recorded")

AtSymbol == Manner(0, "found", "recorded")

Renamed == Manner(0, "none", "other")

MCManners == {Bare, Wide, AtSymbol, Renamed}

MCRanges ==
    {<<0, 2, Bare>>, <<1, 3, Bare>>, <<2, 2, Bare>>, <<2, 4, Bare>>,
     <<3, 1, Bare>>, <<2, 3, Wide>>, <<3, 3, AtSymbol>>, <<1, 2, Renamed>>}

MCCalls == {Search, Edit, Shell} \cup MCOpenReads \cup Reads

(* Every dependency relation over one, two or three subtasks, cycles       *)
(* included, and a plan of four, one more than the budget.                 *)
MCPlans ==
    {p \in UNION {[1..n -> SUBSET (1..n)] : n \in 1..3} :
        \A t \in DOMAIN p : t \notin p[t]}
    \cup {<<{}, {}, {}, {1}>>}
=============================================================================
