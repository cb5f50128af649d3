--------------------------- MODULE GatedExecution ---------------------------
(***************************************************************************)
(* What an agent run promises about its effects: a human grants a plan,    *)
(* and only then are the plan's tasks carried out, each after the tasks it *)
(* needs.  Nothing is said about states, requests or threads.              *)
(***************************************************************************)
CONSTANTS PlanIds, Tasks

VARIABLES
    needs,   \* for every plan, the ids each of its tasks depends on
    granted, \* plans a human approved
    done     \* <<plan, task>> carried out with success

vars == <<needs, granted, done>>

Init == granted = {} /\ done = {}

Grant(p) ==
    /\ granted' = granted \cup {p}
    /\ UNCHANGED <<needs, done>>

Perform(p, k) ==
    /\ p \in granted
    /\ k \in DOMAIN needs[p]
    /\ \A d \in needs[p][k] : <<p, d>> \in done
    /\ done' = done \cup {<<p, k>>}
    /\ UNCHANGED <<needs, granted>>

Next == \E p \in PlanIds : Grant(p) \/ \E k \in Tasks : Perform(p, k)

Spec == Init /\ [][Next]_vars
=============================================================================
