----------------------------- MODULE MCAgentRun -----------------------------
EXTENDS AgentRun, FiniteSets, TLC

MCTasks == 1..2

(* Task 2 depends on task 1; and a plan whose steps the language model     *)
(* numbered with a gap, so that task 2 depends on a step that is not there. *)
Chain == (1 :> {} @@ 2 :> {1})
Gap == (1 :> {} @@ 2 :> {9})

(* No tasks at all: the plan of a capability that already exists.          *)
Nothing == [t \in {} |-> {}]

ChainOnly == {Chain}
AnyShape == {Chain, Gap, Nothing}

ThreadSymmetry == Permutations(Threads)

(* When a row was approved is only ever compared between rows that are     *)
(* APPROVED: states that agree but for the times, and in whose order the   *)
(* APPROVED rows agree, have the same behaviours.                          *)
Earlier(i) ==
    {j \in DOMAIN reqs :
        reqs[j].status = "APPROVED" /\ reqs[j].at < reqs[i].at}

Ranked ==
    [i \in DOMAIN reqs |->
        [reqs[i] EXCEPT !.at =
            IF reqs[i].status = "APPROVED" THEN Cardinality(Earlier(i))
            ELSE 0]]

OrderOfApprovals ==
    <<state, plan, Ranked, deps, valid, planned, restarts, th, approved,
      succeeded>>
=============================================================================
