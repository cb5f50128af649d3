------------------------------ MODULE MCTaskDag ------------------------------
(* Three tasks, every dependency relation over them (cycles and one id that *)
(* is no task included), listed in step order and in reverse.              *)
EXTENDS TaskDag

MCTasks == 1..3

(* 9 is the id of a step the plan does not have.                           *)
MCDepChoices == {d \in [MCTasks -> SUBSET {1, 2, 3, 9}] :
                    \A t \in MCTasks : t \notin d[t]}

MCOrders == {<<1, 2, 3>>, <<3, 2, 1>>}
=============================================================================
