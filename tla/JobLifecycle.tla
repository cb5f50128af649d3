---------------------------- MODULE JobLifecycle ----------------------------
(***************************************************************************)
(* What the status of an import job promises to whoever reads it: a job    *)
(* runs through its stages in order, may fail or be cancelled in any of    *)
(* them, and does not come back from the end or from its deletion; and no  *)
(* repository gets a new job while an old one is unfinished.               *)
(***************************************************************************)
CONSTANTS Jobs, Repos

VARIABLES
    row,   \* the status of each job; "none": no row
    of,    \* the repository of each job
    used,  \* the jobs there are or have been
    late   \* whether the runtime loses a cancellation that comes late

vars == <<row, of, used, late>>

Unfinished == {"Queued", "Downloading", "Analyzing", "Saving"}

Stages == {<<"Queued", "Downloading">>, <<"Downloading", "Analyzing">>,
           <<"Analyzing", "Saving">>, <<"Saving", "Completed">>}

Init ==
    /\ row = [j \in Jobs |-> "none"]
    /\ used = {}
    /\ late \in BOOLEAN

Open(r) == {j \in Jobs : of[j] = r /\ row[j] \in Unfinished}

Add(j, r) ==
    /\ j \notin used /\ Open(r) = {}
    /\ used' = used \cup {j}
    /\ of' = [of EXCEPT ![j] = r]
    /\ row' = [row EXCEPT ![j] = "Queued"]
    /\ UNCHANGED late

(* A job whose cancellation was lost goes on, or fails.                    *)
Move(j, s) ==
    /\ \/ <<row[j], s>> \in Stages
       \/ row[j] \in Unfinished /\ s \in {"Failed", "Cancelled"}
       \/ /\ late /\ row[j] = "Cancelled"
          /\ s \in {"Analyzing", "Saving", "Failed"}
    /\ row' = [row EXCEPT ![j] = s]
    /\ UNCHANGED <<of, used, late>>

Remove(js) ==
    /\ row' = [j \in Jobs |-> IF j \in js THEN "none" ELSE row[j]]
    /\ UNCHANGED <<of, used, late>>

Next ==
    \/ \E j \in Jobs, r \in Repos : Add(j, r)
    \/ \E j \in Jobs,
          s \in {"Downloading", "Analyzing", "Saving", "Completed",
                 "Failed", "Cancelled"} : Move(j, s)
    \/ \E js \in SUBSET Jobs : Remove(js)

Spec == Init /\ [][Next]_vars
=============================================================================
