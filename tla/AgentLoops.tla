----------------------------- MODULE AgentLoops -----------------------------
(***************************************************************************)
(* What asks a model for its next step.  A LoopGuardrails object belongs   *)
(* to one agent run of a repair or to one question; LLMAnalysisService.run *)
(* gives a question either to QALoop or, in the mode "multi_agent", to an  *)
(* investigation, which keeps limits of its own.  A behaviour is one of    *)
(* the three, and the other loops never start.                             *)
(***************************************************************************)
EXTENDS RepairLoop, QALoop, Investigation

VARIABLE driver   \* which loop runs

vars == <<rvars, qaVars, invVars, driver>>

Drivers == {"repair", "question", "investigation"}

TypeOK == RepairTypeOK /\ QATypeOK /\ InvTypeOK /\ driver \in Drivers

Init ==
    /\ RepairInit /\ QAInit /\ InvInit
    /\ driver \in Drivers
    /\ driver # "repair" => ~checker /\ strategy = <<"static">>

RepairActs ==
    /\ driver = "repair" /\ RepairNext
    /\ UNCHANGED <<qaVars, invVars, driver>>

QAActs ==
    /\ driver = "question" /\ QANext
    /\ UNCHANGED <<repairVars, invVars, driver>>

InvestigationActs ==
    /\ driver = "investigation" /\ InvestigationNext
    /\ UNCHANGED <<rvars, qaVars, driver>>

Next == RepairActs \/ QAActs \/ InvestigationActs

(* The steps of RepairFairness, QAFairness and InvestigationSpec.          *)
Fairness ==
    /\ WF_vars(RepairActs /\ RepairStep)
    /\ WF_vars(QAActs)
    /\ WF_vars(InvestigationActs)

Spec == Init /\ [][Next]_vars /\ Fairness

----------------------------------------------------------------------------
(* Whatever the model answers, and however often, a question and an        *)
(* investigation, whatever its plan and whatever it discovers, get an      *)
(* answer or raise an exception, and a call of repair_task returns.        *)
EveryLoopEnds ==
    /\ (driver = "question") ~> (step = "done" /\ answer # "none")
    /\ (driver = "investigation") ~> (raw_answer # "none")
    /\ (phase # "idle") ~> (phase = "idle")
=============================================================================
