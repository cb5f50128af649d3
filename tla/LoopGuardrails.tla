--------------------------- MODULE LoopGuardrails ---------------------------
(***************************************************************************)
(* The execution limits of a loop that lets a language model call tools.   *)
(* EngineeringAgentLoop makes a new LoopGuardrails object for every run    *)
(* and QALoop one for every question: RepairLoop and QALoop extend this    *)
(* module and drive its counters.                                          *)
(***************************************************************************)
EXTENDS Naturals, Sequences

CONSTANTS
    Calls,          \* signatures: a tool's name and its normalised arguments
    Commands,       \* those of a tool in COMMAND_TOOL_NAMES
    MaxTurns,       \* max_agent_turns
    MaxToolCalls,   \* max_tool_calls
    MaxCommands,    \* max_command_executions
    MaxRepeats      \* max_repeated_tool_calls

ASSUME CommandsAssumption == Commands \subseteq Calls

(* The bounds that the fields of AgentLoopConfig declare.                  *)
ASSUME ConfigAssumption ==
    /\ MaxTurns \in Nat /\ MaxTurns >= 1
    /\ MaxToolCalls \in Nat /\ MaxToolCalls >= 1
    /\ MaxCommands \in Nat
    /\ MaxRepeats \in Nat /\ MaxRepeats >= 2

VARIABLES
    turn_count,
    tool_call_count,
    command_count,
    recent_signatures,
    model_calls   \* history: requests sent to the model under these limits

guardrails == <<turn_count, tool_call_count, command_count,
                recent_signatures, model_calls>>

GuardrailsTypeOK ==
    /\ turn_count \in Nat
    /\ tool_call_count \in Nat
    /\ command_count \in Nat
    /\ recent_signatures \in Seq(Calls)
    /\ model_calls \in Nat

GuardrailsInit ==
    /\ turn_count = 0
    /\ tool_call_count = 0
    /\ command_count = 0
    /\ recent_signatures = <<>>
    /\ model_calls = 0

(* A new object takes the place of the last one.                           *)
NewGuardrails ==
    /\ turn_count' = 0
    /\ tool_call_count' = 0
    /\ command_count' = 0
    /\ recent_signatures' = <<>>
    /\ model_calls' = 0

(* check_pre_turn_limits finds no reason to stop; the clock may at any     *)
(* time give it one.                                                       *)
TurnsLeft(turns) == turns < MaxTurns

OverToolCalls == tool_call_count + 1 > MaxToolCalls

OverCommands(c) == c \in Commands /\ command_count + 1 > MaxCommands

(* The tail of the signatures, with c at its end, is MaxRepeats times c.   *)
OverRepeats(c) ==
    LET s == Append(recent_signatures, c) IN
    /\ Len(s) >= MaxRepeats
    /\ \A i \in (Len(s) - MaxRepeats + 1)..Len(s) : s[i] = c

Stops(c) == OverToolCalls \/ OverCommands(c) \/ OverRepeats(c)

(* The counters move before they are tested: a call that is refused has    *)
(* been counted.                                                           *)
record_tool_call(c) ==
    /\ tool_call_count' = tool_call_count + 1
    /\ command_count' = IF c \in Commands /\ ~OverToolCalls
                        THEN command_count + 1 ELSE command_count
    /\ recent_signatures' = IF OverToolCalls \/ OverCommands(c)
                            THEN recent_signatures
                            ELSE Append(recent_signatures, c)

----------------------------------------------------------------------------
(* However a loop ends, the model has been asked at most MaxTurns times:   *)
(* the answer QALoop forces when a limit is reached must fit in the turns, *)
(* and so must calls that fail and are tried again.                        *)
ModelCallsWithinTurns == model_calls <= MaxTurns
=============================================================================
