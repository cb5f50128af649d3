------------------------------- MODULE QALoop -------------------------------
(***************************************************************************)
(* QALoop.run for one question: the model asks for one read-only tool at a *)
(* time or answers; the loop spares it calls whose result it has, narrows  *)
(* reads to lines it has not seen, asks for a correction of an answer that *)
(* the observations contradict, and forces an answer when a limit stops    *)
(* it.  One coroutine does this, on objects of its own: the steps below    *)
(* are its turns, cut where the model or a tool is asked.                  *)
(***************************************************************************)
EXTENDS LoopGuardrails

CONSTANTS
    Searches,       \* calls of the other tools
    OpenReads,      \* the read_file calls that do not name both lines
    Ranges,         \* the read_file calls with both that the model makes
    Lines,          \* total_lines of the file
    Symbols,        \* what read_file is given as symbol, none included
    Place,          \* the lines it finds each at, <<>> if at none
    Manners,        \* how else two calls for the same lines may differ
    MaxOverflows,   \* retries after a limit of the provider (2)
    MaxRetries,     \* max_verification_retries
    MaxMalformed    \* malformed answers in a row that end the loop (5)

(* read_file with start_line and end_line: two numbers, Lines + 1 for any  *)
(* that is beyond the file, and a manner, which is context_lines, symbol,  *)
(* and whether the file is called by a name that the record of the lines   *)
(* does not know it by.                                                    *)
Reads == (0..(Lines + 1)) \X (0..(Lines + 1)) \X Manners

ASSUME CallsAssumption ==
    /\ Searches \subseteq Calls /\ OpenReads \subseteq Calls
    /\ Reads \subseteq Calls /\ Ranges \subseteq Reads
    /\ OpenReads \cap (Searches \cup Reads) = {}
    /\ Searches \cap Reads = {}

ASSUME MannersAssumption ==
    /\ Manners \subseteq
          [context : Nat, symbol : Symbols, name : {"recorded", "other"}]
    /\ \A s \in Symbols :
          \/ Place[s] = <<>>
          \/ /\ Place[s] \in (1..Lines) \X (1..Lines)
             /\ Place[s][1] <= Place[s][2]

ASSUME QAConfigAssumption ==
    /\ Lines \in Nat /\ Lines >= 1
    /\ MaxOverflows \in Nat /\ MaxRetries \in Nat
    /\ MaxMalformed \in Nat /\ MaxMalformed >= 1

VARIABLES
    step,              \* where run is
    asked,             \* the call that is being dispatched
    turns,             \* result.turns, those that dispatched a tool
    executed_tools,    \* calls whose last result was a success with data
    file_read_ranges,  \* the lines of the intervals kept for the file
    overflows,         \* _context_overflow_retries
    retries,           \* verification_retries
    malformed,         \* consecutive_malformed_count
    stop_reason,
    answer             \* what result.answer holds

counters == <<overflows, retries, malformed>>

evidenceVars == <<turns, executed_tools, file_read_ranges>>

qaVars == <<step, asked, evidenceVars, counters, stop_reason, answer>>

qvars == <<guardrails, qaVars>>

(* What a tool answered: data or not, and the lines of the file in it.     *)
Dispatched == [call : Calls, data : BOOLEAN, lines : SUBSET (1..Lines)]

Reasons == {"COMPLETED", "MODEL_ERROR", "TURN_LIMIT", "TOOL_LIMIT"}

QATypeOK ==
    /\ GuardrailsTypeOK
    /\ step \in {"top", "model", "tool", "final", "done"}
    /\ asked \in Calls
    /\ turns \in Seq(Dispatched)
    /\ executed_tools \subseteq Calls
    /\ file_read_ranges \subseteq 1..Lines
    /\ overflows \in 0..MaxOverflows
    /\ retries \in 0..MaxRetries
    /\ malformed \in 0..MaxMalformed
    /\ stop_reason \in Reasons \cup {"none"}
    /\ answer \in {"none", "checked", "caveated", "error", "raised"}

QAInit ==
    /\ GuardrailsInit
    /\ step = "top" /\ asked \in OpenReads
    /\ turns = <<>> /\ executed_tools = {} /\ file_read_ranges = {}
    /\ overflows = 0 /\ retries = 0 /\ malformed = 0
    /\ stop_reason = "none" /\ answer = "none"

----------------------------------------------------------------------------
(* The lines that have been read.  record_read_range keeps the maximal     *)
(* intervals of this set: it merges those that overlap or touch.           *)

Proper(r) == 1 <= r[1] /\ r[1] <= r[2]

(* The last line of the interval that line l is in.                        *)
EndOf(l) ==
    CHOOSE e \in l..Lines :
        /\ l..e \subseteq file_read_ranges
        /\ e + 1 \notin file_read_ranges

(* get_unread_slice_for_request when an interval holds the first line: the *)
(* rest of the request, or none.                                           *)
SliceAfter(r) ==
    IF r[2] > EndOf(r[1]) THEN {<<EndOf(r[1]) + 1, r[2], r[3]>>} ELSE {}

(* When none does: up to the first line after it that has been read.       *)
SliceBefore(r) ==
    LET later == {l \in file_read_ranges : r[1] < l} IN
    IF later = {} THEN {r}
    ELSE LET s == CHOOSE l \in later : \A k \in later : l <= k IN
         {<<r[1], IF r[2] < s THEN r[2] ELSE s - 1, r[3]>>}

(* Mutant of UnreadSlice: the request is kept unless all of it was read.   *)
WholeRequest(r) ==
    IF r[1]..r[2] \subseteq file_read_ranges /\ r[3].name # "other"
    THEN {} ELSE {r}

(* The manner is not looked at; another name of the file has no record.    *)
UnreadSlice(r) ==
    IF r[3].name = "other" THEN {r}
    ELSE IF r[1] \in file_read_ranges THEN SliceAfter(r) ELSE SliceBefore(r)

(* The smart adjustment: what is asked of read_file when the model asks c. *)
Adjusted(c) ==
    IF c \in Reads /\ UnreadSlice(c) # {}
    THEN CHOOSE r \in UnreadSlice(c) : TRUE ELSE c

(* is_duplicate_call, of the adjusted call.                                *)
Duplicate(c) ==
    \/ c \in Reads /\ UnreadSlice(c) = {}
    \/ c \in executed_tools

(* RepositoryToolLayer.read_file: the place of a symbol that is found      *)
(* stands for the lines; a zero stands for no bound, a reversed range is   *)
(* turned round, one that starts beyond the file is an error.  The range   *)
(* is then widened by context_lines, and a prefix of at least one line of  *)
(* it is returned.                                                         *)
First(r) == IF r[1] = 0 THEN 1 ELSE r[1]
Last(r) == IF r[2] = 0 THEN Lines ELSE r[2]

Wanted(r) ==
    IF Place[r[3].symbol] # <<>> THEN Place[r[3].symbol]
    ELSE IF Last(r) < First(r) THEN <<Last(r), First(r)>>
    ELSE <<First(r), Last(r)>>

ReadResults(r) ==
    LET lo == Wanted(r)[1]
        hi == IF Wanted(r)[2] > Lines THEN Lines ELSE Wanted(r)[2]
        n == r[3].context
        s == IF lo - n < 1 THEN 1 ELSE lo - n
        e == IF hi + n > Lines THEN Lines ELSE hi + n
    IN IF lo > Lines THEN {} ELSE {s..k : k \in s..e}

----------------------------------------------------------------------------
(* A turn is counted before the limits are tested, on every path to it.    *)

(* Mutant of QABeginTurn: the limits are tested first.                     *)
QABeginTurnLate ==
    /\ step = "top" /\ TurnsLeft(turn_count)
    /\ turn_count' = turn_count + 1
    /\ model_calls' = model_calls + 1
    /\ step' = "model"
    /\ UNCHANGED <<tool_call_count, command_count, recent_signatures, asked,
                   evidenceVars, counters, stop_reason, answer>>

QABeginTurn ==
    /\ step = "top" /\ TurnsLeft(turn_count + 1)
    /\ turn_count' = turn_count + 1
    /\ model_calls' = model_calls + 1
    /\ step' = "model"
    /\ UNCHANGED <<tool_call_count, command_count, recent_signatures, asked,
                   evidenceVars, counters, stop_reason, answer>>

(* MAX_TURNS_EXCEEDED or, at any turn, EXECUTION_TIMEOUT: one more call of *)
(* the model, without tools.                                               *)
QALimit ==
    /\ step = "top"
    /\ turn_count' = turn_count + 1
    /\ model_calls' = model_calls + 1
    /\ step' = "final" /\ stop_reason' = "TURN_LIMIT"
    /\ UNCHANGED <<tool_call_count, command_count, recent_signatures, asked,
                   evidenceVars, counters, answer>>

Stop(reason, text) ==
    /\ step' = "done" /\ stop_reason' = reason /\ answer' = text

(* Mutant of Overflow: one retry too many.                                 *)
OverflowOnceMore ==
    /\ step = "model" /\ overflows <= MaxOverflows
    /\ overflows' = overflows + 1
    /\ step' = "top"
    /\ UNCHANGED <<guardrails, asked, evidenceVars, retries, malformed,
                   stop_reason, answer>>

(* A limit of the provider: the conversation is compacted and the request  *)
(* repeated, in a turn of its own.                                         *)
Overflow ==
    /\ step = "model" /\ overflows < MaxOverflows
    /\ overflows' = overflows + 1
    /\ step' = "top"
    /\ UNCHANGED <<guardrails, asked, evidenceVars, retries, malformed,
                   stop_reason, answer>>

ModelFailed ==
    /\ step = "model"
    /\ Stop("MODEL_ERROR", "error")
    /\ UNCHANGED <<guardrails, asked, evidenceVars, counters>>

(* A tool_call action that carries no call.                                *)
EmptyToolCall ==
    /\ step = "model"
    /\ step' = "top" /\ overflows' = 0 /\ malformed' = 0
    /\ UNCHANGED <<guardrails, asked, evidenceVars, retries, stop_reason,
                   answer>>

Malformed ==
    /\ step = "model" /\ overflows' = 0
    /\ malformed' = malformed + 1
    /\ IF malformed' >= MaxMalformed
       THEN Stop("MODEL_ERROR", "error")
       ELSE step' = "top" /\ UNCHANGED <<stop_reason, answer>>
    /\ UNCHANGED <<guardrails, asked, evidenceVars, retries>>

(* The observations contradict the answer: the model is asked to correct   *)
(* it.                                                                     *)
AnswerRejected ==
    /\ step = "model" /\ retries < MaxRetries
    /\ step' = "top" /\ overflows' = 0 /\ malformed' = 0
    /\ retries' = retries + 1
    /\ UNCHANGED <<guardrails, asked, evidenceVars, stop_reason, answer>>

AnswerTaken ==
    /\ step = "model" /\ overflows' = 0 /\ malformed' = 0
    /\ \/ Stop("COMPLETED", "checked")
       \/ retries >= MaxRetries /\ Stop("COMPLETED", "caveated")
    /\ UNCHANGED <<guardrails, asked, evidenceVars, retries>>

----------------------------------------------------------------------------
(* A tool call.                                                            *)

Requested == Searches \cup OpenReads \cup Ranges

(* The evidence is sufficient: the answer is asked for at once.  The call  *)
(* is not counted.                                                         *)
DuplicateAnswered ==
    /\ step = "model"
    /\ \E c \in Requested : Duplicate(Adjusted(c))
    /\ overflows' = 0 /\ malformed' = 0
    /\ step' = "final" /\ stop_reason' = "COMPLETED"
    /\ model_calls' = model_calls + 1
    /\ UNCHANGED <<turn_count, tool_call_count, command_count,
                   recent_signatures, asked, evidenceVars, retries, answer>>

DuplicateRefused ==
    /\ step = "model"
    /\ \E c \in Requested : Duplicate(Adjusted(c))
    /\ overflows' = 0 /\ malformed' = 0
    /\ step' = "top"
    /\ UNCHANGED <<guardrails, asked, evidenceVars, retries, stop_reason,
                   answer>>

ToolLimit ==
    /\ step = "model"
    /\ \E c \in Requested :
          /\ ~Duplicate(Adjusted(c)) /\ Stops(Adjusted(c))
          /\ record_tool_call(Adjusted(c))
    /\ overflows' = 0 /\ malformed' = 0
    /\ step' = "final" /\ stop_reason' = "TOOL_LIMIT"
    /\ model_calls' = model_calls + 1
    /\ UNCHANGED <<turn_count, asked, evidenceVars, retries, answer>>

Dispatch ==
    /\ step = "model"
    /\ \E c \in Requested :
          /\ ~Duplicate(Adjusted(c)) /\ ~Stops(Adjusted(c))
          /\ record_tool_call(Adjusted(c))
          /\ asked' = Adjusted(c)
    /\ overflows' = 0 /\ malformed' = 0
    /\ step' = "tool"
    /\ UNCHANGED <<turn_count, model_calls, evidenceVars, retries,
                   stop_reason, answer>>

(* Mutant of record_tool_result: a result is remembered only for the call  *)
(* that follows.                                                           *)
record_last_result(data, lines) ==
    /\ turns' = Append(turns,
          [call |-> asked, data |-> data, lines |-> lines])
    /\ executed_tools' = IF data THEN {asked} ELSE {}
    /\ file_read_ranges' = file_read_ranges \cup lines

(* The turn, the record of its call, and the lines the result names.       *)
record_tool_result(data, lines) ==
    /\ turns' = Append(turns,
          [call |-> asked, data |-> data, lines |-> lines])
    /\ executed_tools' = IF data THEN executed_tools \cup {asked}
                         ELSE executed_tools \ {asked}
    /\ file_read_ranges' = file_read_ranges \cup lines

(* What a read may return; a call that leaves a line open starts where it  *)
(* asks, at the first line or at a symbol.                                 *)
FoundBy(c) ==
    IF c \in OpenReads THEN {s..k : s, k \in 1..Lines} \ {{}}
    ELSE ReadResults(c)

ToolAnswers ==
    /\ step = "tool" /\ step' = "top"
    /\ \/ asked \in Searches /\ record_tool_result(TRUE, {})
       \/ /\ asked \in OpenReads \cup Reads
          /\ \E found \in FoundBy(asked) : record_tool_result(TRUE, found)
    /\ UNCHANGED <<guardrails, asked, counters, stop_reason, answer>>

(* An error, or a success that found nothing.                              *)
ToolFindsNothing ==
    /\ step = "tool" /\ step' = "top"
    /\ record_tool_result(FALSE, {})
    /\ UNCHANGED <<guardrails, asked, counters, stop_reason, answer>>

(* Mutant of ForcedAnswer: a failure of the model leaves no answer.        *)
ForcedAnswerSilent ==
    /\ step = "final" /\ step' = "done"
    /\ answer' \in {"checked", "caveated", answer}
    /\ UNCHANGED <<guardrails, asked, evidenceVars, counters, stop_reason>>

(* _do_final_answer_turn; if the model fails, the text of the error is the *)
(* answer.  The reason to stop stays as it was.                            *)
ForcedAnswer ==
    /\ step = "final" /\ step' = "done"
    /\ answer' \in {"checked", "caveated", "error"}
    /\ UNCHANGED <<guardrails, asked, evidenceVars, counters, stop_reason>>

(* What is outside the two try blocks raises: on_turn, wherever it is told *)
(* of a turn, or the checks of a call's arguments.                         *)
RunRaises ==
    /\ step # "done" /\ step' = "done" /\ answer' = "raised"
    /\ UNCHANGED <<guardrails, asked, evidenceVars, counters, stop_reason>>

QANext ==
    \/ QABeginTurn \/ QALimit \/ Overflow \/ ModelFailed \/ EmptyToolCall
    \/ Malformed \/ AnswerRejected \/ AnswerTaken \/ DuplicateAnswered
    \/ DuplicateRefused \/ ToolLimit \/ Dispatch \/ ToolAnswers
    \/ ToolFindsNothing \/ ForcedAnswer \/ RunRaises

(* The coroutine runs; the model and the tools answer or fail.             *)
QAFairness == WF_qvars(QANext)

QASafety == QAInit /\ [][QANext]_qvars

QASpec == QASafety /\ QAFairness

----------------------------------------------------------------------------
(* A call that has brought data is not dispatched again in the session,    *)
(* whatever was called, corrected or compacted in between.                 *)
KnownCallsNotRepeated ==
    \A i, j \in DOMAIN turns :
        i < j /\ turns[i].call = turns[j].call => ~turns[i].data

(* A read with no more to it than its lines.                               *)
Plain(m) == m.context = 0 /\ Place[m.symbol] = <<>>

(* Every read of a range that brings lines brings one that no earlier      *)
(* observation holds, even when an earlier result was cut short: always if *)
(* the call is plain, and with context_lines or a symbol, of which the     *)
(* loop knows nothing, if the result reaches the first line asked for.     *)
(* Besides, a range escapes this that starts before line 1 or is reversed, *)
(* or whose file is called by another name.                                *)
ReadsBringNewLines ==
    \A j \in DOMAIN turns :
        LET c == turns[j].call IN
        /\ c \in Reads /\ Proper(c) /\ c[3].name # "other" /\ turns[j].data
        /\ Plain(c[3]) \/ c[1] \in turns[j].lines
        => \E l \in turns[j].lines :
               \A i \in 1..(j - 1) : l \notin turns[i].lines
=============================================================================
