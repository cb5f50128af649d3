---------------------------- MODULE QALoop_proofs ----------------------------
(***************************************************************************)
(* What holds of a question for any limits, any file, any calls and any    *)
(* answers of the model.                                                   *)
(*                                                                         *)
(* The loop knows at least what its turns show: their lines are in         *)
(* file_read_ranges, and the calls that brought data in executed_tools.  A *)
(* call that is dispatched is not one of these, and if it reads a range of *)
(* a file by the name it is recorded under, the first line of the range,   *)
(* after the adjustment, is unread.  A plain read returns that line; one   *)
(* with context_lines or a symbol may not.                                 *)
(***************************************************************************)
EXTENDS QALoop, SequenceTheorems, WellFoundedInduction, TLAPS

(* What the turns show is known.                                           *)
TurnsKnown ==
    \A i \in 1..Len(turns) :
        /\ turns[i].lines \subseteq file_read_ranges
        /\ turns[i].data => turns[i].call \in executed_tools

(* What is being dispatched is not.                                        *)
AskedNew ==
    step = "tool" =>
        /\ asked \notin executed_tools
        /\ asked \in Reads /\ asked[3].name # "other"
              => asked[1] \notin file_read_ranges

(* The malformed answer that reaches the limit ends the loop.              *)
MalformedOK == step # "done" => malformed < MaxMalformed

(* A turn is a request to the model; one more is left for the answer.      *)
BudgetOK ==
    /\ step \in {"top", "model", "tool"} =>
          model_calls = turn_count /\ turn_count < MaxTurns
    /\ ModelCallsWithinTurns

QAInv == QATypeOK /\ TurnsKnown /\ AskedNew /\ MalformedOK
                  /\ KnownCallsNotRepeated /\ ReadsBringNewLines

QIInv == QAInv /\ BudgetOK

USE DEF counters, evidenceVars

LEMMA TurnTypes == ASSUME QATypeOK
                   PROVE  /\ Len(turns) \in Nat /\ DOMAIN turns = 1..Len(turns)
                          /\ \A i \in 1..Len(turns) : turns[i] \in Dispatched
<1>1. turns \in Seq(Dispatched)
  BY DEF QATypeOK
<1> HIDE DEF Dispatched
<1> QED
  BY <1>1, LenProperties, ElementOfSeq

----------------------------------------------------------------------------
(* The lines that have been read.                                          *)

(* A set of numbers has a least one.                                       *)
LEMMA LeastOf ==
    ASSUME NEW L \in SUBSET Nat, L # {}
    PROVE  \E l \in L : \A k \in L : l <= k
<1> DEFINE less == OpToRel(<, Nat)
<1>1. \E l \in L : \A k \in L : <<k, l>> \notin less
  <2> HIDE DEF less
  <2> QED
    BY NatLessThanWellFounded, WFMin DEF less
<1>2. \A k, l \in Nat : <<k, l>> \notin less => l <= k
  BY DEF OpToRel
<1> QED
  BY <1>1, <1>2

(* The interval that a line is in has an end.                              *)
LEMMA EndOfIsEnd ==
    ASSUME QATypeOK, NEW l \in file_read_ranges
    PROVE  /\ EndOf(l) \in l..Lines
           /\ EndOf(l) + 1 \notin file_read_ranges
<1> DEFINE Gaps == {n \in Nat : n >= l /\ n + 1 \notin file_read_ranges}
<1>1. l \in 1..Lines /\ Lines \in Nat /\ file_read_ranges \subseteq 1..Lines
  BY QAConfigAssumption DEF QATypeOK
<1>2. Lines \in Gaps
  BY <1>1
<1>3. PICK e \in Gaps : \A n \in Gaps : e <= n
  <2>1. Gaps \subseteq Nat /\ Gaps # {}
    BY <1>2
  <2> HIDE DEF Gaps
  <2> QED
    BY <2>1, LeastOf
<1>4. e \in l..Lines /\ e + 1 \notin file_read_ranges
  BY <1>1, <1>2, <1>3
<1>5. l..e \subseteq file_read_ranges
  <2> SUFFICES ASSUME NEW x \in l..e, x \notin file_read_ranges PROVE FALSE
    OBVIOUS
  <2>1. x > l /\ x - 1 \in Nat /\ x - 1 >= l /\ x - 1 < e
    BY <1>1, <1>4
  <2>2. x - 1 \in Gaps
    BY <1>1, <2>1
  <2> QED
    BY <1>3, <1>4, <2>1, <2>2
<1> QED
  BY <1>4, <1>5 DEF EndOf

(* The adjusted call is a call, and one that is no duplicate begins with   *)
(* an unread line.                                                         *)
LEMMA AdjustedIsNew ==
    ASSUME QATypeOK, NEW c \in Calls
    PROVE  /\ Adjusted(c) \in Calls
           /\ ~Duplicate(Adjusted(c)) /\ Adjusted(c) \in Reads
                 /\ Adjusted(c)[3].name # "other"
              => Adjusted(c)[1] \notin file_read_ranges
<1>0. /\ file_read_ranges \subseteq 1..Lines /\ Lines \in Nat
      /\ Reads \subseteq Calls
  BY QAConfigAssumption, CallsAssumption DEF QATypeOK
<1>1. CASE c \notin Reads
  <2>1. Adjusted(c) = c
    BY <1>1 DEF Adjusted
  <2> QED
    BY <1>1, <2>1
<1>2. CASE c \in Reads /\ UnreadSlice(c) = {}
  <2>1. Adjusted(c) = c
    BY <1>2 DEF Adjusted
  <2>2. Duplicate(c)
    BY <1>2 DEF Duplicate
  <2> QED
    BY <2>1, <2>2
<1>5. CASE c \in Reads /\ c[3].name = "other"
  <2>1. UnreadSlice(c) = {c}
    BY <1>5 DEF UnreadSlice
  <2>2. Adjusted(c) = c
    BY <2>1 DEF Adjusted
  <2> QED
    BY <1>5, <2>2
<1>3. CASE c \in Reads /\ c[3].name # "other" /\ c[1] \in file_read_ranges
           /\ UnreadSlice(c) # {}
  <2> DEFINE a == <<EndOf(c[1]) + 1, c[2], c[3]>>
  <2>1. EndOf(c[1]) \in c[1]..Lines /\ EndOf(c[1]) + 1 \notin file_read_ranges
    BY <1>3, EndOfIsEnd
  <2>2. c[2] > EndOf(c[1]) /\ UnreadSlice(c) = {a}
    BY <1>3 DEF UnreadSlice, SliceAfter
  <2>3. Adjusted(c) = a
    BY <1>3, <2>2 DEF Adjusted
  <2>4. c[1] \in 0..(Lines + 1) /\ c[2] \in 0..(Lines + 1) /\ c[3] \in Manners
    BY <1>3 DEF Reads
  <2>5. EndOf(c[1]) + 1 \in 0..(Lines + 1)
    BY <1>0, <2>1, <2>2, <2>4
  <2>6. a \in Reads /\ a[1] = EndOf(c[1]) + 1
    BY <2>4, <2>5 DEF Reads
  <2> HIDE DEF a
  <2> QED
    BY <1>0, <2>1, <2>3, <2>6
<1>4. CASE c \in Reads /\ c[3].name # "other" /\ c[1] \notin file_read_ranges
  <2> DEFINE later == {l \in file_read_ranges : c[1] < l}
             s == CHOOSE l \in later : \A k \in later : l <= k
  <2>0. /\ c[1] \in 0..(Lines + 1) /\ c[2] \in 0..(Lines + 1)
        /\ c[3] \in Manners
        /\ UnreadSlice(c) = SliceBefore(c)
    BY <1>4 DEF Reads, UnreadSlice
  <2>1. CASE later = {}
    <3>1. SliceBefore(c) = {c}
      BY <2>1 DEF SliceBefore
    <3>2. Adjusted(c) = c
      BY <2>0, <3>1 DEF Adjusted
    <3> QED
      BY <1>4, <3>2
  <2>2. CASE later # {}
    <3> DEFINE e == IF c[2] < s THEN c[2] ELSE s - 1
               a == <<c[1], e, c[3]>>
    <3>1. later \subseteq Nat
      <4>1. later \subseteq file_read_ranges
        OBVIOUS
      <4> HIDE DEF later
      <4> QED
        BY <1>0, <4>1
    <3>2. s \in later
      <4> HIDE DEF later
      <4> QED
        BY <2>2, <3>1, LeastOf
    <3>3. s \in 1..Lines /\ c[1] < s
      BY <1>0, <3>2
    <3>4. SliceBefore(c) = {a}
      BY <2>2 DEF SliceBefore
    <3> HIDE DEF s
    <3>5. e \in 0..(Lines + 1)
      BY <1>0, <2>0, <3>3
    <3>6. Adjusted(c) = a
      BY <1>4, <2>0, <3>4 DEF Adjusted
    <3>7. a \in Reads /\ a[1] = c[1]
      BY <2>0, <3>5 DEF Reads
    <3> HIDE DEF a
    <3> QED
      BY <1>0, <1>4, <3>6, <3>7
  <2> QED
    BY <2>1, <2>2
<1> QED
  BY <1>1, <1>2, <1>3, <1>4, <1>5

(* What is requested is a call.                                            *)
LEMMA RequestedAreCalls == Requested \subseteq Calls
BY CallsAssumption DEF Requested

----------------------------------------------------------------------------
(* Types.                                                                  *)

(* The range that is read of the file begins above line 0.                 *)
LEMMA WantedLines ==
    ASSUME NEW r \in Reads
    PROVE  /\ Wanted(r)[1] \in Nat \ {0} /\ Wanted(r)[2] \in Nat
           /\ Wanted(r)[1] <= Wanted(r)[2]
           /\ Place[r[3].symbol] = <<>> /\ Proper(r) => Wanted(r)[1] = r[1]
<1>1. /\ r[1] \in 0..(Lines + 1) /\ r[2] \in 0..(Lines + 1)
      /\ Lines \in Nat /\ Lines >= 1
  BY QAConfigAssumption DEF Reads
<1>2. CASE Place[r[3].symbol] # <<>>
  <2>1. r[3].symbol \in Symbols
    BY MannersAssumption DEF Reads
  <2>2. /\ Place[r[3].symbol] \in (1..Lines) \X (1..Lines)
        /\ Place[r[3].symbol][1] <= Place[r[3].symbol][2]
    BY <1>2, <2>1, MannersAssumption
  <2>3. Wanted(r) = Place[r[3].symbol]
    BY <1>2 DEF Wanted
  <2> HIDE DEF Wanted
  <2> QED
    BY <1>1, <1>2, <2>2, <2>3
<1>3. CASE Place[r[3].symbol] = <<>>
  <2>1. First(r) \in Nat \ {0} /\ Last(r) \in Nat \ {0}
    BY <1>1 DEF First, Last
  <2>2. Wanted(r) = IF Last(r) < First(r) THEN <<Last(r), First(r)>>
                    ELSE <<First(r), Last(r)>>
    BY <1>3 DEF Wanted
  <2>3. Proper(r) => First(r) = r[1] /\ Last(r) = r[2]
    BY <1>1 DEF Proper, First, Last
  <2> QED
    BY <1>1, <2>1, <2>2, <2>3 DEF Proper
<1> QED
  BY <1>2, <1>3

(* What may be recorded of a tool's answer.                                *)
LEMMA FoundLines ==
    ASSUME QATypeOK, NEW r \in Reads, NEW found \in ReadResults(r)
    PROVE  /\ found \subseteq 1..Lines
           /\ Proper(r) /\ Plain(r[3]) => r[1] \in found
<1> DEFINE lo == Wanted(r)[1]
           hi == IF Wanted(r)[2] > Lines THEN Lines ELSE Wanted(r)[2]
           n == r[3].context
           s == IF lo - n < 1 THEN 1 ELSE lo - n
           e == IF hi + n > Lines THEN Lines ELSE hi + n
<1>1. Lines \in Nat /\ n \in Nat
  BY QAConfigAssumption, MannersAssumption DEF Reads
<1>2. lo \in Nat \ {0} /\ Wanted(r)[2] \in Nat /\ lo <= Wanted(r)[2]
  BY WantedLines
<1>3. lo <= Lines /\ \E k \in s..e : found = s..k
  <2>1. found \in IF lo > Lines THEN {} ELSE {s..k : k \in s..e}
    BY DEF ReadResults
  <2> HIDE DEF lo, s, e
  <2> QED
    BY <1>1, <1>2, <2>1
<1>4. PICK k \in s..e : found = s..k
  BY <1>3
<1>5. hi \in 1..Lines /\ lo <= hi
  <2> HIDE DEF lo
  <2> QED
    BY <1>1, <1>2, <1>3
<1>6. s \in 1..lo /\ e \in hi..Lines
  <2> HIDE DEF lo, hi, n
  <2> QED
    BY <1>1, <1>2, <1>5
<1>7. found \subseteq 1..Lines
  <2> HIDE DEF lo, hi, n, s, e
  <2> QED
    BY <1>1, <1>2, <1>4, <1>5, <1>6
<1>8. ASSUME Proper(r), Plain(r[3]) PROVE r[1] \in found
  <2>1. lo = r[1] /\ n = 0
    BY <1>8, WantedLines DEF Plain
  <2>2. s = lo
    <3> HIDE DEF lo, n
    <3> QED
      BY <1>1, <1>2, <2>1
  <2> HIDE DEF lo, hi, n, s, e
  <2> QED
    BY <1>1, <1>2, <1>4, <1>5, <1>6, <2>1, <2>2
<1> QED
  BY <1>7, <1>8

LEMMA ResultRecorded ==
    ASSUME QATypeOK, NEW data \in BOOLEAN, NEW lines \in SUBSET (1..Lines),
           record_tool_result(data, lines)
    PROVE  /\ turns' \in Seq(Dispatched)
           /\ Len(turns') = Len(turns) + 1
           /\ \A i \in 1..Len(turns) : turns'[i] = turns[i]
           /\ turns'[Len(turns) + 1] =
                 [call |-> asked, data |-> data, lines |-> lines]
           /\ executed_tools' \subseteq Calls
           /\ file_read_ranges' = file_read_ranges \cup lines
<1> DEFINE new == [call |-> asked, data |-> data, lines |-> lines]
<1>1. new \in Dispatched
  BY DEF Dispatched, QATypeOK
<1>2. turns \in Seq(Dispatched) /\ turns' = Append(turns, new)
  BY DEF QATypeOK, record_tool_result
<1>3. /\ turns' \in Seq(Dispatched) /\ Len(turns') = Len(turns) + 1
      /\ \A i \in 1..Len(turns) : turns'[i] = turns[i]
      /\ turns'[Len(turns) + 1] = new
  <2> HIDE DEF Dispatched, new
  <2> QED
    BY <1>1, <1>2, AppendProperties
<1>4. executed_tools' \subseteq Calls
  BY DEF record_tool_result, QATypeOK
<1> QED
  BY <1>3, <1>4 DEF record_tool_result

(* Every tool step records one answer; one that brings data, of a plain    *)
(* read of a proper range, holds its first line.                           *)
LEMMA ToolRecords ==
    ASSUME QATypeOK, ToolAnswers \/ ToolFindsNothing
    PROVE  \E data \in BOOLEAN, lines \in SUBSET (1..Lines) :
              /\ record_tool_result(data, lines)
              /\ asked \in Reads /\ Proper(asked) /\ Plain(asked[3]) /\ data
                    => asked[1] \in lines
<1>1. CASE ToolFindsNothing
  BY <1>1 DEF ToolFindsNothing
<1>2. CASE ToolAnswers /\ asked \in Searches /\ record_tool_result(TRUE, {})
  BY <1>2, CallsAssumption
<1>3. ASSUME asked \in OpenReads \cup Reads, NEW found \in FoundBy(asked),
             record_tool_result(TRUE, found)
      PROVE  \E data \in BOOLEAN, lines \in SUBSET (1..Lines) :
                /\ record_tool_result(data, lines)
                /\ asked \in Reads /\ Proper(asked) /\ Plain(asked[3]) /\ data
                      => asked[1] \in lines
  <2>1. CASE asked \in OpenReads
    <3>1. asked \notin Reads
      BY <2>1, CallsAssumption
    <3>2. found \subseteq 1..Lines
      BY <1>3, <2>1, QAConfigAssumption DEF FoundBy
    <3> QED
      BY <1>3, <3>1, <3>2
  <2>2. CASE asked \in Reads
    <3>1. asked \notin OpenReads
      BY <2>2, CallsAssumption
    <3>2. found \in ReadResults(asked)
      BY <1>3, <3>1 DEF FoundBy
    <3>3. found \subseteq 1..Lines
          /\ (Proper(asked) /\ Plain(asked[3]) => asked[1] \in found)
      BY <2>2, <3>2, FoundLines
    <3> QED
      BY <1>3, <3>3
  <2> QED
    BY <1>3, <2>1, <2>2
<1> QED
  BY <1>1, <1>2, <1>3 DEF ToolAnswers

LEMMA QACallType ==
    ASSUME GuardrailsTypeOK, NEW c \in Calls, record_tool_call(c)
    PROVE  /\ tool_call_count' \in Nat /\ command_count' \in Nat
           /\ recent_signatures' \in Seq(Calls)
<1>1. Append(recent_signatures, c) \in Seq(Calls)
  BY AppendProperties DEF GuardrailsTypeOK
<1> QED
  BY <1>1 DEF GuardrailsTypeOK, record_tool_call

LEMMA QAGuardrailsStep ==
    ASSUME QATypeOK, QANext PROVE GuardrailsTypeOK'
<1>0. GuardrailsTypeOK
  BY DEF QATypeOK
<1>1. CASE ToolLimit \/ Dispatch
  <2>1. PICK c \in Requested : record_tool_call(Adjusted(c))
    BY <1>1 DEF ToolLimit, Dispatch
  <2>2. Adjusted(c) \in Calls
    BY AdjustedIsNew, RequestedAreCalls
  <2>3. /\ tool_call_count' \in Nat /\ command_count' \in Nat
        /\ recent_signatures' \in Seq(Calls)
    BY <1>0, <2>1, <2>2, QACallType
  <2>4. turn_count' = turn_count
        /\ model_calls' \in {model_calls, model_calls + 1}
    BY <1>1 DEF ToolLimit, Dispatch
  <2> QED
    BY <1>0, <2>3, <2>4 DEF GuardrailsTypeOK
<1>2. CASE QABeginTurn \/ QALimit \/ DuplicateAnswered
  BY <1>0, <1>2 DEF QABeginTurn, QALimit, DuplicateAnswered, GuardrailsTypeOK
<1>3. CASE UNCHANGED guardrails
  BY <1>0, <1>3 DEF guardrails, GuardrailsTypeOK
<1> QED
  BY <1>1, <1>2, <1>3
     DEF QANext, Overflow, ModelFailed, EmptyToolCall, Malformed,
         AnswerRejected, AnswerTaken, DuplicateRefused, ToolAnswers,
         ToolFindsNothing, ForcedAnswer, RunRaises

LEMMA QATypeStep == ASSUME QATypeOK, MalformedOK, QANext PROVE QATypeOK'
<1>0. GuardrailsTypeOK'
  BY QAGuardrailsStep
<1>1. /\ MaxOverflows \in Nat /\ MaxRetries \in Nat
      /\ MaxMalformed \in Nat /\ MaxMalformed >= 1
  BY QAConfigAssumption
<1> USE <1>0, <1>1 DEF QATypeOK, Reasons
<1>2. CASE QABeginTurn \/ QALimit
  BY <1>2 DEF QABeginTurn, QALimit
<1>3. CASE Overflow
  BY <1>3 DEF Overflow
<1>4. CASE EmptyToolCall
  BY <1>4 DEF EmptyToolCall
<1>5. CASE AnswerRejected
  BY <1>5 DEF AnswerRejected
<1>6. CASE DuplicateRefused
  BY <1>6 DEF DuplicateRefused
<1>7. CASE ForcedAnswer \/ RunRaises
  BY <1>7 DEF ForcedAnswer, RunRaises
<1>8. CASE DuplicateAnswered
  BY <1>8 DEF DuplicateAnswered
<1>9. CASE ModelFailed
  BY <1>9 DEF ModelFailed, Stop
<1>10. CASE AnswerTaken
  BY <1>10 DEF AnswerTaken, Stop
<1>11. CASE Malformed
  BY <1>11 DEF Malformed, Stop, MalformedOK
<1>12. CASE ToolLimit
  BY <1>12 DEF ToolLimit
<1>13. CASE Dispatch
  <2>1. PICK c \in Requested : asked' = Adjusted(c)
    BY <1>13 DEF Dispatch
  <2>2. asked' \in Calls
    BY <2>1, AdjustedIsNew, RequestedAreCalls
  <2> QED
    BY <1>13, <2>2 DEF Dispatch
<1>14. CASE ToolAnswers \/ ToolFindsNothing
  <2>1. /\ turns' \in Seq(Dispatched) /\ executed_tools' \subseteq Calls
        /\ file_read_ranges' \subseteq 1..Lines
    <3> HIDE DEF QATypeOK
    <3>1. PICK data \in BOOLEAN, lines \in SUBSET (1..Lines) :
              record_tool_result(data, lines)
      BY <1>14, ToolRecords
    <3>2. /\ turns' \in Seq(Dispatched) /\ executed_tools' \subseteq Calls
          /\ file_read_ranges' = file_read_ranges \cup lines
      BY <3>1, ResultRecorded
    <3> QED
      BY <3>2 DEF QATypeOK
  <2> QED
    BY <1>14, <2>1 DEF ToolAnswers, ToolFindsNothing
<1> QED
  BY <1>2, <1>3, <1>4, <1>5, <1>6, <1>7, <1>8, <1>9, <1>10, <1>11, <1>12,
     <1>13, <1>14
     DEF QANext

LEMMA MalformedStep == ASSUME QATypeOK, MalformedOK, QANext PROVE MalformedOK'
<1>0. malformed \in Nat /\ MaxMalformed \in Nat /\ MaxMalformed >= 1
  BY QAConfigAssumption DEF QATypeOK
<1> USE <1>0 DEF MalformedOK
<1>1. CASE QABeginTurn \/ QALimit \/ Overflow \/ ToolAnswers \/ ToolFindsNothing
  BY <1>1 DEF QABeginTurn, QALimit, Overflow, ToolAnswers, ToolFindsNothing
<1>2. CASE EmptyToolCall \/ AnswerRejected \/ DuplicateAnswered
           \/ DuplicateRefused \/ ToolLimit \/ Dispatch
  BY <1>2
     DEF EmptyToolCall, AnswerRejected, DuplicateAnswered, DuplicateRefused,
         ToolLimit, Dispatch
<1>3. CASE ModelFailed \/ AnswerTaken \/ ForcedAnswer \/ RunRaises
  BY <1>3 DEF ModelFailed, AnswerTaken, ForcedAnswer, RunRaises, Stop
<1>4. CASE Malformed
  BY <1>4 DEF Malformed, Stop
<1> QED
  BY <1>1, <1>2, <1>3, <1>4 DEF QANext

----------------------------------------------------------------------------
(* What is known is not asked for again.                                   *)

LEMMA KnownStep == ASSUME QAInv, QANext
                   PROVE  /\ TurnsKnown' /\ AskedNew'
                          /\ KnownCallsNotRepeated' /\ ReadsBringNewLines'
<1> USE DEF QAInv
<1>0. Len(turns) \in Nat /\ DOMAIN turns = 1..Len(turns)
  BY TurnTypes
<1>1. CASE Dispatch
  <2>1. PICK c \in Requested : ~Duplicate(Adjusted(c)) /\ asked' = Adjusted(c)
    BY <1>1 DEF Dispatch
  <2>2. asked' \in Reads /\ asked'[3].name # "other"
           => asked'[1] \notin file_read_ranges
    BY <2>1, RequestedAreCalls, AdjustedIsNew
  <2>3. asked' \notin executed_tools
    BY <2>1 DEF Duplicate
  <2>4. UNCHANGED evidenceVars
    BY <1>1 DEF Dispatch
  <2> QED
    BY <2>2, <2>3, <2>4
       DEF AskedNew, TurnsKnown, KnownCallsNotRepeated, ReadsBringNewLines
<1>2. CASE ToolAnswers \/ ToolFindsNothing
  <2>1. PICK data \in BOOLEAN, lines \in SUBSET (1..Lines) :
              /\ record_tool_result(data, lines)
              /\ asked \in Reads /\ Proper(asked) /\ Plain(asked[3]) /\ data
                    => asked[1] \in lines
    BY <1>2, ToolRecords
  <2>2. step = "tool" /\ step' = "top"
    BY <1>2 DEF ToolAnswers, ToolFindsNothing
  <2> DEFINE n == Len(turns) + 1
  <2>3. /\ turns' \in Seq(Dispatched) /\ Len(turns') = n
        /\ \A i \in 1..Len(turns) : turns'[i] = turns[i]
        /\ turns'[n].call = asked /\ turns'[n].data = data
        /\ turns'[n].lines = lines
        /\ file_read_ranges' = file_read_ranges \cup lines
    <3>1. QATypeOK
      OBVIOUS
    <3>2. turns'[n] = [call |-> asked, data |-> data, lines |-> lines]
      BY <2>1, <3>1, ResultRecorded
    <3> QED
      BY <2>1, <3>1, <3>2, ResultRecorded
  <2>4. DOMAIN turns' = 1..n
    <3> HIDE DEF Dispatched
    <3> QED
      BY <2>3, LenProperties
  <2>5. /\ asked \notin executed_tools
        /\ asked \in Reads /\ asked[3].name # "other"
              => asked[1] \notin file_read_ranges
    BY <2>2 DEF AskedNew
  <2>6. \A i \in 1..Len(turns) : turns[i].data => turns[i].call # asked
    BY <2>5 DEF TurnsKnown
  <2>7. TurnsKnown'
    <3>1. ASSUME NEW i \in 1..Len(turns)
          PROVE  /\ turns'[i].lines \subseteq file_read_ranges'
                 /\ turns'[i].data => turns'[i].call \in executed_tools'
      BY <1>0, <2>1, <2>3, <2>6 DEF TurnsKnown, record_tool_result
    <3>2. /\ turns'[n].lines \subseteq file_read_ranges'
          /\ turns'[n].data => turns'[n].call \in executed_tools'
      BY <2>1, <2>3 DEF record_tool_result
    <3> QED
      BY <1>0, <2>3, <3>1, <3>2 DEF TurnsKnown
  <2>8. KnownCallsNotRepeated'
    <3> SUFFICES ASSUME NEW i \in 1..n, NEW j \in 1..n, i < j,
                        turns'[i].call = turns'[j].call, turns'[i].data
                 PROVE  FALSE
      BY <2>4 DEF KnownCallsNotRepeated
    <3>1. i \in 1..Len(turns) /\ turns'[i] = turns[i]
      BY <1>0, <2>3
    <3>2. CASE j = n
      BY <2>3, <2>6, <3>1, <3>2
    <3>3. CASE j \in 1..Len(turns)
      BY <1>0, <2>3, <3>1, <3>3 DEF KnownCallsNotRepeated
    <3> QED
      BY <1>0, <3>2, <3>3
  <2>9. ReadsBringNewLines'
    <3> SUFFICES ASSUME NEW j \in 1..n, turns'[j].call \in Reads,
                        Proper(turns'[j].call),
                        turns'[j].call[3].name # "other",
                        turns'[j].data,
                        \/ Plain(turns'[j].call[3])
                        \/ turns'[j].call[1] \in turns'[j].lines
                 PROVE  \E l \in turns'[j].lines :
                           \A i \in 1..(j - 1) : l \notin turns'[i].lines
      BY <2>4 DEF ReadsBringNewLines
    <3>1. CASE j = n
      <4>1. asked[1] \in lines /\ asked[1] \notin file_read_ranges
        BY <2>1, <2>3, <2>5, <3>1
      <4>2. \A i \in 1..(j - 1) : asked[1] \notin turns'[i].lines
        BY <1>0, <2>3, <3>1, <4>1 DEF TurnsKnown
      <4> QED
        BY <2>3, <3>1, <4>1, <4>2
    <3>2. CASE j \in 1..Len(turns)
      <4>1. PICK l \in turns[j].lines :
                \A i \in 1..(j - 1) : l \notin turns[i].lines
        BY <1>0, <2>3, <3>2 DEF ReadsBringNewLines
      <4>2. \A i \in 1..(j - 1) : turns'[i] = turns[i]
        BY <1>0, <2>3, <3>2
      <4> QED
        BY <2>3, <3>2, <4>1, <4>2
    <3> QED
      BY <1>0, <3>1, <3>2
  <2> QED
    BY <2>2, <2>7, <2>8, <2>9 DEF AskedNew
<1>3. CASE UNCHANGED evidenceVars /\ step' # "tool"
  BY <1>3 DEF TurnsKnown, AskedNew, KnownCallsNotRepeated, ReadsBringNewLines
<1>4. CASE QABeginTurn \/ QALimit \/ Overflow \/ ModelFailed \/ EmptyToolCall
           \/ Malformed \/ AnswerRejected \/ AnswerTaken \/ DuplicateAnswered
           \/ DuplicateRefused \/ ToolLimit \/ ForcedAnswer \/ RunRaises
  BY <1>3, <1>4
     DEF QABeginTurn, QALimit, Overflow, ModelFailed, EmptyToolCall, Malformed,
         AnswerRejected, AnswerTaken, DuplicateAnswered, DuplicateRefused,
         ToolLimit, ForcedAnswer, RunRaises, Stop
<1> QED
  BY <1>1, <1>2, <1>4 DEF QANext

----------------------------------------------------------------------------
(* The turns.                                                              *)

LEMMA BudgetStep == ASSUME QATypeOK, BudgetOK, QANext PROVE BudgetOK'
<1> USE ConfigAssumption DEF BudgetOK, ModelCallsWithinTurns
<1>0. turn_count \in Nat /\ model_calls \in Nat
  BY DEF QATypeOK, GuardrailsTypeOK
<1>1. CASE QABeginTurn \/ QALimit
  BY <1>0, <1>1 DEF QABeginTurn, QALimit, TurnsLeft
<1>2. CASE DuplicateAnswered \/ ToolLimit
  BY <1>0, <1>2 DEF DuplicateAnswered, ToolLimit
<1>3. CASE Dispatch
  BY <1>3 DEF Dispatch
<1>4. CASE Overflow \/ ModelFailed \/ EmptyToolCall \/ Malformed
           \/ AnswerRejected \/ AnswerTaken \/ DuplicateRefused
           \/ ToolAnswers \/ ToolFindsNothing \/ ForcedAnswer \/ RunRaises
  BY <1>4
     DEF Overflow, ModelFailed, EmptyToolCall, Malformed, AnswerRejected,
         AnswerTaken, DuplicateRefused, ToolAnswers, ToolFindsNothing,
         ForcedAnswer, RunRaises, Stop, guardrails
<1> QED
  BY <1>1, <1>2, <1>3, <1>4 DEF QANext

----------------------------------------------------------------------------
(* The invariant.                                                          *)

LEMMA QAInitInv == QAInit => QIInv
<1> SUFFICES ASSUME QAInit PROVE QIInv
  OBVIOUS
<1> USE DEF QAInit, GuardrailsInit
<1>1. QATypeOK
  <2>1. recent_signatures \in Seq(Calls) /\ turns \in Seq(Dispatched)
    BY EmptySeq
  <2> QED
    BY <2>1, CallsAssumption, QAConfigAssumption DEF QATypeOK, GuardrailsTypeOK
<1>2. TurnsKnown /\ AskedNew /\ KnownCallsNotRepeated /\ ReadsBringNewLines
  BY EmptySeq DEF TurnsKnown, AskedNew, KnownCallsNotRepeated, ReadsBringNewLines
<1>3. BudgetOK /\ MalformedOK
  BY ConfigAssumption, QAConfigAssumption
     DEF BudgetOK, ModelCallsWithinTurns, MalformedOK
<1> QED
  BY <1>1, <1>2, <1>3 DEF QIInv, QAInv

LEMMA QANextInv == QIInv /\ QANext => QIInv'
BY QATypeStep, MalformedStep, KnownStep, BudgetStep DEF QIInv, QAInv

LEMMA QAStutter == QIInv /\ UNCHANGED qvars => QIInv'
BY DEF QIInv, QAInv, qvars, qaVars, guardrails, QATypeOK, GuardrailsTypeOK,
       TurnsKnown, AskedNew, MalformedOK, KnownCallsNotRepeated,
       ReadsBringNewLines, BudgetOK, ModelCallsWithinTurns

LEMMA QAInvariant == QASafety => []QIInv
<1>1. QAInit => QIInv
  BY QAInitInv
<1>2. QIInv /\ [QANext]_qvars => QIInv'
  BY QANextInv, QAStutter
<1> QED
  BY <1>1, <1>2, PTL DEF QASafety

----------------------------------------------------------------------------
(* The theorems.                                                           *)

(* Nothing a question works with leaves its type or its limit.             *)
THEOREM QATypes == QASafety => []QATypeOK
<1>1. QIInv => QATypeOK
  BY DEF QIInv, QAInv
<1> QED
  BY <1>1, QAInvariant, PTL

(* A question asks the model at most MaxTurns times, the forced answer     *)
(* included.                                                               *)
THEOREM QATurns == QASafety => []ModelCallsWithinTurns
<1>1. QIInv => ModelCallsWithinTurns
  BY DEF QIInv, BudgetOK
<1> QED
  BY <1>1, QAInvariant, PTL

(* A call that has brought data is never dispatched again.                 *)
THEOREM QANotRepeated == QASafety => []KnownCallsNotRepeated
<1>1. QIInv => KnownCallsNotRepeated
  BY DEF QIInv, QAInv
<1> QED
  BY <1>1, QAInvariant, PTL

(* A plain read of a proper range, and one with context_lines or a symbol  *)
(* whose result reaches the first line asked for, brings a line that no    *)
(* turn has shown.                                                         *)
THEOREM QANewLines == QASafety => []ReadsBringNewLines
<1>1. QIInv => ReadsBringNewLines
  BY DEF QIInv, QAInv
<1> QED
  BY <1>1, QAInvariant, PTL

----------------------------------------------------------------------------
(* The end of a question.                                                  *)

(* How many steps run can still take: a turn is three, the forced answer   *)
(* one.                                                                    *)
QAWork ==
    CASE step = "done"  -> 0
      [] step = "final" -> 1
      [] step = "top"   -> 3 * (MaxTurns - turn_count)
      [] step = "tool"  -> 3 * (MaxTurns - turn_count) + 1
      [] step = "model" -> 3 * (MaxTurns - turn_count) + 2

(* While a question has not ended, a step is left.                        *)
LEMMA QAWorkType ==
    ASSUME QIInv PROVE QAWork \in Nat /\ (QAWork = 0 => step = "done")
<1>1. /\ turn_count \in Nat /\ MaxTurns \in Nat
      /\ step \in {"top", "model", "tool"} => turn_count < MaxTurns
      /\ step \in {"top", "model", "tool", "final", "done"}
  BY ConfigAssumption
     DEF QIInv, QAInv, QATypeOK, GuardrailsTypeOK, BudgetOK
<1> QED
  BY <1>1 DEF QAWork

LEMMA QAWorkStep ==
    ASSUME QIInv, QANext PROVE QAWork' < QAWork
<1>0. /\ turn_count \in Nat /\ MaxTurns \in Nat
      /\ step \in {"top", "model", "tool"} => turn_count < MaxTurns
  BY ConfigAssumption
     DEF QIInv, QAInv, QATypeOK, GuardrailsTypeOK, BudgetOK
<1> USE DEF QAWork
<1>1. CASE QABeginTurn
  BY <1>0, <1>1 DEF QABeginTurn
<1>2. CASE QALimit
  BY <1>0, <1>2 DEF QALimit
<1>3. CASE Overflow \/ EmptyToolCall \/ AnswerRejected \/ DuplicateRefused
  BY <1>0, <1>3
     DEF Overflow, EmptyToolCall, AnswerRejected, DuplicateRefused, guardrails
<1>4. CASE Malformed \/ ModelFailed \/ AnswerTaken
  BY <1>0, <1>4 DEF Malformed, ModelFailed, AnswerTaken, Stop, guardrails
<1>5. CASE DuplicateAnswered \/ ToolLimit
  BY <1>0, <1>5 DEF DuplicateAnswered, ToolLimit
<1>6. CASE Dispatch
  BY <1>0, <1>6 DEF Dispatch
<1>7. CASE ToolAnswers \/ ToolFindsNothing
  <2>1. step = "tool" /\ step' = "top" /\ turn_count' = turn_count
    <3> HIDE DEF QAWork
    <3> QED
      BY <1>7 DEF ToolAnswers, ToolFindsNothing, guardrails
  <2> QED
    BY <1>0, <2>1
<1>8. CASE ForcedAnswer
  BY <1>8 DEF ForcedAnswer
<1>9. CASE RunRaises
  <2>1. QAWork \in Nat /\ (QAWork = 0 => step = "done")
    BY QAWorkType
  <2>2. step # "done" /\ QAWork' = 0
    BY <1>9 DEF RunRaises
  <2> HIDE DEF QAWork
  <2> QED
    BY <2>1, <2>2
<1> QED
  BY <1>1, <1>2, <1>3, <1>4, <1>5, <1>6, <1>7, <1>8, <1>9 DEF QANext

(* Whatever the model answers, each step of run lessens QAWork, which is   *)
(* 3 * MaxTurns when a question is put and never falls below zero: run     *)
(* ends within that many steps.                                            *)
QuestionShrinks ==
    /\ QAWork = 3 * MaxTurns
    /\ [](QAWork \in Nat /\ (QAWork = 0 => step = "done"))
    /\ [][QAWork' < QAWork]_qvars

(* A question is answered or given up within 3 * MaxTurns steps of run.    *)
THEOREM QuestionEnds == QASafety => QuestionShrinks
<1>1. QAInit => QAWork = 3 * MaxTurns
  BY ConfigAssumption DEF QAInit, GuardrailsInit, QAWork
<1>2. QIInv => QAWork \in Nat /\ (QAWork = 0 => step = "done")
  BY QAWorkType
<1>3. QIInv /\ [QANext]_qvars => [QAWork' < QAWork]_qvars
  BY QAWorkStep
<1> QED
  BY <1>1, <1>2, <1>3, QAInvariant, PTL DEF QASafety, QuestionShrinks
=============================================================================
