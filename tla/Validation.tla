----------------------------- MODULE Validation -----------------------------
(***************************************************************************)
(* Output contracts (llm/src/validation.rs): which checks of a contract the   *)
(* text of a model fails.  A text is a sequence of words <<kind, number>>:     *)
(*   "step" and "first"      "Step 1:" at a line's start, "First,"             *)
(*   "mark"                  a list marker such as "2." at a line's start       *)
(*   "num"                   a number, in hundredths                           *)
(*   "conclusion", "therefore"                        with their colon         *)
(*   "uncertain", "unsure"   "UNCERTAIN:" with a reason, and without            *)
(*   "doubt"                 the word without the colon                        *)
(*   "confidence", "high", "low"   the word, "high confidence", "low ..."      *)
(*   "capability", "unknown" a capability of the contract, or of no contract    *)
(*   "ref", "category", "field"    the n-th of the contract's list             *)
(*   "wide"                  a word that is longer in upper case, by a word      *)
(*   "line"                  the end of a line                                 *)
(*   "text"                  TextWords words of prose                          *)
(***************************************************************************)
EXTENDS Integers, SequencesExt

CONSTANT TextWords

Word == STRING \X Nat

Has(out, kinds) == \E i \in DOMAIN out : out[i][1] \in kinds

Count(out, kinds) == Cardinality({i \in DOMAIN out : out[i][1] \in kinds})

\* What str::parse makes of a word: "2." is a number too.
IsNumber(w) == w[1] \in {"num", "mark"}
Value(w) == IF w[1] = "mark" THEN 100 * w[2] ELSE w[2]

Words(out) ==
    FoldLeft(LAMBDA n, w : n + CASE w[1] = "text" -> TextWords
                                 [] w[1] \in {"uncertain", "high", "low"} -> 2
                                 [] w[1] = "line" -> 0
                                 [] OTHER -> 1, 0, out)

When(condition, check) == IF condition THEN {check} ELSE {}

-----------------------------------------------------------------------------
\* count_numbered_list: markers count only in order.
ListSteps(out) == FoldLeft(LAMBDA n, w : IF w = <<"mark", n + 1>> THEN n + 1 ELSE n, 0, out)

StepCount(out, format) ==
    CASE format = "Loose" -> Count(out, {"step", "first"})
      [] format = "StepNColon" -> Count(out, {"step"})
      [] format = "NumberedList" -> ListSteps(out)

ReasoningFailures(out, c) ==
    LET concludes == Has(out, {"conclusion", "therefore"})
        unsure == Has(out, {"uncertain", "unsure"})
        steps == StepCount(out, c.format)
    IN  When(unsure /\ c.uncertainty /\ ~Has(out, {"uncertain"}), "uncertain_reason")
        \cup When(c.conclusion /\ concludes /\ steps = 0, "requires_reasoning_steps")
        \cup When(c.conclusion /\ ~concludes /\ ~(c.uncertainty /\ unsure), "requires_conclusion")
        \cup When(steps > c.max, "max_steps")

-----------------------------------------------------------------------------
\* "1." is looked for anywhere: "11." and "1.5" contain it.
Shows(w, i) ==
    \/ w[1] = "mark" /\ (w[2] = i \/ (i < 10 /\ w[2] > 10 /\ w[2] % 10 = i))
    \/ w[1] = "num" /\ w[2] % 100 # 0 /\ w[2] \div 100 = i

\* count_numbered_steps: the numbers from 1 up to the first that is not there.
NumberedSteps(out) ==
    Max({n \in 0 .. 20 : \A i \in 1 .. n : \E j \in DOMAIN out : Shows(out[j], i)})

PlanningFailures(out, c) ==
    LET steps == NumberedSteps(out)
        checked == c.refs /\ c.capabilities # {}
    IN  When(c.ordered /\ steps = 0, "requires_ordered_steps")
        \cup When(c.ordered /\ steps > c.max, "max_steps")
        \cup When(checked /\ ~\E i \in DOMAIN out : out[i][1] = "capability" /\ out[i][2] \in c.capabilities,
                  "requires_capability_refs")
        \cup When(checked /\ Has(out, {"unknown"}), "unknown_capability")

-----------------------------------------------------------------------------
\* 10 to 100 are percentages.
Percentages == 1000 .. 10000

Normal(v) == IF v \in Percentages THEN v \div 100 ELSE v

\* extract_scores: every number but one that follows a mention of confidence.
Scores(out) ==
    LET judged == {i \in DOMAIN out :
                      IsNumber(out[i]) /\ ~(i > 1 /\ out[i - 1][1] \in {"confidence", "high", "low"})}
    IN  [n \in 1 .. Cardinality(judged) |->
            Normal(Value(out[CHOOSE i \in judged : Cardinality({j \in judged : j =< i}) = n]))]

EvaluationFailures(out, c) ==
    LET scores == Scores(out)
        n == Len(scores)
    IN  When(n = 0, "scores")
        \cup When(\E i \in 1 .. n : scores[i] \notin c.range, "score_range")
        \cup When(n > 0 /\ (n < c.least \/ (c.exactly /\ n # c.least)), "score_cardinality")
        \cup When(c.confidence /\ ~Has(out, {"confidence", "high", "low"}), "confidence_required")
        \cup When(c.justification /\ Words(out) =< 5 * Max({n, 1}), "justification_required")
        \cup When(c.grounding # {} /\ ~\E i \in DOMAIN out : out[i][1] = "ref" /\ out[i][2] \in c.grounding,
                  "grounding_refs")

-----------------------------------------------------------------------------
ClassificationFailures(out, c) ==
    LET found == {k \in c.categories : \E i \in DOMAIN out : out[i] = <<"category", k>>}
    IN  When(c.categories # {} /\ found = {}, "valid_categories")
        \cup When(~c.multi /\ Cardinality(found) > 1, "multi_label")
        \cup When(c.confidence /\ ~Has(out, {"confidence"}), "confidence_required")

ExtractionFailures(out, c) ==
    When(\E f \in c.required : ~\E i \in DOMAIN out : out[i] = <<"field", f>>, "required_field")

FreeformFailures(out, c) == When(Words(out) > c.max, "max_tokens")

Failures(out, c) ==
    CASE c.type = "Reasoning" -> ReasoningFailures(out, c)
      [] c.type = "Planning" -> PlanningFailures(out, c)
      [] c.type = "Evaluation" -> EvaluationFailures(out, c)
      [] c.type = "Classification" -> ClassificationFailures(out, c)
      [] c.type = "Extraction" -> ExtractionFailures(out, c)
      [] c.type = "Freeform" -> FreeformFailures(out, c)

Valid(out, c) == Failures(out, c) = {}
=============================================================================
