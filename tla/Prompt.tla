------------------------------- MODULE Prompt -------------------------------
(***************************************************************************)
(* Prompts (llm/src/prompt.rs, bridge.rs): the structured state handed to the *)
(* model, the contracts with the hints that announce them, and the rendering.  *)
(* A value is a pair of a kind and a number.                                  *)
(***************************************************************************)
EXTENDS Integers, SequencesExt, TLC

\* Inserting the entries of f into the map g.
Over(f, g) == [k \in DOMAIN f \cup DOMAIN g |-> IF k \in DOMAIN f THEN f[k] ELSE g[k]]

\* StateInjection: scalars and lists by key, and a list of records.
EmptyState == [scalars |-> [k \in {} |-> 0], lists |-> [k \in {} |-> 0], records |-> <<>>]

WithScalar(s, k, v) == [scalars |-> Over([l \in {k} |-> v], s.scalars), lists |-> s.lists, records |-> s.records]

WithList(s, k, vs) == [scalars |-> s.scalars, lists |-> Over([l \in {k} |-> vs], s.lists), records |-> s.records]

\* Mutant: the other's lists take the place of all lists.
MergeReplaces(s, o) ==
    [scalars |-> Over(o.scalars, s.scalars), lists |-> o.lists, records |-> s.records \o o.records]

\* StateInjectionExt::merge: the other's entries replace those of the same key.
Merge(s, o) ==
    [scalars |-> Over(o.scalars, s.scalars), lists |-> Over(o.lists, s.lists),
     records |-> s.records \o o.records]

IsEmpty(s) == DOMAIN s.scalars = {} /\ DOMAIN s.lists = {} /\ s.records = <<>>

\* PolarsMetrics::to_state_injection: numbers, then categories, then flags are
\* scalars; rankings are lists; a summary is a record.
FromMetrics(m) ==
    [scalars |-> Over(m.flags, Over(m.categories, m.scalars)), lists |-> m.rankings,
     records |-> m.summaries]

\* StateInjection::render: the entries of a hash map come in any order, which
\* need not be the same for two maps that are equal.
Renderings(s) ==
    {[scalars |-> ks, lists |-> ls, state |-> s] :
        ks \in SetToSeqs(DOMAIN s.scalars), ls \in SetToSeqs(DOMAIN s.lists)}

-----------------------------------------------------------------------------
(* Contracts.                                                                *)

Reasoning(format) ==
    [type |-> "Reasoning", conclusion |-> TRUE, uncertainty |-> TRUE, max |-> 5, format |-> format]

Planning(capabilities) ==
    [type |-> "Planning", ordered |-> TRUE, max |-> 10, refs |-> capabilities # {},
     capabilities |-> capabilities]

\* A score lies between 0 and 1, in hundredths.
Evaluation(grounding) ==
    [type |-> "Evaluation", range |-> 0 .. 100, confidence |-> TRUE, justification |-> TRUE,
     least |-> 1, exactly |-> FALSE, grounding |-> grounding]

Classification(categories, multi) ==
    [type |-> "Classification", categories |-> categories, confidence |-> TRUE, multi |-> multi]

Extraction(required) == [type |-> "Extraction", required |-> required]

Freeform(max) == [type |-> "Freeform", max |-> max]

Contract ==
    [type : {"Reasoning"}, conclusion : BOOLEAN, uncertainty : BOOLEAN, max : Nat,
     format : {"Loose", "StepNColon", "NumberedList"}]
    \cup [type : {"Planning"}, ordered : BOOLEAN, max : Nat, refs : BOOLEAN, capabilities : SUBSET Nat]
    \cup [type : {"Evaluation"}, range : SUBSET Int, confidence : BOOLEAN, justification : BOOLEAN,
          least : Nat, exactly : BOOLEAN, grounding : SUBSET Nat]
    \cup [type : {"Classification"}, categories : SUBSET Nat, confidence : BOOLEAN, multi : BOOLEAN]
    \cup [type : {"Extraction"}, required : SUBSET Nat]
    \cup [type : {"Freeform"}, max : Nat]

TaskFrame(step) ==
    CASE step = "Reasoning" -> [task |-> "reason", contract |-> Reasoning("Loose")]
      [] step = "Evaluation" -> [task |-> "evaluate", contract |-> Evaluation({})]
      [] step = "Planning" -> [task |-> "plan", contract |-> Planning({})]

Said(condition, hints) == IF condition THEN hints ELSE {}

\* Mutant: a grounded evaluation does not say what to refer to.
PromptHintNoGrounding(c) ==
    IF c.type = "Evaluation" THEN {"range", "confidence", "justification"} ELSE {}

\* OutputContract::as_prompt_hint: what the prompt says of the contract.
PromptHint(c) ==
    CASE c.type = "Reasoning" ->
            {"steps"} \cup Said(c.conclusion, {"end_with_conclusion"})
                      \cup Said(c.uncertainty, {"uncertain_with_reason"}) \cup {"at_most"}
      [] c.type = "Planning" ->
            Said(c.ordered, {"numbered"}) \cup {"at_most"} \cup Said(c.refs, {"capabilities"})
      [] c.type = "Evaluation" ->
            {"range"} \cup Said(c.exactly \/ c.least > 1, {"how_many"})
                      \cup Said(c.confidence, {"confidence"})
                      \cup Said(c.justification, {"justification"})
                      \cup Said(c.grounding # {}, {"refer_to"})
      [] c.type = "Classification" ->
            Said(c.categories # {}, {"categories"}) \cup Said(c.confidence, {"confidence"})
                      \cup Said(~c.multi, {"exactly_one"})
      [] c.type = "Extraction" -> Said(c.required # {}, {"fields"})
      [] c.type = "Freeform" -> {"at_most"}

\* PromptStack::render: priming and policy do not depend on the request; the
\* state is left out when it is empty.
Render(frame, rendering, intent) ==
    [task |-> frame.task, hints |-> PromptHint(frame.contract),
     state |-> IF IsEmpty(rendering.state) THEN {} ELSE {rendering}, intent |-> intent]
=============================================================================
