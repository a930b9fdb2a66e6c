---------------------------- MODULE DecisionChain ----------------------------
(***************************************************************************)
(* The decision chain (llm/src/chain.rs, kernel.rs, execution_plan.rs,        *)
(* trace.rs): a request is compiled into a plan of three steps, each of which  *)
(* prompts the model, checks its output against a contract and hands signals   *)
(* to the next, and the outcome becomes a proposal with a statement of how far *)
(* it can be replayed.                                                        *)
(* The model is a function of prompt and envelope when the envelope is          *)
(* deterministic, and may say anything otherwise.                             *)
(***************************************************************************)
EXTENDS Validation, Prompt

CONSTANTS
    Outputs,      \* Outputs[step]: the texts the model may answer in a step
    Requests,     \* the requests, as records of a task, a context, a policy, a ChainConfig
                  \* as a set, whether it comes from afar and times, the bound on how often
                  \* it is made
    ExactFloat,   \* the numbers a float holds exactly: 2^53 in the code
    MaxDepth,     \* bound: how deep the objects of a context are nested
    Judged        \* pairs of a contract and a text that other callers validate

ASSUME ChainAssumption ==
    /\ MaxDepth \in Nat /\ ExactFloat \in Nat
    /\ \A j \in Judged : j.contract \in Contract /\ j.output \in Seq(Word)
    /\ \A step \in {"Reasoning", "Evaluation", "Planning"} : Outputs[step] \subseteq Seq(Word)

\* What a fact is called in the state.
FactKey(f) == "fact:" \o f.key

\* Two keys of facts give two names, none of which a step's signals have; a caller
\* that brings its own configuration gives a state and no facts.
FactsNamed(request) ==
    LET facts == request.context.facts IN
    /\ facts \in Seq(Range(facts)) /\ (request.config # {} => facts = <<>>)
    /\ \A f, g \in Range(facts) : FactKey(f) = FactKey(g) => f.key = g.key
    /\ \A f \in Range(facts) : FactKey(f) # "observations"

ASSUME RequestAssumption == \A request \in Requests : FactsNamed(request)

VARIABLES
    pc,        \* "idle", the step that runs, "propose", or "judged"
    req,       \* the request
    state,     \* the state injection of the running step
    chain,     \* the DecisionChain
    answer,    \* the proposal of the last request
    before,    \* the request before with its chain and its proposal, as a set
    counter,   \* the next chain id
    judged     \* the pair that was validated last, as a set

vars == <<pc, req, state, chain, answer, before, counter, judged>>

Steps == <<"Reasoning", "Evaluation", "Planning">>

NoChain == [id |-> 0, traces |-> <<>>, completed |-> FALSE, failed |-> "none", final |-> <<>>]

NoAnswer == [id |-> -1]

Init ==
    /\ pc = "idle" /\ req \in Requests
    /\ state = EmptyState /\ chain = NoChain /\ answer = NoAnswer
    /\ before = {} /\ counter = 0 /\ judged = {}

-----------------------------------------------------------------------------
(* The plan and the initial state.                                           *)

Envelope(policy) ==
    [temperature |-> IF policy.seeded THEN 0 ELSE 1,
     seed |-> IF policy.seeded THEN "fixed" ELSE "random", adapter |-> policy.adapter]

Deterministic(envelope) == envelope.seed = "fixed" /\ envelope.temperature = 0

\* ExecutionPlan::compile.
Compile(policy, task) ==
    [steps |-> [i \in 1 .. 3 |->
                  [step |-> Steps[i], contract |-> <<Reasoning("Loose"), Evaluation({}), Planning({})>>[i],
                   intent |-> <<CASE i = 1 -> task [] i = 2 -> "evaluate" [] OTHER -> "plan", {}>>,
                   recall |-> policy.recall /\ i = 1]],
     envelope |-> Envelope(policy)]

\* A 64-bit float holds every whole number up to this one, and then every second.
Float(n) == IF n <= ExactFloat THEN n ELSE 2 * (n \div 2)

InList(json) == json[1] \in {"string", "number"}

StateItem(json) == IF json[1] = "number" THEN <<"number", Float(json[2])>> ELSE json

Under(key, field) == key \o "." \o field

\* The entries of an object under longer keys, in order; another entry is itself.
Opened(entry) ==
    IF entry[2][1] = "object"
    THEN [i \in DOMAIN entry[2][2] |-> <<Under(entry[1], entry[2][2][i][1]), entry[2][2][i][2]>>]
    ELSE <<entry>>

Leaves(entry) ==
    LET found[depth \in 0 .. MaxDepth] ==
            IF depth = 0 THEN <<entry>>
            ELSE FlattenSeq([i \in DOMAIN found[depth - 1] |-> Opened(found[depth - 1][i])])
    IN  found[MaxDepth]

\* The texts and numbers of an array.
Items(list) ==
    FoldLeft(LAMBDA items, json : IF InList(json) THEN Append(items, StateItem(json)) ELSE items, <<>>, list)

InjectLeaf(s, entry) ==
    LET key == entry[1]
        json == entry[2]
    IN  CASE json[1] \in {"number", "string"} -> WithScalar(s, key, StateItem(json))
          [] json[1] = "bool" -> WithScalar(s, key, <<"string", IF json[2] THEN "true" ELSE "false">>)
          [] json[1] = "array" /\ Items(json[2]) # <<>> -> WithList(s, key, Items(json[2]))
          [] OTHER -> s

\* inject_json_value: a number, a text and a flag are scalars, the texts and
\* numbers of an array a list if there are any, the entries of an object are
\* entries under a longer key, null is nothing.  JSON is a pair of kind and value.
Inject(s, entry) == FoldLeft(InjectLeaf, s, Leaves(entry))

\* Every fact in turn, as a list of its own.
WithFacts(s, facts) ==
    LET after[n \in 0 .. Len(facts)] ==
            IF n = 0 THEN s ELSE WithList(after[n - 1], FactKey(facts[n]), <<facts[n].value>>)
    IN  after[Len(facts)]

\* build_state_injection: the state's entries in any order, then the facts.
BuildState(context, entries) ==
    WithFacts(FoldLeft(Inject, EmptyState, entries), context.facts)

\* The kernel reads a context; a caller of the chain alone gives it a state, which
\* may be made of metrics.
InitialStates(request) ==
    IF request.config # {} THEN {FromMetrics(m) : m \in request.context.state}
    ELSE {BuildState(request.context, entries) : entries \in SetToSeqs(request.context.state)}

\* KernelRunner::run, and ChainExecutor::run.
Run(request) ==
    /\ pc = "idle" /\ counter < request.times
    /\ pc' = "Reasoning" /\ req' = request
    /\ state' \in InitialStates(request)
    /\ chain' = [NoChain EXCEPT !.id = counter]
    /\ counter' = counter + 1
    /\ answer' = NoAnswer
    /\ before' = IF answer = NoAnswer THEN {} ELSE {[req |-> req, chain |-> chain, answer |-> answer]}
    /\ UNCHANGED judged

\* What matters of two requests is whether the second replays the first: a local
\* request that follows another repeats it.
Begin == ~req.remote /\ Run(req)

-----------------------------------------------------------------------------
(* A step.                                                                   *)

First(out, kinds) == Min({i \in DOMAIN out : out[i][1] \in kinds})

\* What is left of the line from a word on: a step or a marker begins a line itself.
RestOfLine(out, from) ==
    LET ends == {i \in DOMAIN out : i >= from /\ out[i][1] \in {"line", "step", "mark"}}
    IN  SubSeq(out, from, IF ends = {} THEN Len(out) ELSE Min(ends) - 1)

\* The place behind the first marker is that in the upper-case text, so each word
\* before it that grows there moves it into the text behind.
Behind(out) ==
    LET at == First(out, {"conclusion"})
    IN  at + 1 + Cardinality({i \in 1 .. at - 1 : out[i][1] = "wide"})

\* The text cannot be cut behind its end.
CanCut(out) == Has(out, {"conclusion"}) => Behind(out) =< Len(out) + 1

\* extract_reasoning_signals: the rest of the marker's line, if there is any.
ReasoningSignals(out) ==
    LET text == IF Has(out, {"conclusion"}) THEN RestOfLine(out, Behind(out)) ELSE <<>>
        concluded == IF text = <<>> THEN <<>> ELSE <<<<"conclusion", text>>>>
        flagged == IF Has(out, {"uncertain", "unsure", "doubt"}) THEN <<<<"uncertainty_flagged", 0>>>> ELSE <<>>
    IN  [observations |-> concluded \o flagged, score |-> {}]

\* The places of the numbers between 0 and 1.
Fit(out) == {i \in DOMAIN out : IsNumber(out[i]) /\ Value(out[i]) \in 0 .. 100}

\* extract_evaluation_signals: the first of them is the score.
EvaluationSignals(out) ==
    [observations |-> IF Has(out, {"high"}) THEN <<<<"high_confidence", 0>>>>
                     ELSE IF Has(out, {"low"}) THEN <<<<"low_confidence", 0>>>> ELSE <<>>,
     score |-> IF Fit(out) = {} THEN {} ELSE {<<"score", Value(out[Min(Fit(out))])>>}]

Signals(step, out) ==
    CASE step = "Reasoning" -> ReasoningSignals(out)
      [] step = "Evaluation" -> EvaluationSignals(out)
      [] OTHER -> [observations |-> <<>>, score |-> {}]

\* StepSignals::to_state_injection.
ToInjection(signals) ==
    LET s == IF signals.observations = <<>> THEN EmptyState
             ELSE WithList(EmptyState, "observations", signals.observations)
    IN  IF signals.score = {} THEN s ELSE WithScalar(s, "score", CHOOSE v \in signals.score : TRUE)

\* run_reasoning_step, run_evaluation_step and run_planning_step: a caller that runs
\* the chain without a plan gives intents and criteria of its own.
ConfigStep(step, config) ==
    [step |-> step, contract |-> TaskFrame(step).contract,
     intent |-> <<config.intents[step], config.criteria>>, recall |-> FALSE]

StepPlan(request, step) ==
    IF request.config = {} THEN CHOOSE p \in Range(Compile(request.policy, request.task).steps) : p.step = step
    ELSE ConfigStep(step, CHOOSE config \in request.config : TRUE)

\* run and run_with_plan return the chain; only the kernel makes a proposal of it.
Done == IF req.config = {} THEN "propose" ELSE "idle"

Following(step) ==
    CASE step = "Reasoning" -> "Evaluation" [] step = "Evaluation" -> "Planning" [] OTHER -> Done

\* Generation is a function of the prompt when the envelope is deterministic.
MaySay(prompt, out) ==
    Deterministic(Envelope(req.policy)) =>
        \A b \in before : \A i \in DOMAIN b.chain.traces :
            b.req.policy = req.policy /\ b.chain.traces[i].prompt = prompt
                => b.chain.traces[i].output = out

\* run_step_with_plan and the part of run_with_plan behind it.
RunStep(step, out, rendering) ==
    LET plan == StepPlan(req, step)
        prompt == Render(TaskFrame(step), rendering, plan.intent)
        valid == Valid(out, plan.contract)
        trace == [step |-> step, valid |-> valid, output |-> out, prompt |-> prompt]
        traced == [chain EXCEPT !.traces = Append(@, trace)]
    IN  /\ pc = step
        /\ MaySay(prompt, out)
        /\ valid /\ step = "Reasoning" => CanCut(out)
        /\ pc' = IF valid THEN Following(step) ELSE Done
        /\ state' = IF valid THEN Merge(state, ToInjection(Signals(step, out))) ELSE state
        /\ chain' = IF ~valid THEN [traced EXCEPT !.failed = step]
                    ELSE IF step = "Planning" THEN [traced EXCEPT !.completed = TRUE, !.final = out]
                    ELSE traced
        /\ UNCHANGED <<req, answer, before, counter, judged>>

\* The engine fails, or the text cannot be cut where its upper case says: the
\* chain and its traces are gone.
StepFails ==
    /\ pc \in Range(Steps)
    /\ pc' = "idle" /\ chain' = NoChain /\ state' = EmptyState
    /\ UNCHANGED <<req, answer, before, counter, judged>>

-----------------------------------------------------------------------------
(* The proposal.                                                             *)

\* Mutant: the seed alone is not looked at.
ReplayabilityOfRecall(policy, recall) ==
    IF recall = {} THEN "Deterministic" ELSE "BestEffort"

\* compute_replayability; the chain performs no recall, so there is no metadata.
Replayability(policy, recall) ==
    LET reasons == When(~policy.seeded, "NoSeedProvided")
                   \cup UNION {When(~m.deterministic, "RecallEmbedderNotDeterministic")
                               \cup When(~m.addressed, "RecallCorpusNotContentAddressed") : m \in recall}
    IN  IF reasons = {} THEN "Deterministic" ELSE "BestEffort"

\* build_proposals and build_trace_link.  Confidence is in thirtieths.
Proposal(c, request) ==
    [id |-> c.id,
     kind |-> IF c.completed THEN "Plan" ELSE "Reasoning",
     payload |-> IF c.completed THEN c.final ELSE Last(c.traces).output,
     results |-> [i \in DOMAIN c.traces |-> c.traces[i].valid],
     truths |-> [t \in request.policy.truths |-> c.completed],
     confidence |-> IF c.completed THEN 27 ELSE 10 * Cardinality({i \in DOMAIN c.traces : c.traces[i].valid}),
     human |-> request.policy.human,
     replayability |-> Replayability(request.policy, {})]

\* Mutant: an incomplete chain shows its first text.
BuildProposalFirst ==
    /\ pc = "propose"
    /\ answer' = [Proposal(chain, req) EXCEPT !.payload = IF chain.completed THEN @ ELSE chain.traces[1].output]
    /\ pc' = "idle"
    /\ UNCHANGED <<req, state, chain, before, counter, judged>>

\* The kernel makes one proposal of the chain.
BuildProposal ==
    /\ pc = "propose"
    /\ answer' = Proposal(chain, req)
    /\ pc' = "idle"
    /\ UNCHANGED <<req, state, chain, before, counter, judged>>

\* validate_output is also called from elsewhere, with any contract.
Judge(j) ==
    /\ pc = "idle"
    /\ pc' = "judged" /\ judged' = {j}
    /\ UNCHANGED <<req, state, chain, answer, before, counter>>

Next ==
    \/ Begin
    \/ \E step \in Range(Steps), rendering \in Renderings(state) :
          \E out \in Outputs[step] : RunStep(step, out, rendering)
    \/ StepFails \/ BuildProposal
    \/ req.times = 0 /\ \E j \in Judged : Judge(j)

Spec == Init /\ [][Next]_vars

-----------------------------------------------------------------------------
(* Properties.                                                               *)

Tasks == [i \in DOMAIN chain.traces |-> chain.traces[i].step]

\* A proposal says of the request what its chain went through: a plan means three
\* valid steps, it and nothing else lets the required truths pass, anything else
\* names the one invalid step, the last, gives its text and less confidence
\* (run_with_plan, fail_at, build_proposals).
ProposalSpeaksForChain ==
    answer # NoAnswer /\ pc = "idle" /\ chain.id = answer.id =>
        LET n == Len(chain.traces) IN
        /\ Tasks = SubSeq(Steps, 1, n)
        /\ \A i \in 1 .. n - 1 : answer.results[i]
        /\ answer.kind = "Plan" <=> n = 3 /\ answer.results[3]
        /\ \A t \in req.policy.truths : answer.truths[t] <=> answer.kind = "Plan"
        /\ answer.kind = "Reasoning" => ~answer.results[n] /\ chain.failed = Steps[n]
        /\ answer.kind = "Plan" <=> answer.confidence > 20
        /\ answer.payload = chain.traces[n].output
        /\ answer.human = req.policy.human

Output(step) == chain.traces[IF step = "Reasoning" THEN 1 ELSE 2].output

\* What reasoning concluded: what follows the first marker in its line.
Concluded(out) ==
    IF Has(out, {"conclusion"}) THEN RestOfLine(out, First(out, {"conclusion"}) + 1) ELSE <<>>

\* Planning is given what was said before: the conclusion that reasoning marked, word
\* for word, unless its line ends with the marker, the evaluation spoke of its
\* confidence, which is put in the same place, or an upper-case form shifted the text;
\* every fact, unless a later one has its
\* key; and, if the evaluation has a number between 0 and 1, a score, which is one
\* that the validator judged unless it follows a mention of confidence, for the two
\* read the numbers of one text by different rules (to_state_injection, merge,
\* build_state_injection, extract_evaluation_signals).
PlanningKnowsWhatWasSaid ==
    pc = "Planning" =>
        /\ Concluded(Output("Reasoning")) # <<>> /\ ~Has(Output("Reasoning"), {"wide"})
           /\ ~Has(Output("Evaluation"), {"high", "low"})
             => /\ "observations" \in DOMAIN state.lists
                /\ <<"conclusion", Concluded(Output("Reasoning"))>> \in Range(state.lists["observations"])
        /\ \A i \in DOMAIN req.context.facts :
             (\A j \in DOMAIN req.context.facts : j > i => req.context.facts[j].key # req.context.facts[i].key)
               => LET key == FactKey(req.context.facts[i]) IN
                  key \in DOMAIN state.lists /\ state.lists[key] = <<req.context.facts[i].value>>
        /\ LET out == Output("Evaluation")
               at == Min(Fit(out))
           IN  Fit(out) # {} =>
                  /\ "score" \in DOMAIN state.scalars
                  /\ ~(at > 1 /\ out[at - 1][1] \in {"confidence", "high", "low"})
                     => state.scalars["score"][2] \in Range(Scores(out))

\* The states a prompt shows: one, or none if it was empty.
Shown(prompt) == {r.state : r \in prompt.state}

SamePlaces(b) ==
    \A i \in DOMAIN chain.traces \cap DOMAIN b.chain.traces :
        LET p == chain.traces[i].prompt
            q == b.chain.traces[i].prompt
        IN  i = 1 \/ Shown(p) = Shown(q) => p = q

\* Two requests that are alike and claim to be deterministic give the same proposal,
\* if they begin with the same prompt (entries of a context that come to one key may
\* leave different states) and later render equal states in the same order
\* (compute_replayability).
ReplayGivenOrder ==
    \A b \in before :
        answer # NoAnswer /\ b.req = req /\ b.answer.replayability = "Deterministic" /\ SamePlaces(b)
            => [answer EXCEPT !.id = 0] = [b.answer EXCEPT !.id = 0]

Announces(hints, check) ==
    CASE check \in {"requires_reasoning_steps"} -> "steps" \in hints
      [] check = "requires_conclusion" -> "end_with_conclusion" \in hints
      [] check = "uncertain_reason" -> "uncertain_with_reason" \in hints
      [] check \in {"max_steps", "max_tokens"} -> "at_most" \in hints
      [] check = "requires_ordered_steps" -> "numbered" \in hints
      [] check \in {"requires_capability_refs", "unknown_capability"} -> "capabilities" \in hints
      [] check \in {"scores", "score_range"} -> "range" \in hints
      [] check = "score_cardinality" -> "how_many" \in hints
      [] check = "confidence_required" -> "confidence" \in hints
      [] check = "justification_required" -> "justification" \in hints
      [] check = "grounding_refs" -> "refer_to" \in hints
      [] check = "valid_categories" -> "categories" \in hints
      [] check = "multi_label" -> "exactly_one" \in hints
      [] check = "required_field" -> "fields" \in hints

\* The validator fails a text only on what the prompt told the model
\* (validate_output, OutputContract::as_prompt_hint).
ChecksAreAnnounced ==
    \A j \in judged : \A check \in Failures(j.output, j.contract) :
        Announces(PromptHint(j.contract), check)
=============================================================================
