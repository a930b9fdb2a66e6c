----------------------------- MODULE Suggestors -----------------------------
(***************************************************************************)
(* The suggestors backed by a language model, in one run of the engine       *)
(* (llm/src/agent.rs, llm/src/provider.rs, application/src/agents.rs).  The   *)
(* engine is a library: in a cycle it asks suggestors that accept the         *)
(* context, all on the context the cycle began with, and then promotes or     *)
(* rejects what they proposed, at once or after a separate validation.        *)
(* A name and an id are sequences of pieces, the dash being one of them, so    *)
(* that "replan" is <<"re", "plan">> beside an agent named "plan".            *)
(***************************************************************************)
EXTENDS Integers, FiniteSets, SequencesExt

CONSTANTS
    Agent,      \* the registered suggestors
    Kind,       \* Kind[a]: "llm", "provider", "strategic" or "risk"
    Name,       \* Name[a]: its name, as pieces
    Target,     \* Target[a]: the context key an llm or provider agent writes
    Needs,      \* Needs[a]: the keys a provider agent reads
    Prefix,     \* Prefix[a]: the pieces its parser begins ids with
    Parser,     \* Parser[a]: "simple" or "lines"
    Role,       \* Role[a]: the role whose backend it is given
    Backends,   \* roles the router has a provider for
    HasDefault, \* the router has a default provider
    Usable,     \* which lines of an answer can be of use: a set of sets of numbers
    MaxCalls    \* bound: calls of a language model

Key == {"Seeds", "Strategies", "Evaluations", "Hypotheses", "Constraints", "Diagnostic"}

ASSUME SuggestorAssumption ==
    /\ Kind \in [Agent -> {"llm", "provider", "strategic", "risk"}]
    /\ "other" \notin Agent /\ Name \in [Agent -> Seq(STRING)] /\ Prefix \in [Agent -> Seq(STRING)]
    /\ Target \in [Agent -> Key] /\ Needs \in [Agent -> SUBSET Key] /\ Parser \in [Agent -> {"simple", "lines"}]
    /\ HasDefault \in BOOLEAN /\ MaxCalls \in Nat /\ Usable \subseteq SUBSET Nat

VARIABLES
    facts,      \* promoted facts: key, id, and who proposed them in which call
    pending,    \* proposals that are neither promoted nor rejected
    effects,    \* what was proposed in this cycle
    asked,      \* the suggestors asked in this cycle
    calls,      \* how often a language model was called
    later       \* proposals may stay pending over a cycle

vars == <<facts, pending, effects, asked, calls, later>>

TypeOK ==
    /\ \A f \in facts \cup pending \cup effects :
        f.key \in Key /\ f.by \in Agent \cup {"other"} /\ f.call \in 0..MaxCalls
    /\ asked \subseteq Agent /\ calls \in 0..MaxCalls /\ later \in BOOLEAN

Init ==
    /\ facts = {} /\ pending = {} /\ effects = {} /\ asked = {} /\ calls = 0
    /\ later \in BOOLEAN

Has(key) == \E f \in facts : f.key = key

----------------------------------------------------------------------------
(* Which contexts a suggestor accepts *)

Dashed(name) == name \o <<"-">>

\* No id ends with a dash, so something follows the prefix looked for.
StartsWith(id, prefix) == IsStrictPrefix(prefix, id)
Includes(id, prefix) ==
    \E i \in 0..(Len(id) - Len(prefix) - 1) : SubSeq(id, i + 1, i + Len(prefix)) = prefix

LlmAccepts(a) ==
    /\ Has("Seeds")
    /\ ~\E p \in pending : p.key = Target[a] /\ Includes(p.id, Dashed(Name[a]))
    /\ ~\E f \in facts : f.key = Target[a] /\ StartsWith(f.id, Dashed(Name[a]))

\* Mutant: every fact under the key counts as its own.
ProviderAcceptsIfEmpty(a) == (\E key \in Needs[a] : Has(key)) /\ ~Has(Target[a])

ProviderAccepts(a) ==
    /\ \E key \in Needs[a] : Has(key)
    /\ ~\E f \in facts : f.key = Target[a] /\ StartsWith(f.id, Dashed(Name[a]))

StrategicAccepts == Has("Evaluations") /\ ~Has("Hypotheses")

RiskAccepts == Has("Strategies") /\ Has("Evaluations") /\ ~Has("Constraints")

Accepts(a) ==
    \/ Kind[a] = "llm" /\ LlmAccepts(a)
    \/ Kind[a] = "provider" /\ ProviderAccepts(a)
    \/ Kind[a] = "strategic" /\ StrategicAccepts
    \/ Kind[a] = "risk" /\ RiskAccepts

Writes(a) ==
    IF Kind[a] = "strategic" THEN "Hypotheses"
    ELSE IF Kind[a] = "risk" THEN "Constraints"
    ELSE Target[a]

----------------------------------------------------------------------------
(* What a suggestor proposes *)

\* A call fails, or its answer has some lines of use (which may be none).
Error == [ok |-> FALSE, lines |-> {}]
Answer == {Error} \cup [ok : {TRUE}, lines : Usable]

\* The router gives the provider of the role or the default one, or fails.
Complete(role) == IF role \in Backends \/ HasDefault THEN Answer ELSE {Error}

\* An LlmAgent builds a model for each call and loads no weights: it always fails.
RunInference == {Error}

Chat(a) == IF Kind[a] = "llm" THEN RunInference ELSE Complete(Role[a])

LlmIds(a) == {<<"Diagnostic", Dashed(Name[a]) \o <<"error">>>>}

\* The time in the id differs from call to call.
SimpleParser(a, answer, call) ==
    IF answer.lines = {} THEN {} ELSE {<<Target[a], Dashed(Prefix[a]) \o <<ToString(call)>>>>}

\* Mutant: the id has the prefix of the default parser.
MultiLineParserDefault(a, answer) ==
    {<<Target[a], <<"llm", "-", ToString(i)>>>> : i \in 0..(Cardinality(answer.lines) - 1)}

MultiLineParser(a, answer) ==
    {<<Target[a], Dashed(Prefix[a]) \o <<ToString(i)>>>> : i \in 0..(Cardinality(answer.lines) - 1)}

\* An insight has the number of its line; an error and a useless answer have an id too.
StrategicIds(answer) ==
    LET insights == IF ~answer.ok THEN {"error"}
                    ELSE IF answer.lines = {} THEN {"fallback"}
                    ELSE {ToString(i) : i \in answer.lines}
    IN  {<<"Hypotheses", <<"insight:", i>>>> : i \in insights}

\* Risks are counted.
RiskIds(answer) ==
    LET risks == IF ~answer.ok THEN {<<"error">>}
                 ELSE IF answer.lines = {} THEN {<<"none", "-", "identified">>}
                 ELSE {<<ToString(i)>> : i \in 1..Cardinality(answer.lines)}
    IN  {<<"Constraints", <<"risk:">> \o i>> : i \in risks}

Proposes(a, answer, call) ==
    LET ids == CASE Kind[a] = "llm" -> LlmIds(a)
                 [] Kind[a] = "provider" /\ Parser[a] = "simple" -> SimpleParser(a, answer, call)
                 [] Kind[a] = "provider" /\ Parser[a] = "lines" -> MultiLineParser(a, answer)
                 [] Kind[a] = "strategic" -> StrategicIds(answer)
                 [] Kind[a] = "risk" -> RiskIds(answer)
    IN  {[key |-> i[1], id |-> i[2], by |-> a, call |-> call] : i \in ids}

----------------------------------------------------------------------------
(* The engine *)

\* A suggestor without a model puts a fact into the context.
Other(key) ==
    /\ asked = {} /\ ~Has(key)
    /\ facts' = facts \cup {[key |-> key, id |-> Dashed(<<"other">>) \o <<key>>, by |-> "other", call |-> 0]}
    /\ UNCHANGED <<pending, effects, asked, calls, later>>

Execute(a) ==
    /\ a \notin asked /\ Accepts(a) /\ calls < MaxCalls
    /\ calls' = calls + 1 /\ asked' = asked \cup {a}
    /\ \E answer \in Chat(a) : effects' = effects \cup Proposes(a, answer, calls')
    /\ UNCHANGED <<facts, pending, later>>

\* The first of several facts with one id stays.
Distinct(set) == \A f, g \in set : f.key = g.key /\ f.id = g.id => f = g
Known(p) == \E f \in facts : f.key = p.key /\ f.id = p.id

EndCycle ==
    /\ asked # {} \/ pending # {}
    /\ LET pool == {p \in pending \cup effects : ~Known(p)} IN
       \E promoted \in SUBSET pool, kept \in SUBSET pool :
        /\ promoted \cap kept = {} /\ Distinct(promoted)
        /\ ~later => kept = {}
        /\ facts' = facts \cup promoted /\ pending' = kept
    /\ effects' = {} /\ asked' = {}
    /\ UNCHANGED <<calls, later>>

Next ==
    \/ \E key \in {"Seeds", "Strategies", "Evaluations"} : Other(key)
    \/ \E a \in Agent : Execute(a)
    \/ EndCycle

Spec == Init /\ [][Next]_vars

----------------------------------------------------------------------------
(* Properties *)

Contributions(a, set) == {f \in set : f.by = a /\ f.key = Writes(a)}

OwnPrefix(a) == Kind[a] = "provider" => Prefix[a] = Name[a]

\* What an agent's ids begin with: all but the last piece, which has no dash.
Beginnings(a) ==
    CASE Kind[a] = "llm" -> {Dashed(Name[a])}
      [] Kind[a] = "provider" -> {Dashed(Prefix[a])}
      [] Kind[a] = "strategic" -> {<<"insight:">>}
      [] Kind[a] = "risk" -> {<<"risk:">>, <<"risk:", "none", "-">>}

\* No other id holds this agent's name followed by a dash.
NameApart(a) ==
    \A s \in (UNION {Beginnings(b) : b \in Agent \ {a}}) \cup {Dashed(<<"other">>)} :
        ~Includes(s \o <<"x">>, Dashed(Name[a]))

\* An agent that has its input gives one answer, once (agents.rs:161 "Run once when",
\* agent.rs:120, provider.rs:458).  All that is promoted of it under the key it writes
\* comes from one call of its model: where the engine decides on the proposals of a
\* cycle in that cycle, and of a provider agent whose parser begins ids with the
\* agent's name.  And of the llm and provider agents (agent.rs:117, provider.rs:458)
\* only its own contribution keeps one from being asked: another agent that writes to
\* the same key does not silence it, unless that agent's ids hold its name and a dash,
\* in the middle of a word too.  The strategic and the risk agent are silenced by any
\* hypothesis or constraint, which is what "no hypotheses (insights) yet" says.
EachAnswersOnce ==
    \A a \in Agent :
        /\ ~later /\ OwnPrefix(a) => Cardinality({f.call : f \in Contributions(a, facts)}) <= 1
        /\ /\ Kind[a] \in {"llm", "provider"} /\ NameApart(a)
           /\ IF Kind[a] = "llm" THEN Has("Seeds") ELSE \E key \in Needs[a] : Has(key)
           /\ ~Accepts(a)
           => Contributions(a, facts \cup pending) # {}
=============================================================================
