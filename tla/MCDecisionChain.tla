--------------------------- MODULE MCDecisionChain ---------------------------
(* A small instance of KernelRpc and of DecisionChain, which it extends: texts that pass each contract, fail it, or
   are read differently by the validator and by the chain. *)
EXTENDS KernelRpc

text == <<"text", 0>>
step == <<"step", 1>>
conclusion == <<"conclusion", 0>>
confidence == <<"confidence", 0>>
Mark(n) == <<"mark", n>>
Num(n) == <<"num", n>>

MCOutputs ==
    [Reasoning |-> {<<step, conclusion, text, <<"line", 0>>, text>>, <<step, conclusion, <<"line", 0>>, text>>,
                    <<step, <<"therefore", 0>>>>, <<<<"uncertain", 0>>>>, <<conclusion>>,
                    <<<<"wide", 0>>, step, conclusion, text, <<"doubt", 0>>>>, <<<<"wide", 0>>, step, conclusion>>},
     Evaluation |-> {<<Num(80), confidence, Num(90), text>>, <<confidence, Num(90), Num(80), text>>,
                     <<Num(8000), confidence, text>>, <<Num(8000), confidence, Num(90), text>>, <<Mark(1), Num(50), confidence, text>>,
                     <<Num(150), confidence, text>>, <<Num(80), <<"high", 0>>, text>>},
     Planning |-> {<<Mark(1), Mark(2)>>, <<text>>}]

Number(n) == <<"number", n>>

Entries == {<<"mean", Number(9)>>, <<"top", <<"array", <<Number(1), <<"null", 0>>, Number(2)>>>>>>}

\* Two entries that come to one key.
Colliding == {<<"k.b", <<"bool", TRUE>>>>, <<"k", <<"object", <<<<"b", Number(2)>>>>>>>>}

Metrics ==
    [scalars |-> [score |-> Number(500)], categories |-> [k \in {} |-> 0], flags |-> [k \in {} |-> 0],
     rankings |-> [top |-> <<Number(1), Number(2)>>], summaries |-> <<>>]

Fact(k, v) == [key |-> k, value |-> <<"fact", v>>]

Policy(seeded) ==
    [seeded |-> seeded, recall |-> seeded, adapter |-> {}, truths |-> {"truth"}, human |-> ~seeded]

Request(entries, facts, seeded, times) ==
    [task |-> "task", context |-> [state |-> entries, facts |-> facts], policy |-> Policy(seeded),
     config |-> {}, remote |-> FALSE, times |-> times]

Config == [intents |-> [s \in {"Reasoning", "Evaluation", "Planning"} |-> s], criteria |-> {"criteria"}]

(* Made twice where two orders of the state or two states exist and where none is needed; the
   last two are for the calls from afar and for the texts that are only judged. *)
MCRequests ==
    {Request({}, <<Fact("a", 1)>>, TRUE, 2), Request(Colliding, <<>>, TRUE, 2), Request({}, <<>>, FALSE, 2), Request({}, <<>>, TRUE, 2),
     Request({<<"n", <<"null", 0>>>>}, <<Fact("a", 1), Fact("b", 1), Fact("a", 2)>>, FALSE, 1),
     Request(Entries, <<Fact("a", 1)>>, TRUE, 1),
     [Request({Metrics}, <<>>, FALSE, 1) EXCEPT !.config = {Config}],
     [Request({}, <<>>, FALSE, 1) EXCEPT !.remote = TRUE],
     Request({}, <<>>, FALSE, 0)}

Texts(words, n) == UNION {[1 .. k -> words] : k \in 0 .. n}

MCJudged ==
    {[contract |-> c, output |-> o] :
        c \in {Reasoning(f) : f \in {"Loose", "StepNColon", "NumberedList"}},
        o \in Texts({step, Mark(1), conclusion, <<"uncertain", 0>>, <<"unsure", 0>>}, 3)}
    \cup
    {[contract |-> c, output |-> o] :
        c \in {Planning({}), Planning({1}), [Planning({1}) EXCEPT !.max = 1]},
        o \in Texts({Mark(1), Mark(11), Mark(2), <<"capability", 1>>, <<"unknown", 0>>}, 3)}
    \cup
    {[contract |-> c, output |-> o] :
        c \in {Evaluation({}), Evaluation({1}), [Evaluation({}) EXCEPT !.least = 2, !.exactly = TRUE]},
        o \in Texts({Num(50), Num(8000), <<"high", 0>>, <<"ref", 1>>, text}, 3)}
    \cup
    {[contract |-> c, output |-> o] :
        c \in {Classification({1, 2}, TRUE), Classification({1, 2}, FALSE), Extraction({1}), Freeform(5)},
        o \in Texts({<<"category", 1>>, <<"category", 2>>, <<"field", 1>>, confidence, text}, 2)}

(* Calls from afar: a context with a number no float holds in nested objects, a key
   that two entries come to, a mixed list, values only the wire has, and what the
   backend client makes of a prompt. *)
Afar(entries, seeded) == [Request(entries, <<>>, seeded, 1) EXCEPT !.remote = TRUE]

Nested == <<"object", <<<<"b", <<"object", <<<<"c", Number(9)>>>>>>>>>>>>

List == <<"array", <<Number(9), <<"string", "s">>, <<"bool", TRUE>>>>>>

Backend(messages) == [messages |-> messages, recall |-> TRUE, adapter |-> {}, truths |-> {"truth"}]

MCCalls ==
    {[by |-> "client", request |-> Afar(entries, TRUE), missing |-> {}] :
        entries \in {{<<"a", Nested>>, <<"n", <<"null", 0>>>>}, {<<"a.b.c", <<"bool", TRUE>>>>, <<"a", Nested>>},
                    {<<"l", List>>}}}
    \cup
    {[by |-> "client", request |-> Afar({}, FALSE), missing |-> {"policy"}],
     [by |-> "raw", request |-> Afar({<<"x", <<"nan", 0>>>>, <<"y", <<"list", <<<<"unset", 0>>>>>>>>}, FALSE), missing |-> {}],
     [by |-> "backend", request |-> Backend(<<"first", "last">>), missing |-> {}]}

Both == {"cert", "key"}

MCSites ==
    {[server |-> {}, client |-> {}], [server |-> {}, client |-> {"ca"}], [server |-> {"cert"}, client |-> {}],
     [server |-> Both, client |-> {"ca", "cert"}], [server |-> Both \cup {"ca"}, client |-> {"ca"}],
     [server |-> Both, client |-> Both]}

MCChats ==
    {[messages |-> <<<<"user", "m">>>>, system |-> {}, tools |-> {"tool"}, says |-> out] :
        out \in [1 .. 6 -> {"open", "close", "json"}] \cup Texts({"open", "close", "json", "junk"}, 4)}
    \cup
    {[messages |-> <<<<"user", "m">>, <<"unknown", "n">>>>, system |-> {"system"}, tools |-> {},
      says |-> <<"open", "json", "close">>]}
=============================================================================
