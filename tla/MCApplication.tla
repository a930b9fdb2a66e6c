--------------------------- MODULE MCApplication ---------------------------
(* The suggestors are those of MCSuggestors.  Two packs, one of which has a letter    *)
(* in its name that the terminal takes for a command, two jobs, and four fixtures,    *)
(* of which one does not parse and one requires a key that is not known.              *)
EXTENDS Application, MCSuggestors

E(kind, is) == [kind |-> kind, is |-> is]
MCFixtures ==
    {[id |-> 1, parses |-> TRUE, seeds |-> {"a"},
      expects |-> {E("converged", TRUE), E("must_contain", "a"), E("max_latency_ms", 0)}],
     [id |-> 2, parses |-> FALSE, seeds |-> {}, expects |-> {}],
     [id |-> 3, parses |-> TRUE, seeds |-> {"a", "b"},
      expects |-> {E("max_cycles", 1), E("min_facts", 2), E("required_key", "Diagnostic")}],
     [id |-> 4, parses |-> TRUE, seeds |-> {},
      expects |-> {E("must_not_contain", "b"), E("min_strategies", 0)}]}
=============================================================================
