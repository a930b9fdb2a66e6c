---------------------------- MODULE MCGeneration ----------------------------
(* Two characters of one byte and one of two; calls of up to three tokens on a   *)
(* context of four.  The parameters are greedy, nucleus, top-k, seeded and        *)
(* invalid ones, with and without stop sequences, repetition penalty and adapter.         *)
EXTENDS Generation

MCLogits == {<<4, 2, 2, 0, 1, -2>>, <<0, 0, 3, -4, 0, -9>>, <<-1, 1, -1, 3, -2, -2>>}
MCIndexed == {[t \in Token |-> l[t + 1]] : l \in MCLogits}
MCPrompt == {<<>>, <<0, 1>>}
MCGreedy == [max_new |-> 3, temperature |-> 0, top_p |-> 100, top_k |-> 1,
             repetition_penalty |-> 1, stop |-> {}, seed |-> Nothing, adapter |-> Nothing]
MCSaid == {<<>>, <<0, 1, 0>>}
MCParams == {
    MCGreedy,
    [MCGreedy EXCEPT !.temperature = 1, !.top_k = 0, !.stop = {<<0, 1>>, <<1>>},
                     !.adapter = "lora"],
    [MCGreedy EXCEPT !.temperature = 2, !.top_k = 2, !.repetition_penalty = 2, !.stop = {<<>>}],
    [MCGreedy EXCEPT !.temperature = 1, !.top_k = 3, !.top_p = 60, !.stop = {<<0, 0>>}, !.adapter = "stale"],
    [MCGreedy EXCEPT !.temperature = 1, !.top_k = 0, !.top_p = 80, !.repetition_penalty = 2,
                     !.seed = 1, !.max_new = 2],
    [MCGreedy EXCEPT !.temperature = -1], [MCGreedy EXCEPT !.top_p = 0],
    [MCGreedy EXCEPT !.max_new = 0], [MCGreedy EXCEPT !.seed = 2, !.repetition_penalty = 2]}
=============================================================================
