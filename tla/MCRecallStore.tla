---------------------------- MODULE MCRecallStore ----------------------------
(* Two records of two tenants and days, two embedders that share their name but *)
(* not their dimensions and a semantic one.  One query is equally near to both  *)
(* records, the other nearer to one of them.                                     *)
EXTENDS Recall

MCAttr == [r \in Record |-> IF r = 1
             THEN [summary |-> <<"email">>, outcome |-> "Failure", contract |-> "Reasoning", tenant |-> "t1", created_at |-> 1]
             ELSE [summary |-> <<"memory", "limit">>, outcome |-> "Success", contract |-> "Planning", tenant |-> "t2", created_at |-> r]]
MCQuery == {<<"limit", "ip">>, <<"gap", "memory">>}
Texts == MCQuery \cup {<<"<EMAIL>">>, <<"memory", "limit">>}
MCFamily == [e \in Embedders |-> IF e = "meaning" THEN "AllMiniLM" ELSE "hash"]
Axis(text, has) == IF \E i \in DOMAIN text : text[i] = has THEN 1 ELSE 0
MCVector == [e \in Embedders |-> [text \in Texts |->
    CASE e = "wide"   -> <<1, Axis(text, "memory"), -Axis(text, "ip")>>
      [] e = "narrow" -> <<1 - 2 * Axis(text, "memory"), 1>>
      [] OTHER        -> <<Axis(text, "memory"), Axis(text, "limit")>>]]
MCFilter == {NoFilter, [NoFilter EXCEPT !.outcome = "Success", !.end = 2],
             [NoFilter EXCEPT !.source = "SimilarFailure", !.tenant = "t1"],
             [NoFilter EXCEPT !.contract = "Planning", !.start = 1]}
MCPolicy == {[enabled |-> TRUE, max_k_total |-> 1, min_score_threshold |-> 1],
             [enabled |-> TRUE, max_k_total |-> 2, min_score_threshold |-> 0],
             [enabled |-> FALSE, max_k_total |-> 1, min_score_threshold |-> 0]}
Threads == Permutations(Thread)
=============================================================================
