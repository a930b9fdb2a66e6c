----------------------------- MODULE MCAppHost -----------------------------
(* Two requests at once.  One key is in a directory, whose name and the beginning of *)
(* whose name are prefixes.  Two namespaces, the name of one the beginning of the    *)
(* other's, three ids, one of them past the end of the range, and two texts that can  *)
(* be embedded, each most like itself.                                               *)
EXTENDS AppHost, TLC

MCTemp == [k \in Key |-> IF k = "sub/b" THEN "sub/b.tmp" ELSE "a.tmp"]
MCHome == [p \in Path |-> IF p \in {"sub/b", "sub/b.tmp"} THEN "sub" ELSE ""]
MCAbove == [d \in {"sub"} |-> ""]
MCWithin == [d \in {"", "sub"} |-> IF d = "" THEN {"", "sub"} ELSE {"sub"}]
MCBegins == [x \in Prefix |-> IF x = "" THEN Key ELSE {"sub/b"}]
MCNames == [x \in Prefix |-> IF x = "su" THEN Gone ELSE x]
MCSymmetry == Permutations(Request)
MCNamespace == {<<6>>, <<6, 2>>}
MCId == {<<1>>, <<9>>, <<9, 1>>}
MCBatches ==
    LET item(i, t) == [id |-> i, text |-> t] IN
    {<<item(i, t)>> : i \in {<<1>>, <<9>>}, t \in {"x", "y"}}
    \cup {<<item(<<9, 1>>, "x")>>, <<item(<<9>>, "x"), item(<<1>>, "y")>>, <<item(<<1>>, "x"), item(<<9>>, "blank")>>}
MCDocId == <<<<1>>, <<2>>, <<9>>, <<9, 1>>>>
MCCollection == <<6>>
MCScore == [q \in {"x", "y"} |-> [t \in {"x", "y"} |-> IF q = t THEN 2 ELSE 1]]

(* Two numbers whose texts are in the other order, the second beyond an integer of *)
(* Firestore, a string and null, in a field that may be missing; codes are of      *)
(* ASCII, and of null the first.                                                   *)
Nine == [t |-> "num", v |-> 9, text |-> <<57>>]
Large == [t |-> "num", v |-> 102, text |-> <<49, 48, 50>>]
Letter == [t |-> "str", v |-> <<97>>, text |-> <<34, 97, 34>>]
Null == [t |-> "null", v |-> 0, text |-> <<110>>]
MCBody == {[n |-> Nine], [n |-> Large], [n |-> Letter], [n |-> Null], <<>>}
Leaf(op, value) == [op |-> op, field |-> "n", value |-> value]
MCPuts == ({1, 2} \X MCBody) \cup {<<3, [n |-> v]>> : v \in {Nine, Large, Letter}} \cup {<<4, [n |-> Nine]>>}
MCAsked == {Leaf(op, value) : op \in {"eq", "gt", "gte", "lt", "lte"}, value \in {Nine, Letter}}
    \cup {[op |-> "or", of |-> {Leaf("eq", Nine), Leaf("eq", Large)}],
          [op |-> "and", of |-> {Leaf("gt", Nine), Leaf("lte", Large)}]}
MCFilter == MCAsked \cup UNION {f.of : f \in {g \in MCAsked : g.op \in {"and", "or"}}} \cup {Leaf("lt", Large)}
MCQuery == [filter : {<<>>}, order : {<<>>, <<[field |-> "n", asc |-> TRUE]>>, <<[field |-> "n", asc |-> FALSE]>>},
            limit : {<<>>, <<1>>, <<2>>}, after : {<<>>}]
    \cup [filter : {<<f>> : f \in MCAsked}, order : {<<>>}, limit : {<<>>}, after : {<<>>}]
    \cup [filter : {<<Leaf("lt", Large)>>}, order : {<<>>}, limit : {<<1>>}, after : {<<1>>}]
=============================================================================
