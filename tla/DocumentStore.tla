---------------------------- MODULE DocumentStore ----------------------------
(***************************************************************************)
(* One collection of a document store (runway-storage): a table whose rows    *)
(* are filtered, sorted and cut in the process (local/document.rs), or a      *)
(* Firestore collection, which is sent a query (remote/document.rs).          *)
(* Time is counted in writes.  A value is its kind t, its JSON text, a        *)
(* sequence of character codes, and v, what it is equal by: a number, that of  *)
(* a boolean, or a sequence of codes.                                          *)
(***************************************************************************)
EXTENDS KeyRange

CONSTANTS
    Collection, \* the name of the collection, a text
    Doc,        \* documents, numbered in the order of the keys
    DocId,      \* [Doc -> the text of its id]
    Body,       \* bodies: functions from field names to values
    Puts,       \* what is put: pairs of a document and a body
    Filter,     \* the filters of queries and those they are made of
    Query,      \* queries: filter, order, limit and after, each empty or one thing
    MaxInt,     \* the largest integer a Firestore number holds
    MaxWrites   \* bound: writes

ASSUME DocumentAssumption ==
    /\ Doc = 1..Cardinality(Doc) /\ Cardinality(Doc) \in Nat
    /\ Collection \in Seq(Nat) /\ \A d \in Doc : DocId[d] \in Seq(Nat)
    /\ Puts \subseteq Doc \X Body
    /\ \A d, e \in Doc : d < e => TextBefore(DocId[d], DocId[e])
    /\ \A f \in Filter : f.op \in {"and", "or"} => f.of \subseteq Filter
    /\ \A q \in Query :
          /\ q.filter = <<>> \/ q.filter[1] \in Filter
          /\ q.limit = <<>> \/ (q.limit # <<>> /\ q.limit[1] \in Nat)
    /\ MaxInt \in Nat /\ MaxWrites \in Nat

VARIABLES
    docs,       \* [Doc -> data, created, updated; NoDoc]
    writes      \* writes so far

documentVars == <<docs, writes>>
NoDoc == <<>>

DocumentInit == docs = [d \in Doc |-> NoDoc] /\ writes = 0

\* to_firestore_value and back: a larger integer becomes a floating-point number, which
\* does not tell it from its neighbour; all else stays as it is.
Kept(value) ==
    IF value.t = "num" /\ value.v > MaxInt THEN [value EXCEPT !.v = 2 * (@ \div 2)] ELSE value

Stamped(d, data) ==
    [data |-> data, created |-> IF docs[d] = NoDoc THEN writes + 1 ELSE docs[d].created, updated |-> writes + 1]

PutRow(d, body) ==
    /\ writes < MaxWrites /\ writes' = writes + 1
    /\ docs' = [docs EXCEPT ![d] = Stamped(d, body)]

\* The document is read first, but of it nothing is sent: both times are Firestore's.
\* Either request may fail, and an answer be lost.
PatchDocument(d, body) ==
    \/ /\ writes < MaxWrites /\ writes' = writes + 1
       /\ docs' = [docs EXCEPT ![d] = Stamped(d, [f \in DOMAIN body |-> Kept(body[f])])]
    \/ UNCHANGED documentVars

DeleteRow(d) == docs' = [docs EXCEPT ![d] = NoDoc] /\ UNCHANGED writes

DeleteDocument(d) == DeleteRow(d) \/ UNCHANGED documentVars

----------------------------------------------------------------------------
(* The table *)

Sign(x, y) == IF x < y THEN -1 ELSE IF x = y THEN 0 ELSE 1

\* Numbers and booleans are compared by value, strings by their characters, and
\* everything else, two kinds among it, by its text.
Compared(x, y) ==
    IF x.t = y.t /\ x.t \in {"num", "bool"} THEN Sign(x.v, y.v)
    ELSE IF x.t = y.t /\ x.t = "str" THEN CompareText(x.v, y.v)
    ELSE CompareText(x.text, y.text)

\* cmp_values; what is missing comes first.
CompareValues(a, b) == IF a = <<>> \/ b = <<>> THEN Sign(Len(a), Len(b)) ELSE Compared(a[1], b[1])

Json == UNION {{body[f] : f \in DOMAIN body} : body \in Body}

\* The text of a number begins with a digit or a sign, a string's with a quote; of the
\* other kinds only null is between false and true.  So what comes before a value of
\* another kind has all that is less in its own kind before that value too, and what
\* comes after has all that is greater after it.
ASSUME JsonAssumption ==
    /\ \A x \in Json :
          /\ x.text \in Seq(Nat)
          /\ x.t \in {"num", "bool"} => x.v \in Int
          /\ x.t = "str" => x.v \in Seq(Nat)
    /\ \A x, y, z \in Json :
          x.t = y.t /\ x.t \in {"num", "bool", "str"} /\ z.t # x.t /\ Compared(x, y) <= 0 =>
              /\ x.text # z.text
              /\ TextBefore(y.text, z.text) => TextBefore(x.text, z.text)
              /\ TextBefore(z.text, x.text) => TextBefore(z.text, y.text)

Field(d, f) == IF f \in DOMAIN docs[d].data THEN <<docs[d].data[f]>> ELSE <<>>

Same(x, y) == x.t = y.t /\ x.v = y.v

\* A filter of one field.
Holds(d, g) ==
    LET c == CompareValues(Field(d, g.field), <<g.value>>) IN
    /\ Field(d, g.field) # <<>>
    /\ CASE g.op = "eq" -> Same(Field(d, g.field)[1], g.value)
         [] g.op = "gt" -> c > 0 [] g.op = "gte" -> c >= 0
         [] g.op = "lt" -> c < 0 [] g.op = "lte" -> c <= 0

Applies(d, f) ==
    LET Matches[g \in Filter] ==
            CASE g.op = "and" -> \A h \in g.of : Matches[h]
              [] g.op = "or" -> \E h \in g.of : Matches[h]
              [] OTHER -> Holds(d, g)
    IN  IF f.op \in {"and", "or"} THEN Matches[f] ELSE Holds(d, f)

Stored == {d \in Doc : docs[d] # NoDoc}

Wanted(d, q) ==
    /\ q.after = <<>> \/ docs[d].updated > q.after[1]
    /\ q.filter = <<>> \/ Applies(d, q.filter[1])

\* d comes after e; without an order the latest comes first.
After(q, d, e) ==
    IF q.order = <<>> THEN docs[d].updated < docs[e].updated
    ELSE LET c == CompareValues(Field(d, q.order[1].field), Field(e, q.order[1].field)) IN
         IF q.order[1].asc THEN c > 0 ELSE c < 0

Sorted(q, rows) == StableSort(rows, LAMBDA d, e : After(q, e, d))

Given(rows) == {rows[i] : i \in DOMAIN rows}

Cut(q, rows) == IF q.limit = <<>> THEN rows ELSE Truncated(rows, q.limit[1])

\* The rows of some documents, in the order of the keys.
Rows(set) == Ascending(set)

\* The documents in the range of the collection.
Scanned == {d \in Stored : InRange(Collection, <<Collection, DocId[d]>>)}

\* Mutant: the rows are cut before they are sorted.
TableCutFirst(q) == Sorted(q, Cut(q, Rows({d \in Scanned : Wanted(d, q)})))

QueryTable(q) == Cut(q, Sorted(q, Rows({d \in Scanned : Wanted(d, q)})))

----------------------------------------------------------------------------
(* Firestore *)

\* Only a filter for equality is sent, and a filter on a field updated_at, which no put
\* writes, for the time; of the order nothing.  The answer comes in the order of names.
Selected(d, q) ==
    /\ q.after = <<>>
    /\ q.filter # <<>> /\ q.filter[1].op = "eq" =>
           \E x \in Given(Field(d, q.filter[1].field)) : Same(x, Kept(q.filter[1].value))

RunQuery(q) == Cut(q, Rows({d \in Stored : Selected(d, q)}))

----------------------------------------------------------------------------
(* Properties *)

AsMany(q, rows, set) ==
    /\ Given(rows) \subseteq set /\ Cardinality(Given(rows)) = Len(rows)
    /\ Len(rows) = IF q.limit # <<>> /\ Cardinality(set) > q.limit[1] THEN q.limit[1] ELSE Cardinality(set)

\* Numbers are in numeric order, whatever stands between them.
NumbersInOrder(q, rows) ==
    q.order # <<>> => \A i, j \in DOMAIN rows :
        LET x == Field(rows[i], q.order[1].field)  y == Field(rows[j], q.order[1].field) IN
        i < j /\ x # <<>> /\ y # <<>> => (x[1].t = "num" /\ y[1].t = "num" =>
            IF q.order[1].asc THEN x[1].v <= y[1].v ELSE x[1].v >= y[1].v)

\* A table answers with the first of what is wanted: no row that is left out, and none
\* that is given later, belongs before one that is given, whatever kinds of values meet
\* in the field: "Total order over serde_json::Value", local/document.rs:238.  Not every id
\* "falls within the range" (local/document.rs:132): a document past its end is never given.
TableAnswers == \A q \in Query :
    LET rows == QueryTable(q)
        wanted == {d \in Stored : Wanted(d, q) /\ ~PastTheEnd(DocId[d])}
    IN  /\ AsMany(q, rows, wanted)
        /\ \A i \in DOMAIN rows : \A d \in wanted \ {rows[j] : j \in 1..i} : ~After(q, rows[i], d)
        /\ NumbersInOrder(q, rows)

\* Firestore answers with what is wanted, where that is one equality or everything.
FirestoreAnswers ==
    LET Faithful(q) ==
            /\ q.after = <<>>
            /\ q.filter # <<>> => q.filter[1].op = "eq" /\ Kept(q.filter[1].value) = q.filter[1].value
    IN  \A q \in Query : Faithful(q) => AsMany(q, RunQuery(q), {d \in Stored : Wanted(d, q)})
=============================================================================
