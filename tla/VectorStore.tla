----------------------------- MODULE VectorStore -----------------------------
(***************************************************************************)
(* Embeddings and the vector stores (runway-storage): a table by namespace    *)
(* and id (local/vector.rs), and an index that knows ids only                 *)
(* (remote/vector.rs).  Texts are embedded as a batch and then stored one     *)
(* after the other.  A vector is the text it came from; Score[q][t] says how  *)
(* alike two are.                                                             *)
(***************************************************************************)
EXTENDS KeyRange

CONSTANTS
    Namespace,  \* the names of namespaces, texts
    Id,         \* vector ids, texts
    Text,       \* texts, of which Blank cannot be embedded
    Blank,
    Score,      \* [Text \ {Blank} -> [Text \ {Blank} -> Int]]
    Batches,    \* what is stored at once: one or more items, each an id and a text
    Loader      \* those who store vectors

ASSUME VectorAssumption ==
    /\ Blank \in Text /\ IsFiniteSet(Id) /\ IsFiniteSet(Namespace)
    /\ Namespace \subseteq Seq(Nat) /\ Id \subseteq Seq(Nat)
    /\ \A query, t \in Text \ {Blank} : Score[query][t] \in Int
    /\ Batches \subseteq Seq([id : Id, text : Text]) \ {<<>>}

VARIABLES
    table,      \* [Namespace \X Id -> the text of the vector, or NoVector]
    index,      \* [Id -> the namespace it was meant for and its text, or NoVector]
    batch       \* [Loader -> the rest of its batch]

vectorVars == <<table, index, batch>>
NoVector == <<>>
NoBatch == [ns |-> <<>>, items |-> <<>>]

VectorInit ==
    /\ table = [n \in Namespace \X Id |-> NoVector]
    /\ index = [i \in Id |-> NoVector]
    /\ batch = [l \in Loader |-> NoBatch]

\* A batch with a blank text is refused as a whole.
Embeddable(items) == \A i \in DOMAIN items : items[i].text # Blank

Embed(l, ns, items) ==
    /\ batch[l] = NoBatch /\ Embeddable(items)
    /\ batch' = [batch EXCEPT ![l] = [ns |-> ns, items |-> items]]
    /\ UNCHANGED <<table, index>>

Rest(l) ==
    LET rest == Tail(batch[l].items) IN
    batch' = [batch EXCEPT ![l] = IF rest = <<>> THEN NoBatch ELSE [ns |-> batch[l].ns, items |-> rest]]

\* The first failure ends the batch.
UpsertFails(l) ==
    /\ batch[l] # NoBatch
    /\ batch' = [batch EXCEPT ![l] = NoBatch]
    /\ UNCHANGED <<table, index>>

Upsert(l) ==
    /\ batch[l] # NoBatch
    /\ LET item == Head(batch[l].items) IN
        table' = [table EXCEPT ![<<batch[l].ns, item.id>>] = <<item.text>>]
    /\ Rest(l)
    /\ UNCHANGED index

\* The request may be done though its answer is lost, which ends the batch.
UpsertDatapoint(l) ==
    /\ batch[l] # NoBatch
    /\ LET item == Head(batch[l].items) IN
        index' = [index EXCEPT ![item.id] = <<batch[l].ns, item.text>>]
    /\ Rest(l) \/ batch' = [batch EXCEPT ![l] = NoBatch]
    /\ UNCHANGED table

Remove(ns, id) ==
    /\ table' = [table EXCEPT ![<<ns, id>>] = NoVector]
    /\ UNCHANGED <<index, batch>>

RemoveDatapoint(id) ==
    /\ index' = [index EXCEPT ![id] = NoVector]
    /\ UNCHANGED <<table, batch>>

----------------------------------------------------------------------------
(* Search in the table *)

Held == {key \in Namespace \X Id : table[key] # NoVector}

\* Mutant: the range has no end, and the namespaces of what it holds are not compared.
ScanAll(ns) == InKeyOrder({key \in Held : ~KeyBefore(key, <<ns, <<>>>>)})

\* The keys in the range, but those of another namespace.
Scan(ns) == InKeyOrder({key \in Held : InRange(ns, key) /\ key[1] = ns})

ScoreOf(query, key) == Score[query][table[key][1]]

BestFirst(query, keys) == StableSort(keys, LAMBDA d, e : ScoreOf(query, d) > ScoreOf(query, e))

Search(ns, query, k) == Truncated(BestFirst(query, Scan(ns)), k)

----------------------------------------------------------------------------
(* Properties *)

\* "A namespace named foo will not bleed into foo-bar", local/vector.rs:95: a search of the
\* table gives vectors of its namespace only, the best first, as many as are asked for, and
\* none that it leaves out is better, also while batches are half stored.  Not "every valid
\* vector id ... falls within the range", local/vector.rs:93: one past its end is not found.
SearchesNamespace == \A ns \in Namespace, query \in Text \ {Blank}, k \in 1..Cardinality(Id) :
    LET best == Search(ns, query, k)
        wanted == {key \in Held : key[1] = ns /\ ~PastTheEnd(key[2])}
        given == {best[n] : n \in DOMAIN best}
    IN  /\ given \subseteq wanted /\ Cardinality(given) = Len(best)
        /\ given # wanted => Len(best) = k
        /\ \A m, n \in DOMAIN best : m < n => ScoreOf(query, best[m]) >= ScoreOf(query, best[n])
        /\ \A n \in DOMAIN best, key \in wanted \ given : ScoreOf(query, best[n]) >= ScoreOf(query, key)
=============================================================================
