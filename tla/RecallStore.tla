----------------------------- MODULE RecallStore -----------------------------
(***************************************************************************)
(* The recall providers (llm/src/recall): a corpus of decision records held   *)
(* in memory and, by the persistent provider, in a JSONL file.  A record is    *)
(* added to the latter in three steps (its text is appended to the file, then *)
(* the newline, then memory is updated); only the last is under the lock.     *)
(* The process may stop between any two, and a write may stop short.          *)
(***************************************************************************)
EXTENDS Embedder

CONSTANTS
    Thread,      \* threads that call add_record
    Record,      \* ids of decision records; an id names one immutable record
    Attr,        \* Attr[r]: summary and the fields of a record a filter looks at
    None,
    NL, Torn,    \* pieces of the file that are not a record's text
    MaxPieces    \* bound: length of the file and of the mock's memory

ASSUME RecallAssumption ==
    /\ Record \subseteq Nat
    /\ None \notin Nat /\ NL \notin Nat /\ Torn \notin Nat /\ NL # Torn
    /\ \A r \in Record, e \in Embedders : <<r, e>> \notin {NL, Torn}

VARIABLES
    kind,        \* "persistent" or "mock": which provider is used
    file,        \* records.jsonl, as the pieces written to it
    meta,        \* corpus_metadata.json, or Nothing
    open,        \* a provider is open
    using,       \* the embedder it was given
    memory,      \* its records, in the order they were pushed
    content,     \* the content hash in its fingerprint: Nothing or a bag of ids
    adding,      \* adding[t]: the record thread t adds and the step it is at
    acked,       \* history: records whose add_record returned Ok
    damaged,     \* history: an add was interrupted, cut short or overlapped
    fresh        \* history: nothing was added since the provider was opened

disk == <<file, meta>>
provider == <<open, using, memory, content>>
vars == <<kind, disk, provider, adding, acked, damaged, fresh>>

TenantPolicy == {"Optional", "Required"}
Idle == [step |-> "idle", rec |-> None]

\* A hash, a file or a part of an answer that is not there.
Nothing == <<>>

Init ==
    /\ kind \in {"persistent", "mock"}
    /\ file = <<>> /\ meta = Nothing
    /\ open = FALSE /\ using \in Embedders /\ memory = <<>> /\ content = Nothing
    /\ adding = [t \in Thread |-> Idle]
    /\ acked = {} /\ damaged = FALSE /\ fresh = TRUE

-----------------------------------------------------------------------------
(* Records.  What is stored of one is its id and the embedder of its vector:   *)
(* the rest follows from these.                                              *)

IsStored(piece) == piece \in Record \X Embedders
Id(stored) == stored[1]
IdsOf(s) == [i \in DOMAIN s |-> Id(s[i])]

\* to_embedding_text: the redacted summaries.
EmbeddingText(r) == RedactPii(Attr[r].summary)

\* StoredRecord::from_decision_record, as a filter sees it; no adapter is recorded.
StoredFields(r) ==
    [outcome |-> Attr[r].outcome,
     source |-> IF Attr[r].outcome = "Success" THEN "SimilarSuccess" ELSE "SimilarFailure",
     contract |-> Attr[r].contract, tenant |-> Attr[r].tenant, created_at |-> Attr[r].created_at,
     adapter |-> None]

StoredVector(stored) == Vector[stored[2]][EmbeddingText(Id(stored))]

\* CorpusMetadata: what open reads back.  The embedder's name and dimensions are
\* written too, and never read.
Metadata(policy) == [schema |-> "v1", dataset |-> "initial", tenants |-> policy]

\* Each line must hold one record; the last may lack its newline.
Loadable(f) ==
    /\ Torn \notin ToSet(f)
    /\ \A i \in 1 .. Len(f) - 1 : IsStored(f[i]) => f[i + 1] = NL

\* load_records: blank lines are skipped.
Loaded(f) == Filtered(f, IsStored)

-----------------------------------------------------------------------------
(* Fingerprints.                                                             *)

\* Mutant: only the count is hashed.
ContentHashCount(ids) == IF ids = <<>> THEN Nothing ELSE SetToBag(DOMAIN ids)

\* compute_content_hash: sorted ids and their count, so a bag; nothing when empty.
ContentHash(ids) ==
    IF ids = <<>> THEN Nothing
    ELSE [r \in ToSet(ids) |-> Cardinality({i \in DOMAIN ids : ids[i] = r})]

\* CorpusFingerprint::new, and update_content_hash.
Fingerprint(schema, embedder, dataset, hash) ==
    [schema |-> schema, embedder |-> Declared(embedder).id,
     settings |-> <<Declared(embedder).revision, Declared(embedder).max_input_length>>,
     dataset |-> dataset, content |-> hash, tenant |-> None]

MatchesExactly(a, b) == a = b

-----------------------------------------------------------------------------
(* Opening and closing.                                                      *)

\* create writes the metadata, then truncates the records; the first write may
\* be cut short, and then the metadata cannot be read.
CreateMeta(policy) ==
    /\ kind = "persistent" /\ ~open /\ meta' \in {Metadata(policy), Nothing}
    /\ UNCHANGED <<kind, file, provider, adding, acked, damaged, fresh>>

CreateRecords(e) ==
    /\ kind = "persistent" /\ ~open /\ meta # Nothing
    /\ file' = <<>> /\ memory' = <<>> /\ content' = Nothing
    /\ open' = TRUE /\ using' = e
    /\ acked' = {} /\ damaged' = FALSE /\ fresh' = TRUE
    /\ UNCHANGED <<kind, meta, adding>>

\* open fails, and changes nothing, without metadata or with a bad line.  It takes
\* any embedder, whichever made the stored vectors.
Open(e) ==
    /\ kind = "persistent" /\ ~open /\ meta # Nothing /\ Loadable(file)
    /\ open' = TRUE /\ using' = e
    /\ memory' = Loaded(file)
    /\ content' = ContentHash(IdsOf(Loaded(file)))
    /\ fresh' = TRUE
    /\ UNCHANGED <<kind, disk, adding, acked, damaged>>

\* MockRecallProvider::new.
NewMock(e) ==
    /\ kind = "mock" /\ ~open
    /\ open' = TRUE /\ using' = e /\ memory' = <<>> /\ fresh' = TRUE /\ acked' = {}
    /\ UNCHANGED <<kind, disk, content, adding, damaged>>

\* The provider is dropped, or the process dies, in the middle of adds too.
Stop ==
    /\ open /\ open' = FALSE
    /\ damaged' = (damaged \/ \E t \in Thread : adding[t].step = "newline")
    /\ adding' = [t \in Thread |-> Idle]
    /\ memory' = <<>> /\ content' = Nothing
    /\ UNCHANGED <<kind, disk, using, acked, fresh>>

-----------------------------------------------------------------------------
(* add_record.                                                               *)

Goto(t, step) == adding' = [adding EXCEPT ![t].step = step]

\* The text is embedded; if that fails nothing else happens.
AddBegin(t, r) ==
    /\ kind = "persistent" /\ open /\ adding[t] = Idle
    /\ adding' = [adding EXCEPT ![t] = [step |-> "text", rec |-> r]]
    /\ UNCHANGED <<kind, disk, provider, acked, damaged, fresh>>

MidLine == \E t \in Thread : adding[t].step = "newline"

AddText(t) ==
    /\ adding[t].step = "text" /\ Len(file) < MaxPieces
    /\ file' = Append(file, <<adding[t].rec, using>>)
    /\ damaged' = (damaged \/ MidLine)
    /\ Goto(t, "newline")
    /\ UNCHANGED <<kind, meta, provider, acked, fresh>>

\* Mutant: the newline is left to the next add.
AddNewlineLater(t) ==
    /\ adding[t].step = "newline"
    /\ Goto(t, "push")
    /\ UNCHANGED <<kind, disk, provider, acked, damaged, fresh>>

AddNewline(t) ==
    /\ adding[t].step = "newline" /\ Len(file) < MaxPieces
    /\ file' = Append(file, NL)
    /\ Goto(t, "push")
    /\ UNCHANGED <<kind, meta, provider, acked, damaged, fresh>>

AddPush(t) ==
    /\ adding[t].step = "push"
    /\ memory' = Append(memory, <<adding[t].rec, using>>)
    /\ acked' = acked \cup {adding[t].rec}
    /\ adding' = [adding EXCEPT ![t] = Idle]
    /\ fresh' = FALSE
    /\ UNCHANGED <<kind, disk, open, using, content, damaged>>

\* Mutant: a failed add puts the record in memory and reports success.
AddFailsAcked(t) ==
    /\ adding[t].step = "text"
    /\ memory' = Append(memory, <<adding[t].rec, using>>)
    /\ acked' = acked \cup {adding[t].rec}
    /\ adding' = [adding EXCEPT ![t] = Idle]
    /\ UNCHANGED <<kind, disk, open, using, content, damaged, fresh>>

\* A write fails, possibly after part of the text was written: add_record
\* returns the error, and what was written stays.
AddFails(t) ==
    /\ adding[t].step \in {"text", "newline"}
    /\ \/ adding[t].step = "text" /\ UNCHANGED <<file, damaged>>
       \/ /\ adding[t].step = "text" /\ Len(file) < MaxPieces
          /\ file' = Append(file, Torn) /\ damaged' = TRUE
       \/ /\ adding[t].step = "newline"
          /\ damaged' = TRUE /\ UNCHANGED file
    /\ adding' = [adding EXCEPT ![t] = Idle]
    /\ UNCHANGED <<kind, meta, provider, acked, fresh>>

\* The mock's add_record has the provider to itself, and keeps the content hash too.
AddMock(r) ==
    /\ kind = "mock" /\ open /\ Len(memory) < MaxPieces
    /\ memory' = Append(memory, <<r, using>>)
    /\ fresh' = FALSE /\ acked' = acked \cup {r}
    /\ UNCHANGED <<kind, disk, open, using, content, adding, damaged>>

Add(t) == AddText(t) \/ AddNewline(t) \/ AddPush(t) \/ AddFails(t)

Next ==
    \/ \E policy \in TenantPolicy : CreateMeta(policy)
    \/ \E e \in Embedders : CreateRecords(e) \/ Open(e) \/ NewMock(e)
    \/ Stop
    \/ \E t \in Thread : Add(t) \/ \E r \in Record : AddBegin(t, r)
    \/ \E r \in Record : AddMock(r)

Spec == Init /\ [][Next]_vars

-----------------------------------------------------------------------------
(* Properties.                                                               *)

\* The corpus can be opened again unless an add was interrupted between its
\* text and its newline, cut short by a failed write, or overlapped another
\* one there: the file is appended to outside the lock; and nothing that add_record
\* acknowledged is lost: an open provider has it in memory, a corpus that can be
\* opened gives it back, and what memory holds is always on file, so that a restart
\* loses no answer (add_record, load_records).
CorpusSurvives ==
    /\ ~damaged => Loadable(file)
    /\ open => acked \subseteq ToSet(IdsOf(memory))
    /\ kind = "persistent" =>
           /\ ToSet(memory) \subseteq ToSet(file)
           /\ Loadable(file) => acked \subseteq ToSet(IdsOf(Loaded(file)))
=============================================================================
