-------------------------------- MODULE Recall --------------------------------
(***************************************************************************)
(* Recall queries (llm/src/recall provider*.rs, normalizer.rs; the check of   *)
(* their provenance in llm/src/kernel.rs).  A query changes nothing, so an     *)
(* answer is a function of what the provider holds.                           *)
(***************************************************************************)
EXTENDS RecallStore

CONSTANTS
    Query,       \* query texts
    Filter,      \* the filters used: fields are None or a required value
    Policy,      \* recall policies: enabled, max_k_total, min_score_threshold
    TopK         \* the top_k of queries

\* Embeddings are not empty, and what embedders of one family whose vectors have the same
\* length compute is the same: they run the same code, or the same model.
ASSUME QueryAssumption ==
    /\ \A e \in Embedders, q \in Query : Vector[e][q] \in Seq(Int) \ {Nothing}
    /\ \A e \in Embedders, r \in Record : Vector[e][EmbeddingText(r)] \in Seq(Int)
    /\ \A e, f \in Embedders, q \in Query :
          Family[e] = Family[f] /\ Len(Vector[e][q]) = Len(Vector[f][q]) => Vector[e] = Vector[f]
    /\ TopK \subseteq Nat /\ None \notin Policy
    /\ Policy \subseteq [enabled: BOOLEAN, max_k_total: Nat, min_score_threshold: Int]

\* What a query reads.
Corpus == [kind |-> kind, using |-> using, memory |-> memory, content |-> content,
           tenants |-> IF meta = Nothing THEN "Optional" ELSE meta.tenants]

NoFilter == [outcome |-> None, contract |-> None, source |-> None, adapter |-> None,
             tenant |-> None, start |-> None, end |-> None]

\* The fields that a filter compares for equality.
EqualFields == {"outcome", "contract", "adapter", "source", "tenant"}

\* Mutant: a record at the end of the window is left out.
MatchesBeforeEnd(f, r) ==
    LET stored == StoredFields(r)
    IN  /\ \A field \in EqualFields : f[field] \in {None, stored[field]}
        /\ f.start # None => stored.created_at >= f.start
        /\ f.end # None => stored.created_at < f.end

\* RecallFilter::matches: every field that is set must agree.
Matches(f, r) ==
    LET stored == StoredFields(r)
    IN  /\ \A field \in EqualFields : f[field] \in {None, stored[field]}
        /\ f.start # None => stored.created_at >= f.start
        /\ f.end # None => stored.created_at =< f.end

Similarity ==
    [e \in Embedders |-> [q \in Query |-> [s \in Record \X Embedders |->
        Cosine(Vector[e][q], StoredVector(s))]]]

\* RecallNormalizer::normalize_score: clamped at 0.
FinalScore(raw) == IF raw < 0 THEN 0 ELSE raw

Top(s, k) == SubSeq(s, 1, IF Len(s) < k THEN Len(s) ELSE k)

\* normalize_batch, after the results were cut to the same limit: the threshold is 0
\* and drops none, but the clamped scores are sorted again.
Normalized(all, results, k) ==
    [candidates |-> Top(all, k),
     stop |-> IF Len(all) > k THEN "ReachedTopK"
              ELSE IF all = <<>> /\ results # <<>> THEN "BelowThreshold" ELSE "None"]

HighestFirst(s) == StableSort(s, LAMBDA a, b : a.score > b.score)

NormalizeBatch(results, k) ==
    Normalized(HighestFirst([i \in DOMAIN results |->
                                [id |-> results[i].id, score |-> FinalScore(results[i].raw)]]),
               results, k)

\* The version string of the provider's fingerprint.
Version(c) ==
    IF c.kind = "mock" THEN Fingerprint("mock-v1", c.using, "initial", c.content)
    ELSE Fingerprint("v1", c.using, "initial", c.content)

\* The envelope of an answer.  The hash of the input is that of its canonical text,
\* though the text itself is embedded.  Nothing is said of the filter.
Envelope(c, x, embedding, answer, searched) ==
    [query |-> <<x.query, x.tenant, x.k>>, input |-> Canonical(x.query), embedding |-> embedding,
     embedder |-> Declared(c.using), corpus |-> Version(c), policy |-> None,
     scores |-> answer.candidates, searched |-> searched,
     returned |-> Len(answer.candidates), stop |-> answer.stop]

TraceLink(c, embedding, searched, returned) ==
    [embedding |-> embedding, corpus |-> Version(c), embedder |-> Declared(c.using).id,
     searched |-> searched, returned |-> returned]

Response(c, x, embedding, answer, searched) ==
    [candidates |-> answer.candidates, stop |-> answer.stop,
     link |-> TraceLink(c, embedding, searched, Len(answer.candidates)),
     provenance |-> Envelope(c, x, embedding, answer, searched)]

Scored(c, q, s) ==
    [i \in DOMAIN s |-> [id |-> Id(s[i]), raw |-> Similarity[c.using][q][s[i]]]]

\* Best first; the persistent provider puts the smaller id first among equals, the
\* mock leaves them in the order they were added.
Better(a, b) == a.raw > b.raw \/ (a.raw = b.raw /\ a.id < b.id)

BestFirst(found) == StableSort(found, Better)
MostAlikeFirst(all) == StableSort(all, LAMBDA a, b : a.raw > b.raw)

\* recall_with_filter of the persistent provider.  Only a bit-exact embedder counts
\* as deterministic.
RankFound(c, x, found) ==
    LET normal == NormalizeBatch(Top(BestFirst(found), x.k), x.k)
        exact == Declared(c.using).contract.level = "BitExact"
    IN  Response(c, x, Vector[c.using][x.query],
                 [normal EXCEPT !.stop = IF exact THEN @ ELSE "EmbedderNotDeterministic"],
                 Len(found))

RecallWithFilter(c, x) ==
    IF c.tenants = "Required" /\ x.tenant = None
    THEN Response(c, x, Nothing, [candidates |-> <<>>, stop |-> "TenantScopeMissing"], 0)
    ELSE RankFound(c, x, Scored(c, x.query, Filtered(c.memory, LAMBDA s : Matches(x.filter, Id(s)))))

\* recall of the mock.
RankAll(c, x, all) ==
    Response(c, x, Vector[c.using][x.query],
             NormalizeBatch(Top(MostAlikeFirst(all), x.k), x.k), Len(all))

RecallMock(c, x) == RankAll(c, x, Scored(c, x.query, c.memory))

RecallFrom(c, x) == IF c.kind = "mock" THEN RecallMock(c, x) ELSE RecallWithFilter(c, x)

Smaller(a, b) == IF a < b THEN a ELSE b

\* A response of a disabled policy.
EmptyResponse(c) ==
    [candidates |-> <<>>, stop |-> "BelowThreshold",
     link |-> [TraceLink(c, Nothing, 0, 0) EXCEPT !.embedder = None], provenance |-> Nothing]

Above(p, candidates) == Filtered(candidates, LAMBDA a : a.score >= p.min_score_threshold)

\* Mutant: the envelope keeps the scores of what the threshold drops.
LimitedOldScores(got, kept, x, p) ==
    [got EXCEPT !.candidates = kept, !.stop = IF x.late THEN "LatencyExceeded" ELSE @,
                !.link.returned = Len(kept), !.provenance.policy = p, !.provenance.returned = Len(kept)]

\* The envelope is updated before the latency is looked at.
Limited(got, kept, x, p) ==
    [got EXCEPT !.candidates = kept, !.stop = IF x.late THEN "LatencyExceeded" ELSE @,
                !.link.returned = Len(kept), !.provenance.policy = p,
                !.provenance.scores = kept, !.provenance.returned = Len(kept)]

LimitedTo(got, x, p) == Limited(got, Above(p, got.candidates), x, p)

\* recall_with_policy: its limits, no filter.
RecallWithPolicy(c, x, p) ==
    IF ~p.enabled THEN EmptyResponse(c)
    ELSE LimitedTo(RecallFrom(c, [x EXCEPT !.k = Smaller(@, p.max_k_total)]), x, p)

-----------------------------------------------------------------------------
(* The audit of a step that used recall.                                     *)

\* RecallMetadata of a trace, for a response that was used.
RecallMetadata(response) ==
    [performed |-> TRUE, link |-> response.link, provenance |-> response.provenance]

\* validate_recall_provenance: what is missing, if anything.
MissingProvenance(metadata) ==
    IF metadata = Nothing THEN "Metadata"
    ELSE IF metadata.link = Nothing THEN "TraceLink"
    ELSE IF metadata.link.corpus = Nothing THEN "CorpusFingerprint"
    ELSE IF metadata.link.embedding = Nothing THEN "EmbeddingHash"
    ELSE IF metadata.performed /\ metadata.provenance = Nothing THEN "ProvenanceEnvelope"
    ELSE "None"

-----------------------------------------------------------------------------
(* Properties.  They are about every question a client can ask whenever no add *)
(* is under way.                                                             *)

Tenant == {Attr[r].tenant : r \in Record} \cup {None}

Question ==
    [query: Query, tenant: Tenant, k: TopK, filter: Filter, policy: {None}, late: {FALSE}]
    \cup [query: Query, tenant: {None}, k: TopK, filter: {NoFilter}, policy: Policy, late: BOOLEAN]

Asked(c) == {x \in Question : c.kind = "mock" => x.filter = NoFilter}

AnswerTo(c, x) ==
    IF x.policy = None THEN RecallFrom(c, x) ELSE RecallWithPolicy(c, x, x.policy)

Quiet == open /\ \A t \in Thread : adding[t] = Idle

Refused(c, x) ==
    \/ x.policy # None /\ ~x.policy.enabled
    \/ c.kind = "persistent" /\ c.tenants = "Required" /\ x.tenant = None

Limit(x) == IF x.policy = None THEN x.k ELSE Smaller(x.k, x.policy.max_k_total)

Wanted(c, x) ==
    {s \in ToSet(c.memory) :
        LET r == Id(s) IN
        /\ x.filter.outcome \in {None, Attr[r].outcome} /\ x.filter.contract \in {None, Attr[r].contract}
        /\ x.filter.adapter = None
        /\ x.filter.source \in {None, IF Attr[r].outcome = "Success" THEN "SimilarSuccess" ELSE "SimilarFailure"}
        /\ x.filter.tenant \in {None, Attr[r].tenant}
        /\ x.filter.start = None \/ x.filter.start =< Attr[r].created_at
        /\ x.filter.end = None \/ x.filter.end >= Attr[r].created_at
        /\ x.policy # None => FinalScore(Similarity[c.using][x.query][s]) >= x.policy.min_score_threshold}

IdsIn(answer) == {answer.candidates[i].id : i \in DOMAIN answer.candidates}

Best(c, x, got) ==
    IF Refused(c, x)
    THEN /\ got.candidates = <<>>
         /\ \/ x.policy # None /\ ~x.policy.enabled
            \/ got.stop = "TenantScopeMissing" \/ (x.late /\ got.stop = "LatencyExceeded")
    ELSE /\ IdsIn(got) \subseteq {Id(s) : s \in Wanted(c, x)}
         /\ \A s \in Wanted(c, x) : Id(s) \notin IdsIn(got) =>
               /\ Len(got.candidates) = Limit(x)
               /\ \A i \in DOMAIN got.candidates :
                     got.candidates[i].score >= FinalScore(Similarity[c.using][x.query][s])

\* An answer is what was asked for: only wanted records, and a wanted one is left
\* out only when the limit is reached with candidates that score no less; a refused
\* query returns nothing, and one that lacks its tenant says so unless it was late (a
\* disabled policy gives no reason of its own) (recall_with_filter, recall_with_policy).
AnswersAreBest == Quiet => \A x \in Asked(Corpus) : Best(Corpus, x, AnswerTo(Corpus, x))

Auditable(c, x, got) ==
    /\ got.link.returned = Len(got.candidates) /\ got.link.returned =< got.link.searched
    /\ got.provenance # Nothing =>
           /\ got.provenance.scores = got.candidates
           /\ got.provenance.returned = got.link.returned
           /\ got.provenance.embedding = got.link.embedding
           /\ got.stop \in {got.provenance.stop, "LatencyExceeded"}
    /\ MissingProvenance(RecallMetadata(got)) = IF Refused(c, x) THEN "EmbeddingHash" ELSE "None"

\* An answer can be audited: its link and its envelope tell of exactly the candidates
\* that were returned, and of the same reason unless the answer was late, and the
\* check of provenance finds nothing missing except when the query was refused
\* (recall_with_policy, validate_recall_provenance).
AuditableRecall == Quiet => \A x \in Asked(Corpus) : Auditable(Corpus, x, AnswerTo(Corpus, x))

\* The part of an envelope that is known before the search.
Header(answer) ==
    [answer.provenance EXCEPT !.scores = None, !.searched = None, !.returned = None, !.stop = None]

\* Providers just opened, holding what their embedder stored.
FreshCorpora ==
    UNION {{[kind |-> "persistent", using |-> e, memory |-> m,
             content |-> ContentHash(IdsOf(m)), tenants |-> "Optional"] :
               m \in BoundedSeq(Record \X {e}, MaxPieces \div 2)} : e \in Embedders}

Unfiltered == {x \in Question : x.filter = NoFilter}

FreshAnswers == [c \in FreshCorpora |-> [x \in Unfiltered |-> AnswerTo(c, x)]]

SameIfTold(here, there) ==
    here.provenance # Nothing /\ Header(here) = Header(there) => here.candidates = there.candidates

\* "Same query + same corpus fingerprint + same embedder => same candidates"
\* (corpus.rs), for unfiltered queries of a provider to which nothing was added since
\* it was opened, whose records its own embedder stored and that needs no tenant:
\* another provider like that whose envelope says the same returns the same candidates.
ProvenanceFixesAnswer ==
    kind = "persistent" /\ Quiet /\ fresh /\ Corpus.tenants = "Optional"
    /\ (\A s \in ToSet(memory) : s[2] = using) =>
        \A other \in {c \in FreshCorpora : MatchesExactly(Version(c), Version(Corpus))} :
            \A x \in Unfiltered : SameIfTold(AnswerTo(Corpus, x), FreshAnswers[other][x])

Vectors(ids, e) == [i \in DOMAIN ids |-> StoredVector(<<ids[i], e>>)]

VerifiedExact(e, f, q, ids) ==
    /\ Verify(Contract("BitExact"), Vector[e][q], Vector[f][q])
    /\ \A i \in DOMAIN ids : Verify(Contract("BitExact"), Vectors(ids, e)[i], Vectors(ids, f)[i])

VerifiedRanking(e, f, q, ids) ==
    /\ kind = "mock" \/ \A i, j \in DOMAIN ids : i < j => ids[i] =< ids[j]
    /\ VerifyRanking(Contract("ToleranceBased"), Vector[e][q], Vectors(ids, e), Vector[f][q], Vectors(ids, f))

\* The answer by an embedder that stored all records.
AnswerBy(e, q, k, ids) ==
    RecallFrom([Corpus EXCEPT !.using = e, !.memory = [i \in DOMAIN ids |-> <<ids[i], e>>],
                              !.tenants = "Optional"],
               [query |-> q, tenant |-> None, k |-> k, filter |-> NoFilter])

SameIds(answer, other) ==
    /\ Len(answer.candidates) = Len(other.candidates)
    /\ \A i \in DOMAIN answer.candidates : answer.candidates[i].id = other.candidates[i].id

\* Embeddings of a corpus by two embedders that pass a contract give the same answers:
\* if they are verified to be bit-exact, or if the ranking was verified and equals are
\* returned in the order of their places (DeterminismContract::verify, verify_ranking).
VerifiedEmbeddingsFixAnswers ==
    Quiet => \A e \in Embedders, q \in Query, ids \in {IdsOf(memory)} : \A f \in Embedders \ {e} :
        VerifiedExact(e, f, q, ids) \/ VerifiedRanking(e, f, q, ids) =>
            \A k \in TopK : SameIds(AnswerBy(e, q, k, ids), AnswerBy(f, q, k, ids))
=============================================================================
