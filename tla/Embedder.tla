------------------------------- MODULE Embedder -------------------------------
(***************************************************************************)
(* Embedders (llm/src/recall/embedder*.rs, pii.rs): a text becomes a vector,   *)
(* and an embedder declares how far it does so again.  A text is a sequence of *)
(* words and gaps; the kinds of personal data are words.  Vectors are tuples   *)
(* of integers and tolerances are counted in their unit.                       *)
(***************************************************************************)
EXTENDS Ordering, SequencesExt

CONSTANTS
    Embedders,   \* instances of embedders
    Family,      \* Family[e]: "hash", or the name of a semantic model
    Vector       \* Vector[e][text]: the vector e gives for a text

-----------------------------------------------------------------------------
(* Texts.                                                                    *)

\* The patterns in the order they are replaced; a placeholder is not personal data.
Patterns == <<"uuid", "ssn", "card", "ip", "email", "phone">>
Placeholder == [uuid |-> "<UUID>", ssn |-> "<SSN>", card |-> "<CC>", ip |-> "<IP>",
                email |-> "<EMAIL>", phone |-> "<PHONE>"]

RedactPii(text) ==
    FoldLeft(LAMBDA done, pattern :
                 [i \in DOMAIN done |-> IF done[i] = pattern THEN Placeholder[pattern] ELSE done[i]],
             text, Patterns)

\* collapse_whitespace and trim: of several gaps one stays, and none at an end.
CollapseGaps(text) ==
    LET inside == {i \in DOMAIN text :
            text[i] = "gap" => /\ i > 1 /\ text[i - 1] # "gap"
                               /\ \E j \in i + 1 .. Len(text) : text[j] # "gap"}
    IN  AtPlaces(text, Ascending(inside))

\* canonicalize_for_embedding; its hash is the embedding_input_hash of an envelope.
Canonical(text) == CollapseGaps(RedactPii(text))

-----------------------------------------------------------------------------
(* Vectors and contracts.                                                    *)

Dot(a, b) ==
    LET sum[i \in 0 .. Len(a)] == IF i = 0 THEN 0 ELSE sum[i - 1] + a[i] * b[i]
    IN  sum[Len(a)]
NormSquared(a) == Dot(a, a)

Quotient(d, n) == IF n = 0 THEN 0 ELSE (IF d < 0 THEN -1 ELSE 1) * ((100 * d * d) \div n)

\* cosine_similarity, as its square with its sign, in hundredths: ordered like the
\* cosine.  Vectors of different length or without a direction are unlike.
Cosine(a, b) ==
    IF Len(a) # Len(b) THEN 0 ELSE Quotient(Dot(a, b), NormSquared(a) * NormSquared(b))

\* DeterminismContract::bit_exact and its siblings: tolerances of the cosine and of an
\* element, and whether the ranking must be the same.
Contract(level) ==
    CASE level = "BitExact"       -> [level |-> level, cosine |-> 0, element |-> 0, ranking |-> TRUE]
      [] level = "SamePlatform"   -> [level |-> level, cosine |-> 0, element |-> 0, ranking |-> TRUE]
      [] level = "ToleranceBased" -> [level |-> level, cosine |-> 20, element |-> 1, ranking |-> TRUE]
      [] OTHER                    -> [level |-> level, cosine |-> 100, element |-> 1, ranking |-> FALSE]

\* DeterminismContract::verify, for two embeddings of one text.
Verify(contract, a, b) ==
    /\ Len(a) = Len(b)
    /\ contract.level = "BitExact" => a = b
    /\ contract.level = "SamePlatform" =>
           \A i \in DOMAIN a : a[i] - b[i] \in -contract.element .. contract.element
    /\ contract.level = "ToleranceBased" => 100 - Cosine(a, b) <= contract.cosine

\* The places of the vectors, those most like q first.
Ranking(q, vectors) ==
    LET likeness == [i \in DOMAIN vectors |-> Cosine(q, vectors[i])]
    IN  StablePlaces(likeness, LAMBDA a, b : a > b)

\* Mutant: both rankings are made with the first query.
VerifyRankingOneQuery(contract, qa, as, qb, bs) ==
    contract.ranking => Len(as) = Len(bs) /\ Ranking(qa, as) = Ranking(qa, bs)

\* DeterminismContract::verify_ranking.
VerifyRanking(contract, qa, as, qb, bs) ==
    contract.ranking => Len(as) = Len(bs) /\ Ranking(qa, as) = Ranking(qb, bs)

\* The test embedder has one name, whatever its dimensions; a semantic one that of
\* its model.
HashEmbedder == [id |-> "hash-embedder-test", revision |-> "1.0", max_input_length |-> 8192,
                 contract |-> Contract("BitExact")]
SemanticEmbedder(model) == [id |-> model, revision |-> "none", max_input_length |-> 512,
                            contract |-> Contract("SamePlatform")]

\* The embedder_id, settings_snapshot and determinism_contract of an embedder.
Declared(e) == IF Family[e] = "hash" THEN HashEmbedder ELSE SemanticEmbedder(Family[e])
=============================================================================
