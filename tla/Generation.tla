----------------------------- MODULE Generation -----------------------------
(***************************************************************************)
(* One engine generating text, call after call (llm/src/inference.rs,       *)
(* tokenizer.rs, model.rs, gemma.rs, engine.rs).  A call takes one of four    *)
(* paths: the reference engine's generate and generate_streaming, the Gemma   *)
(* engine's run on llama.cpp, and the Llama engine's run, whose loop is the    *)
(* library's and whose text is any of a given set.  The model's logits are arbitrary integers of a given set, the  *)
(* probability of a token is 2^logit, and quotients are rounded down.  A text  *)
(* is the sequence of its bytes.                                              *)
(***************************************************************************)
EXTENDS Ordering, SequencesExt

CONSTANTS
    Ascii,       \* byte tokens that are a character by themselves
    Lead, Trail, \* the two byte tokens of a two-byte character
    BOS, EOS,    \* special tokens; the decoder hides them
    Bad,         \* the replacement character
    Logits,      \* what the model may answer: functions from Token to Int
    Prompt,      \* prompts, as the byte tokens of their text
    Params,      \* generation parameters and stopping criteria of calls
    MaxContext,  \* the longest context of the model
    Grain,       \* a seed draws one of Grain equal parts of [0, 1)
    TokenizerType,
    Adapter,     \* the adapter the Llama engine has loaded, or Nothing
    Said,        \* what the library of the Llama engine may answer: texts
    Nothing

Token == Ascii \cup {Lead, Trail, BOS, EOS}

ASSUME GenerationAssumption ==
    /\ Token \subseteq Nat /\ {Lead, Trail, BOS, EOS} \cap Ascii = {}
    /\ Lead # Trail /\ {Lead, Trail} \cap {BOS, EOS} = {} /\ BOS # EOS
    /\ \A p \in Params : p.stop \subseteq Seq(Token)
    /\ Said \subseteq Seq(Token)
    /\ Logits \subseteq [Token -> Int] /\ Logits # {}
    /\ MaxContext \in Nat /\ Grain \in Nat \ {0}

VARIABLES
    loaded,      \* the reference model's weights are loaded
    call,        \* the call under way: its path, prompt length and params; or Nothing
    logits,      \* what the model answered for the next token, or Nothing
    tokens,      \* prompt and generated tokens
    generated,   \* the generated tokens
    told,        \* text handed to the streaming callback
    output,      \* Gemma: the text so far
    half,        \* Gemma: its decoder holds the first half of a character
    reply        \* the last call's result, or Nothing

genVars == <<loaded, call, logits, tokens, generated, told, output, half, reply>>

Path == {"generate", "streaming", "gemma", "llama"}
Failure == {"InvalidParams", "Tokenization", "ContextLengthExceeded",
          "ModelNotLoaded", "Inference", "AdapterError"}

GenTypes ==
    /\ loaded \in BOOLEAN /\ half \in BOOLEAN
    /\ call = Nothing \/ call.path \in Path
    /\ logits \in Logits \cup {Nothing}
    /\ tokens \in Seq(Token) /\ generated \in Seq(Token) /\ told \in Seq(Token)
    /\ output \in Seq(Token \cup {Bad})

GenInit ==
    /\ loaded = FALSE /\ call = Nothing /\ logits = Nothing /\ reply = Nothing
    /\ tokens = <<>> /\ generated = <<>> /\ told = <<>> /\ output = <<>>
    /\ half = FALSE

----------------------------------------------------------------------------
(* Text *)

\* A byte string is UTF-8 when every first half is followed by a second half
\* and every second half follows a first one.
Utf8(bytes) ==
    \A i \in 0..Len(bytes) :
        (i > 0 /\ bytes[i] = Lead) <=> (i < Len(bytes) /\ bytes[i + 1] = Trail)

\* The decoder drops special tokens and tokens that are not a byte.
Bytes(seq) == Only(seq, Ascii \cup {Lead, Trail})
Decodes(seq) == Utf8(Bytes(seq))

EncodeWithSpecial(prompt) == <<BOS>> \o prompt

OccursAt(text, s, i) == i + Len(s) <= Len(text) /\ SubSeq(text, i + 1, i + Len(s)) = s

\* Mutant: a stop sequence is looked for in the newest token only.
StoppedByPiece(text, stops) ==
    \E s \in stops : s = <<>> \/ (Len(s) = 1 /\ text # <<>> /\ s[1] = Last(text))

\* generate ends at any stop sequence, even at an empty one.
Stopped(text, stops) == \E s \in stops, i \in 0..Len(text) : OccursAt(text, s, i)

\* Gemma cuts the text at the first stop sequence; an empty one does not count.
Hits(text, stops) == {i \in 0..Len(text) : \E s \in stops \ {<<>>} : OccursAt(text, s, i)}
FirstStop(text, stops) == Min(Hits(text, stops))

----------------------------------------------------------------------------
(* Sampling *)

ValidateParams(p) ==
    /\ p.temperature >= 0
    /\ p.top_p > 0 /\ p.top_p <= 100
    /\ p.repetition_penalty >= 1

Occurrences(t, context) == Cardinality({i \in DOMAIN context : context[i] = t})

\* The reference engine applies the penalty once for every occurrence, the
\* sampler of llama.cpp once for every token that occurs.
Penalised(l, penalty, n) ==
    LET after[k \in 0..n] ==
            IF k = 0 THEN l
            ELSE IF after[k - 1] > 0 THEN after[k - 1] \div penalty
            ELSE after[k - 1] * penalty
    IN  after[n]

Tempered(l, temperature) == IF temperature > 1 THEN l \div temperature ELSE l

Scaled(p, path, context) ==
    [t \in Token |->
        LET n == Occurrences(t, context)
            times == IF path = "gemma" /\ n > 0 THEN 1 ELSE n
        IN  Tempered(Penalised(logits[t], p.repetition_penalty, times), p.temperature)]

Maximal(scaled) == {t \in Token : \A u \in Token : scaled[u] <= scaled[t]}

\* max_by keeps the last of several greatest elements.
Argmax(scaled) == Max(Maximal(scaled))

\* exp(logit - max), in units in which very small probabilities vanish
Softmax(scaled) ==
    LET top == scaled[Argmax(scaled)]
    IN  [t \in Token |-> IF top - scaled[t] > 12 THEN 0 ELSE 2 ^ (12 - (top - scaled[t]))]

Total(weight, set) == MapThenSumSet(LAMBDA t : weight[t], set)

Ranked(weight) ==
    SetToSortSeq(Token, LAMBDA a, b : weight[a] > weight[b] \/ (weight[a] = weight[b] /\ a < b))

\* Mutant: one token too many survives top-k.
ApplyTopKOneMore(seq, k) == IF k > 0 /\ k + 1 < Len(seq) THEN SubSeq(seq, 1, k + 1) ELSE seq

ApplyTopK(seq, k) == IF k > 0 /\ k < Len(seq) THEN SubSeq(seq, 1, k) ELSE seq

\* The tokens up to the first at which their sum reaches top_p percent of all.
ApplyTopP(seq, weight, p, all) ==
    LET enough == {n \in 1..Len(seq) :
            Total(weight, ToSet(SubSeq(seq, 1, n))) * 100 >= p * all}
    IN  IF p >= 100 \/ enough = {} THEN seq ELSE SubSeq(seq, 1, Min(enough))

\* The generator is made anew for every token: a seed draws the same number
\* each time.  Without a seed any token of positive probability may be drawn.
FromDistribution(kept, weight, seed) ==
    LET sum == Total(weight, ToSet(kept))
        above == {n \in 1..Len(kept) :
                    seed * sum < Total(weight, ToSet(SubSeq(kept, 1, n))) * Grain}
    IN  IF Len(kept) = 1 THEN {kept[1]}
        ELSE IF seed = Nothing THEN {t \in ToSet(kept) : weight[t] > 0}
        ELSE {kept[IF above = {} THEN Len(kept) ELSE Min(above)]}

Sample(p, context) ==
    LET scaled == Scaled(p, "generate", context)
        weight == Softmax(scaled)
        kept == ApplyTopP(ApplyTopK(Ranked(weight), p.top_k), weight, p.top_p,
                          Total(weight, Token))
    IN  IF p.temperature = 0 \/ p.top_k = 1 THEN {Argmax(scaled)}
        ELSE FromDistribution(kept, weight, p.seed)

IsDeterministic(p) == p.seed # Nothing /\ p.temperature = 0

\* llama.cpp's chain: penalties, then greedy; or temperature (zero leaves only a
\* greatest logit), top-k, top-p (of what top-k left) and a draw.
GemmaSample(p, context) ==
    LET scaled == Scaled(p, "gemma", context)
        weight == Softmax(scaled)
        few == ApplyTopK(Ranked(weight), p.top_k)
        kept == ApplyTopP(few, weight, p.top_p, Total(weight, ToSet(few)))
    IN  IF IsDeterministic(p) \/ p.temperature <= 0 THEN {Min(Maximal(scaled))}
        ELSE {t \in ToSet(kept) : weight[t] > 0}

----------------------------------------------------------------------------
(* The calls *)

Result(ok, err, text, finish) ==
    [path |-> call.path, params |-> call.params, prompt |-> call.prompt, ok |-> ok,
     err |-> err, text |-> text, count |-> Len(generated), told |-> told, finish |-> finish]

Fail(err) ==
    /\ reply' = Result(FALSE, err, <<>>, Nothing)
    /\ call' = Nothing /\ logits' = Nothing
    /\ UNCHANGED <<loaded, tokens, generated, told, output, half>>

\* The weights are loaded, from a path that exists or from the hub.
Load ==
    /\ ~loaded /\ loaded' = TRUE
    /\ UNCHANGED <<call, logits, tokens, generated, told, output, half, reply>>

\* A call arrives.  Its prompt is encoded in Start.
Begin(path, prompt, p) ==
    /\ call = Nothing
    /\ call' = [path |-> path, prompt |-> Len(EncodeWithSpecial(prompt)), params |-> p,
                started |-> FALSE]
    /\ tokens' = EncodeWithSpecial(prompt)
    /\ generated' = <<>> /\ told' = <<>> /\ output' = <<>> /\ half' = FALSE
    /\ logits' = Nothing /\ reply' = Nothing
    /\ UNCHANGED loaded

Reference == {"generate", "streaming"}

\* An envelope that names an adapter wants the one that is loaded; one that names
\* none is served with any.
ValidAdapter(p) == p.adapter \in {Nothing, Adapter}

Refused ==
    IF call.path \in Reference /\ ~ValidateParams(call.params) THEN "InvalidParams"
    ELSE IF call.path \in Reference /\ TokenizerType = "SentencePiece" THEN "Tokenization"
    ELSE IF call.path \in {"generate", "gemma"} /\ call.prompt + call.params.max_new > MaxContext
         THEN "ContextLengthExceeded"
    ELSE IF call.path = "llama" /\ ~ValidAdapter(call.params) THEN "AdapterError"
    ELSE Nothing

Start ==
    /\ call # Nothing /\ ~call.started
    /\ IF Refused # Nothing THEN Fail(Refused)
       ELSE /\ call' = [call EXCEPT !.started = TRUE]
            /\ UNCHANGED <<loaded, logits, tokens, generated, told, output, half, reply>>

UnderWay == call # Nothing /\ call.started
More == UnderWay /\ logits = Nothing /\ Len(generated) < call.params.max_new

\* next_token_logits of the reference model
Forward ==
    /\ More /\ call.path \in Reference
    /\ IF ~loaded THEN Fail("ModelNotLoaded")
       ELSE IF Len(tokens) > MaxContext THEN Fail("ContextLengthExceeded")
       ELSE /\ logits' \in Logits
            /\ UNCHANGED <<loaded, call, tokens, generated, told, output, half, reply>>

\* llama.cpp decodes the prompt or the last token; it may fail.
GemmaDecode ==
    /\ More /\ call.path = "gemma"
    /\ \/ Fail("Inference")
       \/ /\ logits' \in Logits
          /\ UNCHANGED <<loaded, call, tokens, generated, told, output, half, reply>>

\* The end of a call whose last token may just have been added.
Finish(gen, says) ==
    /\ reply' = [Result(Decodes(gen), IF Decodes(gen) THEN Nothing ELSE "Tokenization",
                        IF Decodes(gen) THEN Bytes(gen) ELSE <<>>, Nothing)
                 EXCEPT !.count = Len(gen), !.told = says]
    /\ call' = Nothing

\* generate after a token: the text so far must decode, and ends at a stop sequence.
Generate ==
    /\ UnderWay /\ call.path = "generate" /\ logits # Nothing
    /\ \E t \in Sample(call.params, tokens) :
        LET gen == Append(generated, t) IN
        /\ logits' = Nothing
        /\ IF t = EOS
           THEN Finish(generated, told) /\ UNCHANGED <<tokens, generated>>
           ELSE /\ tokens' = Append(tokens, t) /\ generated' = gen
                /\ IF \/ ~Decodes(gen)
                      \/ Stopped(Bytes(gen), call.params.stop)
                   THEN Finish(gen, told)
                   ELSE UNCHANGED <<call, reply>>
    /\ UNCHANGED <<loaded, told, output, half>>

\* Mutant: halves of a character are shown as the replacement character.
EmittedLossy(t) == IF Decodes(<<t>>) THEN Bytes(<<t>>) ELSE <<Bad>>

\* generate_streaming after a token: what decodes by itself goes to the callback.
Emitted(t) == IF Decodes(<<t>>) THEN Bytes(<<t>>) ELSE <<>>

GenerateStreaming ==
    /\ UnderWay /\ call.path = "streaming" /\ logits # Nothing
    /\ \E t \in Sample(call.params, tokens) :
        /\ logits' = Nothing
        /\ IF t = EOS
           THEN Finish(generated, told) /\ UNCHANGED <<tokens, generated, told>>
           ELSE /\ tokens' = Append(tokens, t) /\ generated' = Append(generated, t)
                /\ told' = told \o Emitted(t)
                /\ UNCHANGED <<call, reply>>
    /\ UNCHANGED <<loaded, output, half>>

\* Both loops end after max_new tokens.
LoopEnds ==
    /\ UnderWay /\ call.path \in Reference /\ logits = Nothing
    /\ Len(generated) >= call.params.max_new
    /\ Finish(generated, told)
    /\ UNCHANGED <<loaded, logits, tokens, generated, told, output, half>>

\* llama.cpp gives a token's bytes to an incremental decoder: a first half waits,
\* anything that does not belong becomes the replacement character.
Piece(t) ==
    LET broken == IF half THEN <<Bad>> ELSE <<>>
    IN  IF t = Trail THEN IF half THEN <<Lead, Trail>> ELSE <<Bad>>
        ELSE IF t = Lead THEN broken
        ELSE broken \o <<t>>

Returns(text, count, why) ==
    /\ reply' = [Result(TRUE, Nothing, text, why) EXCEPT !.count = count]
    /\ call' = Nothing

GemmaRun ==
    /\ UnderWay /\ call.path = "gemma" /\ logits # Nothing
    /\ \E t \in GemmaSample(call.params, tokens) :
        LET text == output \o Piece(t)
            hit == Hits(text, call.params.stop)
        IN
        /\ logits' = Nothing
        /\ IF t = EOS
           THEN /\ Returns(output, Len(generated), "Eos")
                /\ UNCHANGED <<tokens, generated, output, half>>
           ELSE /\ generated' = Append(generated, t)
                /\ half' = (t = Lead)
                /\ IF hit # {}
                   THEN /\ output' = SubSeq(text, 1, FirstStop(text, call.params.stop))
                        /\ Returns(output', Len(generated) + 1, "StopSequence")
                        /\ UNCHANGED tokens
                   ELSE /\ output' = text /\ tokens' = Append(tokens, t)
                        /\ UNCHANGED <<call, reply>>
    /\ UNCHANGED <<loaded, told>>

GemmaLength ==
    /\ UnderWay /\ call.path = "gemma" /\ logits = Nothing
    /\ Len(generated) >= call.params.max_new
    /\ Returns(output, Len(generated), "Length")
    /\ UNCHANGED <<loaded, logits, tokens, generated, told, output, half>>

\* The library generates, and is given no stop sequences: its text is returned as it
\* is.  Fewer tokens than allowed are read as an end token.
LlamaRun ==
    /\ UnderWay /\ call.path = "llama"
    /\ \E text \in Said, n \in 0..call.params.max_new :
        Returns(text, n, IF n < call.params.max_new THEN "Eos" ELSE "Length")
    /\ UNCHANGED <<loaded, logits, tokens, generated, told, output, half>>

GenNext ==
    \/ Load
    \/ \E path \in Path, prompt \in Prompt, p \in Params :
            Begin(path, prompt, p)
    \/ Start
    \/ Forward \/ Generate \/ GenerateStreaming \/ LoopEnds
    \/ GemmaDecode \/ GemmaRun \/ GemmaLength \/ LlamaRun

GenSpec == GenInit /\ [][GenNext]_genVars

----------------------------------------------------------------------------
(* Properties *)

\* A stop sequence ends the text on the two paths that look for them (inference.rs:184,
\* gemma.rs:309): generate's text may end with one and has none before, Gemma's has none
\* at all.  generate_streaming and the Llama engine's run do not apply them, though
\* inference.rs:32 says that "generation stops when any is produced": nothing is said
\* of their texts.
StopSequencesEndTheText ==
    reply # Nothing /\ reply.ok /\ reply.path \in {"generate", "gemma"} =>
        \A s \in reply.params.stop \ {<<>>}, i \in 0..Len(reply.text) :
            OccursAt(reply.text, s, i) => reply.path = "generate" /\ i + Len(s) = Len(reply.text)

\* What the callback was given is the returned text without the characters that
\* took two tokens (inference.rs:234): nothing is told twice, out of order or lost.
ToldIsReturned ==
    reply # Nothing /\ reply.ok /\ reply.path = "streaming" =>
        reply.told = Only(reply.text, Ascii)

\* A token is only chosen if it is among the top_k and if the more probable ones
\* do not already make up top_p (inference.rs:249, "keep smallest set with
\* cumulative prob >= p"); at temperature 0 none is more probable.
Likely(p, t, weight) ==
    LET better == {u \in Token : weight[u] > weight[t]}
    IN  /\ p.temperature = 0 => better = {}
        /\ p.top_k > 0 => Cardinality(better) < p.top_k
        /\ p.top_p < 100 /\ better # {} =>
               Total(weight, better) * 100 < p.top_p * Total(weight, Token)

SampledIsLikely ==
    [][ logits # Nothing /\ Len(generated') > Len(generated) =>
            Likely(call.params, Last(generated'),
                   Softmax(Scaled(call.params, call.path, tokens))) ]_genVars
=============================================================================
