----------------------------- MODULE AgentProofs -----------------------------
(***************************************************************************)
(* The suggestors and the program, for every set of agents, names, parsers   *)
(* and answers, and the generation of text, for every vocabulary, model and   *)
(* set of parameters.                                                        *)
(***************************************************************************)
EXTENDS Application, Generation, OrderingProofs, SequenceTheorems, FiniteSetTheorems, TLAPS

------------------------------------------------------------------------------
(* The suggestors: Suggestors.                                             *)

\* An agent that has contributed under its own name is not asked in this cycle.
Mine(a) == ~later /\ OwnPrefix(a)

Spoken(f) ==
    \/ f.by = "other" /\ \E w : f.id = Dashed(<<"other">>) \o <<w>>
    \/ f.by \in Agent /\ \E s \in Beginnings(f.by) : \E w : f.id = s \o <<w>>

\* Every id begins as the ids of its agent do.
IdsAreSpoken == \A f \in facts \cup pending \cup effects : Spoken(f)

\* What was proposed in this cycle comes of one call of each agent asked.
EffectsAreAsked ==
    \A f \in effects : f.by \in asked /\ \A g \in effects : g.by = f.by => g.call = f.call

\* Who was asked had not contributed.
AskedIsNew == \A a \in asked : Mine(a) => Contributions(a, facts) = {}

OneCall == \A a \in Agent : Mine(a) => \A f, g \in Contributions(a, facts) : f.call = g.call

SuggestInv ==
    /\ IdsAreSpoken /\ EffectsAreAsked /\ AskedIsNew /\ OneCall
    /\ ~later => pending = {}
    /\ asked \subseteq Agent
------------------------------------------------------------------------------

(* Adding one word to a sequence of words. *)
LEMMA OneMore ==
    ASSUME NEW V, NEW s \in Seq(V), NEW w
    PROVE  /\ Len(s) \in Nat /\ Len(s \o <<w>>) = Len(s) + 1
           /\ \A S : w \in S /\ V \subseteq S => s \o <<w>> \in Seq(S)
           /\ \A i \in 1 .. Len(s) : (s \o <<w>>)[i] = s[i]
           /\ (s \o <<w>>)[Len(s) + 1] = w
           /\ DOMAIN (s \o <<w>>) = 1 .. Len(s) + 1
<1> DEFINE W == V \cup {w}
<1>1. s \in Seq(W) /\ <<w>> \in Seq(W) /\ Len(<<w>>) = 1 /\ <<w>>[1] = w
  OBVIOUS
<1>2. s \o <<w>> \in Seq(W)
  BY <1>1, ConcatProperties
<1>3. /\ Len(s) \in Nat /\ Len(s \o <<w>>) = Len(s) + 1
      /\ \A i \in 1 .. Len(s) : (s \o <<w>>)[i] = s[i]
      /\ (s \o <<w>>)[Len(s) + 1] = w
  BY <1>1, ConcatProperties
<1>4. \A S : w \in S /\ V \subseteq S => s \o <<w>> \in Seq(S)
  <2> SUFFICES ASSUME NEW S, w \in S, V \subseteq S PROVE s \o <<w>> \in Seq(S)
    OBVIOUS
  <2>1. s \in Seq(S)
    <3>1. Len(s) \in Nat /\ s = [i \in 1 .. Len(s) |-> s[i]] /\ \A i \in 1 .. Len(s) : s[i] \in V
      OBVIOUS
    <3>2. \A i \in 1 .. Len(s) : s[i] \in S
      BY <3>1
    <3>3. s \in [1 .. Len(s) -> S]
      BY <3>1, <3>2
    <3> QED BY <3>1, <3>3
  <2>2. <<w>> \in Seq(S)
    OBVIOUS
  <2> QED BY <2>1, <2>2, ConcatProperties
<1>5. DOMAIN (s \o <<w>>) = 1 .. Len(s) + 1
  BY <1>2, <1>3
<1> QED BY <1>3, <1>4, <1>5

(* The last word of an id does not count for whether the id holds a name.   *)
LEMMA LastDoesNotCount ==
    ASSUME NEW V, NEW s \in Seq(V), NEW v, NEW w, NEW n \in Seq(V), Includes(s \o <<v>>, n)
    PROVE  Includes(s \o <<w>>, n)
<1> DEFINE W == V \cup {v, w}
<1>1. s \o <<v>> \in Seq(W) /\ s \o <<w>> \in Seq(W)
  BY OneMore
<1>2. Len(s) \in Nat /\ Len(s \o <<v>>) = Len(s) + 1 /\ Len(s \o <<w>>) = Len(s) + 1 /\ Len(n) \in Nat
  BY OneMore
<1>3. PICK i \in 0 .. (Len(s \o <<v>>) - Len(n) - 1) : SubSeq(s \o <<v>>, i + 1, i + Len(n)) = n
  BY DEF Includes
<1>4. i \in 0 .. (Len(s \o <<w>>) - Len(n) - 1) /\ i + Len(n) =< Len(s) /\ i \in Nat
  BY <1>2
<1>5. SubSeq(s \o <<w>>, i + 1, i + Len(n)) = SubSeq(s \o <<v>>, i + 1, i + Len(n))
  <2>1. CASE Len(n) = 0
    <3>1. i + 1 \in Int /\ i + Len(n) \in Int /\ i + Len(n) < i + 1
      BY <1>2, <1>4, <2>1
    <3> QED BY <3>1, SubSeqEmpty
  <2>2. CASE Len(n) > 0
    <3>1. i + 1 \in 1 .. Len(s) /\ i + Len(n) \in 1 .. Len(s)
      BY <1>2, <1>4, <2>2
    <3>2. s \in Seq(W) /\ <<v>> \in Seq(W) /\ <<w>> \in Seq(W)
      OBVIOUS
    <3> HIDE DEF W
    <3> QED BY <3>1, <3>2, SubSeqOfConcat1
  <2> QED BY <1>2, <2>1, <2>2
<1> QED BY <1>3, <1>4, <1>5 DEF Includes

LEMMA StartIsHeld ==
    ASSUME NEW V, NEW s \in Seq(V), NEW w, NEW n \in Seq(V), StartsWith(s \o <<w>>, n)
    PROVE  Includes(s \o <<w>>, n)
<1> DEFINE W == V \cup {w}
           id == s \o <<w>>
<1>1. id \in Seq(W) /\ n \in Seq(W)
  BY OneMore
<1>2. Len(s) \in Nat /\ Len(id) = Len(s) + 1 /\ Len(n) \in Nat
  BY OneMore
<1>3. Len(n) <= Len(id) /\ SubSeq(n, 1, Len(n)) = SubSeq(id, 1, Len(n)) /\ n # id
  BY DEF StartsWith, IsStrictPrefix, IsPrefix
<1> HIDE DEF W, id
<1>4. SubSeq(n, 1, Len(n)) = n /\ SubSeq(id, 1, Len(id)) = id
  BY <1>1, SubSeqFull
<1>5. Len(n) # Len(id)
  BY <1>3, <1>4
<1>6. 0 \in 0 .. (Len(id) - Len(n) - 1) /\ 0 + 1 = 1 /\ 0 + Len(n) = Len(n)
  BY <1>2, <1>3, <1>5
<1>7. Includes(id, n)
  BY <1>3, <1>4, <1>6 DEF Includes
<1> QED BY <1>7 DEF id

LEMMA OwnStart == ASSUME NEW V, NEW n \in Seq(V), NEW w PROVE StartsWith(n \o <<w>>, n)
<1> DEFINE W == V \cup {w}
           id == n \o <<w>>
<1>1. id \in Seq(W) /\ n \in Seq(W)
  BY OneMore
<1>2. Len(n) \in Nat /\ Len(id) = Len(n) + 1 /\ \A i \in 1 .. Len(n) : id[i] = n[i]
  BY OneMore
<1> HIDE DEF W, id
<1>3. SubSeq(n, 1, Len(n)) = SubSeq(id, 1, Len(n))
  BY <1>1, <1>2
<1>4. StartsWith(id, n)
  BY <1>2, <1>3 DEF StartsWith, IsStrictPrefix, IsPrefix
<1> QED BY <1>4 DEF id

LEMMA OneWord == ASSUME NEW S, NEW w \in S PROVE <<w>> \in Seq(S)
OBVIOUS

Word == STRING \cup {"insight:", "risk:", "none", "other", "-"}

LEMMA Words == ASSUME NEW s \in Seq(STRING) PROVE s \in Seq(Word)
<1>1. Len(s) \in Nat /\ s = [i \in 1 .. Len(s) |-> s[i]] /\ \A i \in 1 .. Len(s) : s[i] \in STRING
  OBVIOUS
<1>2. \A i \in 1 .. Len(s) : s[i] \in Word
  BY <1>1 DEF Word
<1>3. s \in [1 .. Len(s) -> Word]
  BY <1>1, <1>2
<1> QED BY <1>1, <1>3

LEMMA DashedIs == ASSUME NEW s \in Seq(Word) PROVE Dashed(s) \in Seq(Word)
<1>1. "-" \in Word
  BY DEF Word
<1> QED BY <1>1, OneMore DEF Dashed

LEMMA BeginningIs ==
    /\ \A a \in Agent : Dashed(Name[a]) \in Seq(Word) /\ \A s \in Beginnings(a) : s \in Seq(Word)
    /\ Dashed(<<"other">>) \in Seq(Word)
<1>1. <<"insight:">> \in Seq(Word) /\ <<"risk:">> \in Seq(Word)
      /\ <<"risk:", "none", "-">> \in Seq(Word) /\ Dashed(<<"other">>) \in Seq(Word)
  <2>1. "other" \in Word
    BY DEF Word
  <2>2. Dashed(<<"other">>) \in Seq(Word)
    BY <2>1, OneWord, DashedIs
  <2> QED BY <2>2 DEF Word
<1> SUFFICES ASSUME NEW a \in Agent
             PROVE  Dashed(Name[a]) \in Seq(Word) /\ \A s \in Beginnings(a) : s \in Seq(Word)
  BY <1>1
<1>2. /\ Kind[a] \in {"llm", "provider", "strategic", "risk"}
      /\ Dashed(Name[a]) \in Seq(Word) /\ Dashed(Prefix[a]) \in Seq(Word)
  BY SuggestorAssumption, Words, DashedIs
<1>4. CASE Kind[a] = "llm" BY <1>2, <1>4 DEF Beginnings
<1>5. CASE Kind[a] = "provider" BY <1>2, <1>5 DEF Beginnings
<1>6. CASE Kind[a] = "strategic" BY <1>1, <1>2, <1>6 DEF Beginnings
<1>7. CASE Kind[a] = "risk" BY <1>1, <1>2, <1>7 DEF Beginnings
<1> QED BY <1>2, <1>4, <1>5, <1>6, <1>7
------------------------------------------------------------------------------

LEMMA ProposesIs ==
    ASSUME NEW a \in Agent, NEW answer, NEW c, NEW p \in Proposes(a, answer, c)
    PROVE  p.by = a /\ p.call = c /\ Spoken(p)
<1>1. PICK k, i : p = [key |-> k, id |-> i, by |-> a, call |-> c] /\ \E s \in Beginnings(a) : \E w : i = s \o <<w>>
  <2>1. Kind[a] \in {"llm", "provider", "strategic", "risk"} /\ Parser[a] \in {"simple", "lines"}
    BY SuggestorAssumption
  <2>2. CASE Kind[a] = "llm"
    <3>1. p = [key |-> "Diagnostic", id |-> Dashed(Name[a]) \o <<"error">>, by |-> a, call |-> c]
      BY <2>2 DEF Proposes, LlmIds
    <3> QED BY <2>2, <3>1 DEF Beginnings
  <2>3. CASE Kind[a] = "provider" /\ Parser[a] = "simple"
    <3>1. p = [key |-> Target[a], id |-> Dashed(Prefix[a]) \o <<ToString(c)>>, by |-> a, call |-> c]
      BY <2>3 DEF Proposes, SimpleParser
    <3> QED BY <2>3, <3>1 DEF Beginnings
  <2>4. CASE Kind[a] = "provider" /\ Parser[a] = "lines"
    <3>1. PICK i : p = [key |-> Target[a], id |-> Dashed(Prefix[a]) \o <<ToString(i)>>, by |-> a, call |-> c]
      <4>1. p \in {[key |-> i[1], id |-> i[2], by |-> a, call |-> c] : i \in MultiLineParser(a, answer)}
        BY <2>4 DEF Proposes
      <4>2. PICK x \in MultiLineParser(a, answer) : p = [key |-> x[1], id |-> x[2], by |-> a, call |-> c]
        BY <4>1
      <4>3. PICK i : x = <<Target[a], Dashed(Prefix[a]) \o <<ToString(i)>>>>
        BY <4>2 DEF MultiLineParser
      <4> QED BY <4>2, <4>3
    <3> QED BY <2>4, <3>1 DEF Beginnings
  <2>5. CASE Kind[a] = "strategic"
    <3>1. PICK w : p = [key |-> "Hypotheses", id |-> <<"insight:", w>>, by |-> a, call |-> c]
      BY <2>5 DEF Proposes, StrategicIds
    <3>2. <<"insight:", w>> = <<"insight:">> \o <<w>>
      OBVIOUS
    <3> QED BY <2>5, <3>1, <3>2 DEF Beginnings
  <2>6. CASE Kind[a] = "risk"
    <3>1. PICK r : /\ p = [key |-> "Constraints", id |-> <<"risk:">> \o r, by |-> a, call |-> c]
                   /\ r = <<"none", "-", "identified">> \/ \E w : r = <<w>>
      BY <2>6 DEF Proposes, RiskIds
    <3>2. CASE r = <<"none", "-", "identified">>
      <4>1. <<"risk:">> \o r = <<"risk:", "none", "-">> \o <<"identified">>
        BY <3>2
      <4> QED BY <2>6, <3>1, <4>1 DEF Beginnings
    <3>3. CASE \E w : r = <<w>>
      BY <2>6, <3>1, <3>3 DEF Beginnings
    <3> QED BY <3>1, <3>2, <3>3
  <2> QED BY <2>1, <2>2, <2>3, <2>4, <2>5, <2>6
<1> QED BY <1>1 DEF Spoken

\* An agent that has contributed under its own name does not accept.
LEMMA AcceptsNew ==
    ASSUME NEW a \in Agent, IdsAreSpoken, OwnPrefix(a), Accepts(a)
    PROVE  Contributions(a, facts) = {}
<1> SUFFICES ASSUME NEW f \in facts, f.by = a, f.key = Writes(a) PROVE FALSE
  BY DEF Contributions
<1>1. PICK s \in Beginnings(a) : \E w : f.id = s \o <<w>>
  BY SuggestorAssumption DEF IdsAreSpoken, Spoken
<1>2. CASE Kind[a] = "llm"
  <2>1. s = Dashed(Name[a])
    BY <1>2 DEF Beginnings
  <2>2. StartsWith(f.id, Dashed(Name[a]))
    BY <1>1, <2>1, BeginningIs, OwnStart
  <2> QED BY <1>2, <2>2 DEF Accepts, LlmAccepts, Writes
<1>3. CASE Kind[a] = "provider"
  <2>1. s = Dashed(Name[a])
    BY <1>3 DEF Beginnings, OwnPrefix
  <2>2. StartsWith(f.id, Dashed(Name[a]))
    BY <1>1, <2>1, BeginningIs, OwnStart
  <2> QED BY <1>3, <2>2 DEF Accepts, ProviderAccepts, Writes
<1>4. CASE Kind[a] = "strategic" BY <1>4 DEF Accepts, StrategicAccepts, Writes, Has
<1>5. CASE Kind[a] = "risk" BY <1>5 DEF Accepts, RiskAccepts, Writes, Has
<1> QED BY <1>2, <1>3, <1>4, <1>5, SuggestorAssumption

LEMMA ExecuteKeeps ==
    ASSUME SuggestInv, NEW a \in Agent, Execute(a)
    PROVE  SuggestInv'
<1>1. PICK answer \in Chat(a) : effects' = effects \cup Proposes(a, answer, calls')
  BY DEF Execute
<1>2. /\ UNCHANGED <<facts, pending, later>> /\ asked' = asked \cup {a} /\ a \notin asked /\ Accepts(a)
  BY DEF Execute
<1>3. \A f \in Proposes(a, answer, calls') : f.by = a /\ f.call = calls' /\ Spoken(f)
  BY ProposesIs
<1>4. IdsAreSpoken'
  BY <1>1, <1>2, <1>3 DEF SuggestInv, IdsAreSpoken, Spoken
<1>5. EffectsAreAsked'
  BY <1>1, <1>2, <1>3 DEF SuggestInv, EffectsAreAsked
<1>6. AskedIsNew'
  BY <1>2, AcceptsNew DEF SuggestInv, AskedIsNew, Mine, Contributions, OwnPrefix
<1>7. OneCall'
  BY <1>2 DEF SuggestInv, OneCall, Mine, Contributions
<1> QED BY <1>2, <1>4, <1>5, <1>6, <1>7 DEF SuggestInv

LEMMA OtherKeeps ==
    ASSUME SuggestInv, NEW key, Other(key)
    PROVE  SuggestInv'
<1> DEFINE new == [key |-> key, id |-> Dashed(<<"other">>) \o <<key>>, by |-> "other", call |-> 0]
<1>1. /\ asked = {} /\ facts' = facts \cup {new} /\ UNCHANGED <<pending, effects, asked, calls, later>>
  BY DEF Other
<1>2. Spoken(new) /\ new.by \notin Agent
  BY SuggestorAssumption DEF Spoken
<1> HIDE DEF new
<1>3. \A b \in Agent : Contributions(b, facts)' = Contributions(b, facts)
  BY <1>1, <1>2 DEF Contributions
<1>4. IdsAreSpoken'
  BY <1>1, <1>2 DEF SuggestInv, IdsAreSpoken, Spoken
<1>5. OneCall' /\ AskedIsNew'
  BY <1>1, <1>3 DEF SuggestInv, OneCall, AskedIsNew, Mine
<1> QED BY <1>1, <1>4, <1>5 DEF SuggestInv, EffectsAreAsked

LEMMA EndCycleKeeps ==
    ASSUME SuggestInv, EndCycle
    PROVE  SuggestInv'
<1> DEFINE pool == {p \in pending \cup effects : ~Known(p)}
<1>1. PICK promoted \in SUBSET pool, kept \in SUBSET pool :
          /\ ~later => kept = {}
          /\ facts' = facts \cup promoted /\ pending' = kept
  BY DEF EndCycle
<1>2. effects' = {} /\ asked' = {} /\ later' = later
  BY DEF EndCycle
<1>3. promoted \subseteq pending \cup effects /\ kept \subseteq pending \cup effects
  OBVIOUS
<1>4. IdsAreSpoken'
  BY <1>1, <1>2, <1>3 DEF SuggestInv, IdsAreSpoken, Spoken
<1>5. OneCall'
  <2> SUFFICES ASSUME NEW b \in Agent, Mine(b), NEW f \in Contributions(b, facts'), NEW g \in Contributions(b, facts')
               PROVE  f.call = g.call
    BY <1>2 DEF OneCall, Mine, Contributions, OwnPrefix
  <2>1. pending = {}
    BY DEF SuggestInv, Mine
  <2>2. f \in facts \cup effects /\ g \in facts \cup effects /\ f.by = b /\ g.by = b
        /\ f.key = Writes(b) /\ g.key = Writes(b)
    BY <1>1, <1>3, <2>1 DEF Contributions
  <2>3. CASE b \in asked
    <3>1. Contributions(b, facts) = {}
      BY <2>3 DEF SuggestInv, AskedIsNew
    <3>2. f \in effects /\ g \in effects
      BY <2>2, <3>1 DEF Contributions
    <3> QED BY <2>2, <3>2 DEF SuggestInv, EffectsAreAsked
  <2>4. CASE b \notin asked
    <3>1. f \in Contributions(b, facts) /\ g \in Contributions(b, facts)
      BY <2>2, <2>4 DEF SuggestInv, EffectsAreAsked, Contributions
    <3> QED BY <3>1 DEF SuggestInv, OneCall
  <2> QED BY <2>3, <2>4
<1>6. AskedIsNew' /\ EffectsAreAsked' /\ asked' \subseteq Agent
  BY <1>2 DEF AskedIsNew, EffectsAreAsked
<1>7. (~later => pending = {})'
  BY <1>1, <1>2
<1> QED BY <1>4, <1>5, <1>6, <1>7 DEF SuggestInv

LEMMA InitSuggestInv == Init => SuggestInv
BY DEF Init, SuggestInv, IdsAreSpoken, EffectsAreAsked, AskedIsNew, OneCall, Contributions

LEMMA StillSuggestInv == ASSUME SuggestInv, UNCHANGED vars PROVE SuggestInv'
BY DEF vars, SuggestInv, IdsAreSpoken, Spoken, EffectsAreAsked, AskedIsNew, OneCall, Mine, OwnPrefix, Contributions

LEMMA NextSuggestInv == SuggestInv /\ [Next]_vars => SuggestInv'
BY ExecuteKeeps, OtherKeeps, EndCycleKeeps, StillSuggestInv DEF Next

LEMMA AnyLastWord ==
    ASSUME NEW s \in Seq(Word), NEW n \in Seq(Word), NEW w, Includes(s \o <<w>>, n)
    PROVE  Includes(s \o <<"x">>, n)
BY LastDoesNotCount

\* Whoever keeps an agent from being asked by the beginning of an id is the agent itself.
LEMMA HeldIsOwn ==
    ASSUME NEW a \in Agent, NameApart(a), NEW f, Spoken(f), Includes(f.id, Dashed(Name[a]))
    PROVE  f.by = a
<1>1. CASE f.by = "other"
  <2>1. PICK w : f.id = Dashed(<<"other">>) \o <<w>>
    BY <1>1, SuggestorAssumption DEF Spoken
  <2>2. Dashed(Name[a]) \in Seq(Word) /\ Dashed(<<"other">>) \in Seq(Word)
    BY BeginningIs
  <2>3. Includes(Dashed(<<"other">>) \o <<w>>, Dashed(Name[a]))
    BY <2>1
  <2>4. Includes(Dashed(<<"other">>) \o <<"x">>, Dashed(Name[a]))
    BY <2>2, <2>3, AnyLastWord
  <2> QED BY <2>4 DEF NameApart
<1>2. CASE f.by \in Agent /\ f.by # a /\ \E s \in Beginnings(f.by) : \E w : f.id = s \o <<w>>
  <2>1. PICK s \in Beginnings(f.by) : \E w : f.id = s \o <<w>>
    BY <1>2
  <2>2. s \in Seq(Word) /\ Dashed(Name[a]) \in Seq(Word)
    BY <1>2, BeginningIs
  <2>3. Includes(s \o <<"x">>, Dashed(Name[a]))
    BY <2>1, <2>2, AnyLastWord
  <2> QED BY <1>2, <2>3 DEF NameApart
<1> QED BY <1>1, <1>2 DEF Spoken

LEMMA StartOfSpoken ==
    ASSUME NEW a \in Agent, NEW f, Spoken(f), StartsWith(f.id, Dashed(Name[a]))
    PROVE  Includes(f.id, Dashed(Name[a]))
<1>1. PICK s \in Seq(Word) : \E w : f.id = s \o <<w>>
  <2>1. CASE \E w : f.id = Dashed(<<"other">>) \o <<w>>
    BY <2>1, BeginningIs
  <2>2. CASE f.by \in Agent /\ \E s \in Beginnings(f.by) : \E w : f.id = s \o <<w>>
    BY <2>2, BeginningIs
  <2> QED BY <2>1, <2>2 DEF Spoken
<1>2. PICK w : f.id = s \o <<w>>
  BY <1>1
<1>3. Dashed(Name[a]) \in Seq(Word) /\ StartsWith(s \o <<w>>, Dashed(Name[a]))
  BY <1>2, BeginningIs
<1>4. Includes(s \o <<w>>, Dashed(Name[a]))
  BY <1>3, StartIsHeld
<1> QED BY <1>2, <1>4

LEMMA OnceOnly == SuggestInv => EachAnswersOnce
<1> SUFFICES ASSUME SuggestInv, NEW a \in Agent
             PROVE  /\ ~later /\ OwnPrefix(a) => Cardinality({f.call : f \in Contributions(a, facts)}) <= 1
                    /\ /\ Kind[a] \in {"llm", "provider"} /\ NameApart(a)
                       /\ IF Kind[a] = "llm" THEN Has("Seeds") ELSE \E key \in Needs[a] : Has(key)
                       /\ ~Accepts(a)
                       => Contributions(a, facts \cup pending) # {}
  BY DEF EachAnswersOnce
<1>1. ASSUME ~later, OwnPrefix(a) PROVE Cardinality({f.call : f \in Contributions(a, facts)}) <= 1
  <2> DEFINE C == {f.call : f \in Contributions(a, facts)}
  <2>1. \A x, y \in C : x = y
    BY <1>1 DEF SuggestInv, OneCall, Mine
  <2>2. C = {} \/ \E x : C = {x}
    BY <2>1
  <2> HIDE DEF C
  <2>3. CASE C = {}
    <3>1. Cardinality(C) = 0
      BY <2>3, FS_EmptySet
    <3> QED BY <3>1 DEF C
  <2>4. CASE C # {}
    <3>1. PICK x : C = {x}
      BY <2>2, <2>4
    <3>2. Cardinality(C) = 1
      BY <3>1, FS_Singleton
    <3> QED BY <3>2 DEF C
  <2> QED BY <2>3, <2>4
<1>2. ASSUME NameApart(a), Kind[a] = "llm", Has("Seeds"), ~Accepts(a)
      PROVE  Contributions(a, facts \cup pending) # {}
  <2>1. PICK f \in facts \cup pending :
            f.key = Target[a] /\ (Includes(f.id, Dashed(Name[a])) \/ StartsWith(f.id, Dashed(Name[a])))
    BY <1>2 DEF Accepts, LlmAccepts
  <2>2. Spoken(f)
    BY DEF SuggestInv, IdsAreSpoken
  <2>3. f.by = a
    BY <1>2, <2>1, <2>2, StartOfSpoken, HeldIsOwn
  <2> QED BY <1>2, <2>1, <2>3 DEF Contributions, Writes
<1>3. ASSUME NameApart(a), Kind[a] = "provider", \E key \in Needs[a] : Has(key), ~Accepts(a)
      PROVE  Contributions(a, facts \cup pending) # {}
  <2>1. PICK f \in facts : f.key = Target[a] /\ StartsWith(f.id, Dashed(Name[a]))
    BY <1>3 DEF Accepts, ProviderAccepts
  <2>2. Spoken(f)
    BY DEF SuggestInv, IdsAreSpoken
  <2>3. f.by = a
    BY <1>3, <2>1, <2>2, StartOfSpoken, HeldIsOwn
  <2> QED BY <1>3, <2>1, <2>3 DEF Contributions, Writes
<1> QED BY <1>1, <1>2, <1>3

(* For any agents, names, parsers and answers: what is promoted of an agent   *)
(* comes from one call, if proposals are decided in their cycle and the       *)
(* agent's ids begin with its name; and an llm or provider agent is kept from *)
(* being asked by its own contribution alone, if nobody else's ids hold its   *)
(* name and a dash.                                                         *)
THEOREM AgentsAnswerOnce == AppSpec => []EachAnswersOnce
<1>1. AppInit => SuggestInv
  BY InitSuggestInv DEF AppInit
<1>2. SuggestInv /\ [AppNext]_appVars => SuggestInv'
  BY NextSuggestInv DEF AppNext, appVars
<1> QED BY <1>1, <1>2, OnceOnly, PTL DEF AppSpec

(* For any packs and jobs and any sequence of keys, the context view shows    *)
(* the facts of the job whose details are shown, if it kept any.              *)
THEOREM ContextFollowsDetail == AppSpec => []ContextIsOfDetail
<1>1. AppInit => ContextIsOfDetail
  BY DEF AppInit, ContextIsOfDetail
<1>2. ContextIsOfDetail /\ [AppNext]_appVars => ContextIsOfDetail'
  <2> SUFFICES ASSUME ContextIsOfDetail, [AppNext]_appVars PROVE ContextIsOfDetail'
    OBVIOUS
  <2>1. CASE UNCHANGED terminal
    BY <2>1 DEF terminal, ContextIsOfDetail
  <2>2. CASE PressKey
    <3>1. ASSUME UNCHANGED <<cache, detail, context>> PROVE ContextIsOfDetail'
      BY <3>1 DEF ContextIsOfDetail
    <3>2. CASE EnterJobDetail
      BY <3>2 DEF EnterJobDetail, ContextIsOfDetail
    <3>3. CASE SubmitJob
      BY <3>3, <3>1 DEF SubmitJob, ContextIsOfDetail
    <3>4. CASE \/ NextView \/ PrevView \/ Goto \/ Back \/ \E step \in {-1, 1} : Move(step)
               \/ HandleChar \/ HandleBackspace \/ EnterField \/ Quit
      BY <3>4, <3>1 DEF NextView, PrevView, Goto, Back, Move, HandleChar, HandleBackspace, EnterField, Quit
    <3> QED BY <2>2, <3>2, <3>3, <3>4 DEF PressKey
  <2> QED BY <2>1, <2>2 DEF AppNext, appVars, terminal
<1> QED BY <1>1, <1>2, PTL DEF AppSpec
------------------------------------------------------------------------------
(* The generation of text: Generation.                                     *)

Listing(s) == s \in Seq(ToSet(s))

NoStopIn(text, stops) == \A s \in stops \ {<<>>}, i \in 0 .. Len(text) : ~OccursAt(text, s, i)

GenLists ==
    /\ Listing(generated) /\ Listing(output)
    /\ call # Nothing => call.params \in Params

\* While a call is under way its text holds no stop sequence.
NoStopYet ==
    call # Nothing =>
        /\ call.path = "generate" => NoStopIn(Bytes(generated), call.params.stop)
        /\ call.path = "gemma" => NoStopIn(output, call.params.stop)

\* Until then the callback has what is a character by itself.
ToldSoFar ==
    call # Nothing /\ call.path = "streaming" => told = Only(Bytes(generated), Ascii)

GenInv ==
    /\ GenLists /\ NoStopYet /\ ToldSoFar
    /\ StopSequencesEndTheText /\ ToldIsReturned
------------------------------------------------------------------------------

(* A sequence is one of its own values. *)
LEMMA InItsValues ==
    ASSUME NEW W, NEW s \in Seq(W)
    PROVE  /\ Listing(s) /\ Len(s) \in Nat /\ DOMAIN s = 1 .. Len(s)
           /\ s = [i \in 1 .. Len(s) |-> s[i]] /\ \A i \in 1 .. Len(s) : s[i] \in W
<1>1. /\ Len(s) \in Nat /\ DOMAIN s = 1 .. Len(s)
      /\ s = [i \in 1 .. Len(s) |-> s[i]] /\ \A i \in 1 .. Len(s) : s[i] \in W
  OBVIOUS
<1>2. \A i \in 1 .. Len(s) : s[i] \in ToSet(s)
  BY <1>1 DEF ToSet
<1>3. s \in Seq(ToSet(s))
  BY <1>1, <1>2
<1> QED BY <1>1, <1>3 DEF Listing

LEMMA AppendIsListing ==
    ASSUME NEW s, Listing(s), NEW x
    PROVE  /\ Listing(Append(s, x)) /\ Len(s) \in Nat /\ Len(Append(s, x)) = Len(s) + 1
           /\ DOMAIN s = 1 .. Len(s) /\ DOMAIN Append(s, x) = 1 .. Len(s) + 1
           /\ \A i \in 1 .. Len(s) : Append(s, x)[i] = s[i]
           /\ Append(s, x)[Len(s) + 1] = x
<1> DEFINE W == ToSet(s) \cup {x}
<1>1. s \in Seq(W)
  <2>1. Len(s) \in Nat /\ s = [i \in 1 .. Len(s) |-> s[i]] /\ \A i \in 1 .. Len(s) : s[i] \in ToSet(s)
    BY DEF Listing
  <2> QED BY <2>1
<1> HIDE DEF W
<1>2. /\ Append(s, x) \in Seq(W \cup {x}) /\ Len(s) \in Nat /\ Len(Append(s, x)) = Len(s) + 1
      /\ \A i \in 1 .. Len(s) : Append(s, x)[i] = s[i]
      /\ Append(s, x)[Len(s) + 1] = x
      /\ DOMAIN s = 1 .. Len(s)
  <2>1. s \in Seq(W \cup {x}) /\ x \in W \cup {x}
    <3>1. x \in W
      BY DEF W
    <3> QED BY <1>1, <3>1
  <2> QED BY <2>1, AppendProperties
<1>3. Listing(Append(s, x))
  BY <1>2, InItsValues
<1> QED BY <1>2, <1>3

(* A filter keeps one more element behind the others, or drops it. *)
LEMMA OnlyAppend ==
    ASSUME NEW s, Listing(s), NEW x, NEW S
    PROVE  /\ Only(s, S) \in Seq(S)
           /\ Only(Append(s, x), S) = IF x \in S THEN Append(Only(s, S), x) ELSE Only(s, S)
<1>1. PICK n \in Nat : n = Len(s)
  BY AppendIsListing
<1>2. PICK t : t = Append(s, x)
  OBVIOUS
<1>3. DOMAIN s = 1 .. n /\ DOMAIN t = 1 .. n + 1 /\ t[n + 1] = x /\ \A i \in 1 .. n : t[i] = s[i]
  BY <1>1, <1>2, AppendIsListing
<1>4. PICK c \in Nat :
          /\ DOMAIN Only(s, S) = 1 .. c /\ Only(s, S) = [k \in 1 .. c |-> Only(s, S)[k]]
          /\ \A k \in 1 .. c : Only(s, S)[k] \in S
          /\ Only(t, S) = IF t[n + 1] \in S
                          THEN [k \in 1 .. c + 1 |-> IF k <= c THEN Only(s, S)[k] ELSE t[n + 1]]
                          ELSE Only(s, S)
  BY <1>3, OnlyGrows
<1>5. PICK o : o = Only(s, S)
  OBVIOUS
<1>6. o \in Seq(S) /\ Len(o) = c
  BY <1>4, <1>5
<1>7. CASE x \in S
  <2>1. /\ Append(o, x) \in Seq(S) /\ Len(Append(o, x)) = c + 1 /\ Append(o, x)[c + 1] = x
        /\ \A i \in 1 .. c : Append(o, x)[i] = o[i]
    BY <1>6, <1>7, AppendProperties
  <2>2. Append(o, x) = [k \in 1 .. c + 1 |-> Append(o, x)[k]]
    BY <2>1, InItsValues
  <2>3. \A k \in 1 .. c + 1 : Append(o, x)[k] = IF k <= c THEN o[k] ELSE x
    <3> TAKE k \in 1 .. c + 1
    <3>1. k \in 1 .. c \/ (k = c + 1 /\ ~(k <= c))
      OBVIOUS
    <3> QED BY <2>1, <3>1
  <2>4. Append(o, x) = [k \in 1 .. c + 1 |-> IF k <= c THEN o[k] ELSE x]
    BY <2>2, <2>3
  <2> QED BY <1>2, <1>3, <1>4, <1>5, <1>6, <1>7, <2>4
<1>8. CASE x \notin S
  BY <1>2, <1>3, <1>4, <1>5, <1>6, <1>8
<1> QED BY <1>7, <1>8

LEMMA OnlyEmpty == ASSUME NEW S PROVE Only(<<>>, S) = <<>> /\ Listing(<<>>)
<1>1. Only(<<>>, S) = AtPlaces(<<>>, Ascending({}))
  <2>1. {i \in DOMAIN <<>> : <<>>[i] \in S} = {}
    OBVIOUS
  <2> QED BY <2>1 DEF Only
<1>2. DOMAIN Ascending({}) = {}
  BY FS_EmptySet DEF Ascending, Ordered
<1>3. Only(<<>>, S) = [k \in {} |-> <<>>[Ascending({})[k]]]
  BY <1>1, <1>2 DEF AtPlaces
<1>4. Listing(<<>>)
  BY DEF Listing
<1> QED BY <1>3, <1>4

LEMMA BytesAppend ==
    ASSUME NEW s, Listing(s), NEW x
    PROVE  /\ Bytes(s) \in Seq(Ascii \cup {Lead, Trail}) /\ Listing(Bytes(s)) /\ Listing(Append(s, x))
           /\ Bytes(Append(s, x)) =
                  IF x \in Ascii \cup {Lead, Trail} THEN Append(Bytes(s), x) ELSE Bytes(s)
<1>1. PICK B : B = Ascii \cup {Lead, Trail}
  OBVIOUS
<1>2. /\ Only(s, B) \in Seq(B)
      /\ Only(Append(s, x), B) = IF x \in B THEN Append(Only(s, B), x) ELSE Only(s, B)
  BY OnlyAppend
<1>3. Listing(Only(s, B)) /\ Listing(Append(s, x))
  BY <1>2, AppendIsListing, InItsValues
<1> QED BY <1>1, <1>2, <1>3 DEF Bytes

(* What the callback is given of a token is what a filter of the text to        *)
(* characters of one byte keeps of it.                                        *)
LEMMA EmittedIs == ASSUME NEW t PROVE Emitted(t) = IF t \in Ascii THEN <<t>> ELSE <<>>
<1>1. <<t>> = Append(<<>>, t)
  OBVIOUS
<1>2. Bytes(<<t>>) = IF t \in Ascii \cup {Lead, Trail} THEN <<t>> ELSE <<>>
  <2>1. PICK e : e = <<>>
    OBVIOUS
  <2>2. Listing(e) /\ Bytes(e) = e /\ Append(e, t) = <<t>>
    BY <1>1, <2>1, OnlyEmpty DEF Bytes
  <2>3. Bytes(Append(e, t)) = IF t \in Ascii \cup {Lead, Trail} THEN Append(Bytes(e), t) ELSE Bytes(e)
    BY <2>2, BytesAppend
  <2> QED BY <2>1, <2>2, <2>3
<1>3. Lead \notin Ascii /\ Trail \notin Ascii /\ Lead # Trail
  BY GenerationAssumption
<1>4. CASE t \in Ascii
  <2>1. Bytes(<<t>>) = <<t>> /\ t # Lead /\ t # Trail
    BY <1>2, <1>3, <1>4
  <2>2. Utf8(<<t>>)
    BY <2>1 DEF Utf8
  <2> QED BY <1>4, <2>1, <2>2 DEF Emitted, Decodes
<1>5. CASE t \in {Lead, Trail}
  <2>1. Bytes(<<t>>) = <<t>> /\ t \notin Ascii
    BY <1>2, <1>3, <1>5
  <2>2. ~Utf8(<<t>>)
    <3>1. CASE t = Lead
      BY <1>3, <3>1, 1 \in 0 .. Len(<<t>>) DEF Utf8
    <3>2. CASE t = Trail
      BY <1>3, <3>2, 0 \in 0 .. Len(<<t>>) DEF Utf8
    <3> QED BY <1>5, <3>1, <3>2
  <2> QED BY <2>1, <2>2 DEF Emitted, Decodes
<1>6. CASE t \notin Ascii \cup {Lead, Trail}
  BY <1>2, <1>6 DEF Emitted
<1> QED BY <1>4, <1>5, <1>6

LEMMA ToldGrows ==
    ASSUME NEW s, Listing(s), NEW t
    PROVE  Only(Bytes(s), Ascii) \o Emitted(t) = Only(Bytes(Append(s, t)), Ascii)
<1>1. PICK b : b = Bytes(s)
  OBVIOUS
<1>2. PICK o : o = Only(b, Ascii)
  OBVIOUS
<1>3. /\ Listing(b) /\ o \in Seq(Ascii)
      /\ t \in Ascii => /\ Bytes(Append(s, t)) = Append(b, t)
                        /\ Only(Append(b, t), Ascii) = Append(o, t)
      /\ t \notin Ascii => /\ Bytes(Append(s, t)) = Append(b, t) \/ Bytes(Append(s, t)) = b
                           /\ Only(Append(b, t), Ascii) = o
  <2>1. /\ Bytes(s) \in Seq(Ascii \cup {Lead, Trail}) /\ Listing(Bytes(s))
        /\ Bytes(Append(s, t)) = IF t \in Ascii \cup {Lead, Trail} THEN Append(Bytes(s), t) ELSE Bytes(s)
    BY BytesAppend
  <2>2. Listing(b)
    BY <1>1, <2>1
  <2>3. /\ Only(b, Ascii) \in Seq(Ascii)
        /\ Only(Append(b, t), Ascii) = IF t \in Ascii THEN Append(Only(b, Ascii), t) ELSE Only(b, Ascii)
    BY <2>2, OnlyAppend
  <2>4. Only(b, Ascii) = o /\ Bytes(s) = b
    BY <1>1, <1>2
  <2>5. t \in Ascii => /\ Bytes(Append(s, t)) = Append(b, t)
                       /\ Only(Append(b, t), Ascii) = Append(o, t)
    BY <2>1, <2>3, <2>4, Zenon
  <2>6. t \notin Ascii => /\ Bytes(Append(s, t)) = Append(b, t) \/ Bytes(Append(s, t)) = b
                          /\ Only(Append(b, t), Ascii) = o
    BY <2>1, <2>3, <2>4, Zenon
  <2>7. o \in Seq(Ascii)
    BY <2>3, <2>4
  <2> QED BY <2>2, <2>5, <2>6, <2>7
<1>4. CASE t \in Ascii
  <2>1. o \o <<t>> = Append(o, t)
    BY <1>3, <1>4, AppendIsConcat
  <2>2. Emitted(t) = <<t>>
    BY <1>4, EmittedIs
  <2>3. Only(Bytes(Append(s, t)), Ascii) = Append(o, t)
    <3>1. Bytes(Append(s, t)) = Append(b, t) /\ Only(Append(b, t), Ascii) = Append(o, t)
      BY <1>3, <1>4, Zenon
    <3> QED BY <3>1, Zenon
  <2> QED BY <1>1, <1>2, <2>1, <2>2, <2>3
<1>5. CASE t \notin Ascii
  <2>1. o \o <<>> = o
    BY <1>3
  <2>2. Emitted(t) = <<>>
    BY <1>5, EmittedIs
  <2>3. Only(Bytes(Append(s, t)), Ascii) = o
    <3>1. /\ Bytes(Append(s, t)) = Append(b, t) \/ Bytes(Append(s, t)) = b
          /\ Only(Append(b, t), Ascii) = o /\ Only(b, Ascii) = o
      BY <1>2, <1>3, <1>5, Zenon
    <3> QED BY <3>1, Zenon
  <2> QED BY <1>1, <1>2, <2>1, <2>2, <2>3
<1> QED BY <1>4, <1>5

(* An occurrence, element by element. *)
Reads(text, s, i) == i + Len(s) <= Len(text) /\ \A k \in 1 .. Len(s) : text[i + k] = s[k]

LEMMA OccursIsReads ==
    ASSUME NEW text, Listing(text), NEW s, Listing(s), NEW i \in Nat
    PROVE  OccursAt(text, s, i) <=> Reads(text, s, i)
<1>1. PICK m \in Nat : m = Len(s)
  BY InItsValues DEF Listing
<1>2. PICK n \in Nat : n = Len(text)
  BY InItsValues DEF Listing
<1>3. SUFFICES ASSUME i + m <= n
               PROVE  SubSeq(text, i + 1, i + m) = s <=> \A k \in 1 .. m : text[i + k] = s[k]
  BY <1>1, <1>2 DEF OccursAt, Reads
<1>4. PICK b : b = SubSeq(text, i + 1, i + m)
  OBVIOUS
<1>5. b \in Seq(ToSet(text)) /\ Len(b) = m /\ \A k \in 1 .. m : b[k] = text[i + k]
  <2>1. \A k \in i + 1 .. i + m : text[k] \in ToSet(text)
    <3>1. \A k \in 1 .. n : text[k] \in ToSet(text)
      BY <1>2, InItsValues DEF Listing
    <3> QED BY <1>3, <3>1
  <2>2. i + 1 \in Int /\ i + m \in Int
    OBVIOUS
  <2>3. /\ b \in Seq(ToSet(text))
        /\ Len(b) = IF i + 1 <= i + m THEN (i + m) - (i + 1) + 1 ELSE 0
        /\ \A k \in 1 .. (i + m) - (i + 1) + 1 : b[k] = text[i + 1 + k - 1]
    BY <1>4, <2>1, <2>2, SubSeqProperties
  <2>4. (i + m) - (i + 1) + 1 = m
    OBVIOUS
  <2> QED BY <2>3, <2>4
<1>6. b = s <=> \A k \in 1 .. m : b[k] = s[k]
  <2>1. b = [k \in 1 .. m |-> b[k]]
    BY <1>5, InItsValues
  <2>2. s = [k \in 1 .. m |-> s[k]]
    BY <1>1, InItsValues DEF Listing
  <2> QED BY <2>1, <2>2
<1> QED BY <1>4, <1>5, <1>6

LEMMA StopsAreListings ==
    ASSUME NEW p \in Params, NEW s \in p.stop \ {<<>>}
    PROVE  Listing(s) /\ Len(s) \in Nat /\ Len(s) >= 1
<1>1. s \in Seq(Token) /\ s # <<>>
  BY GenerationAssumption
<1> QED BY <1>1, InItsValues

(* A text that holds no stop sequence, and one more token: it may hold one that *)
(* ends there.                                                                *)
LEMMA OnlyAtTheEnd ==
    ASSUME NEW p \in Params, NEW text, Listing(text), NoStopIn(text, p.stop), NEW x,
           NEW s \in p.stop \ {<<>>}, NEW i \in Nat, OccursAt(Append(text, x), s, i)
    PROVE  i + Len(s) = Len(Append(text, x))
<1>1. /\ Listing(Append(text, x)) /\ Len(text) \in Nat /\ Len(Append(text, x)) = Len(text) + 1
      /\ \A k \in 1 .. Len(text) : Append(text, x)[k] = text[k]
  BY AppendIsListing
<1>2. Listing(s) /\ Len(s) \in Nat /\ Len(s) >= 1
  BY StopsAreListings
<1>3. Reads(Append(text, x), s, i)
  BY <1>1, <1>2, OccursIsReads
<1>4. SUFFICES ASSUME i + Len(s) <= Len(text) PROVE FALSE
  BY <1>1, <1>2, <1>3 DEF Reads
<1>5. Reads(text, s, i)
  BY <1>1, <1>2, <1>3, <1>4 DEF Reads
<1>6. OccursAt(text, s, i) /\ i \in 0 .. Len(text)
  BY <1>1, <1>2, <1>4, <1>5, OccursIsReads
<1> QED BY <1>6 DEF NoStopIn

LEMMA NoStopInNothing == ASSUME NEW p \in Params PROVE NoStopIn(<<>>, p.stop)
<1> SUFFICES ASSUME NEW s \in p.stop \ {<<>>}, NEW i \in 0 .. 0, OccursAt(<<>>, s, i) PROVE FALSE
  BY DEF NoStopIn
<1> QED BY StopsAreListings DEF OccursAt

(* What is left of the text before the first stop sequence holds none. *)
LEMMA CutHoldsNone ==
    ASSUME NEW p \in Params, NEW text, Listing(text), Hits(text, p.stop) # {}
    PROVE  LET cut == SubSeq(text, 1, FirstStop(text, p.stop))
           IN  Listing(cut) /\ NoStopIn(cut, p.stop)
<1> DEFINE H == Hits(text, p.stop)
           m == FirstStop(text, p.stop)
           cut == SubSeq(text, 1, m)
<1>1. H \subseteq 0 .. Len(text) /\ Len(text) \in Nat
  BY InItsValues DEF Hits, Listing
<1>2. m \in H /\ \A y \in H : m <= y
  <2>1. \E x \in H : \A y \in H : ~(y < x)
    <3>1. H \subseteq Nat /\ H # {}
      BY <1>1
    <3> HIDE DEF H
    <3> QED BY <3>1, Least
  <2>2. \E x \in H : \A y \in H : x <= y
    BY <1>1, <2>1
  <2> QED BY <2>2 DEF FirstStop, Min
<1>3. m \in 0 .. Len(text)
  BY <1>1, <1>2
<1> HIDE DEF m, H
<1>4. /\ cut \in Seq(ToSet(text)) /\ Len(cut) = m /\ Listing(cut)
      /\ \A k \in 1 .. m : cut[k] = text[k]
  <2>1. \A k \in 1 .. m : text[k] \in ToSet(text)
    BY <1>1, <1>3, InItsValues DEF Listing
  <2>2. 1 \in Int /\ m \in Int /\ m - 1 + 1 = m
    BY <1>1, <1>3
  <2>3. /\ cut \in Seq(ToSet(text)) /\ Len(cut) = IF 1 <= m THEN m - 1 + 1 ELSE 0
        /\ \A k \in 1 .. m - 1 + 1 : cut[k] = text[1 + k - 1]
    BY <2>1, <2>2, SubSeqProperties
  <2> HIDE DEF cut
  <2>4. \A k \in 1 .. m : cut[k] = text[k]
    BY <1>3, <2>2, <2>3
  <2> QED BY <1>1, <1>3, <2>2, <2>3, <2>4, InItsValues
<1> HIDE DEF cut
<1>5. ASSUME NEW s \in p.stop \ {<<>>}, NEW i \in 0 .. Len(cut), OccursAt(cut, s, i) PROVE FALSE
  <2>1. Listing(s) /\ Len(s) \in Nat /\ Len(s) >= 1
    BY StopsAreListings
  <2>2. i \in Nat /\ i <= m /\ i \in 0 .. Len(text)
    BY <1>1, <1>3, <1>4
  <2>3. Reads(cut, s, i)
    BY <1>4, <1>5, <2>1, <2>2, OccursIsReads
  <2>4. i < m /\ Reads(text, s, i)
    <3>1. i + Len(s) <= m /\ \A k \in 1 .. Len(s) : cut[i + k] = s[k]
      BY <1>4, <2>3 DEF Reads
    <3>2. m \in Nat /\ m <= Len(text)
      BY <1>1, <1>3
    <3>3. \A k \in 1 .. Len(s) : i + k \in 1 .. m
      BY <2>1, <2>2, <3>1, <3>2
    <3>4. \A k \in 1 .. Len(s) : text[i + k] = s[k]
      BY <1>4, <3>1, <3>3
    <3> QED BY <1>1, <2>1, <2>2, <3>1, <3>2, <3>4 DEF Reads
  <2>5. OccursAt(text, s, i)
    BY <2>1, <2>2, <2>4, OccursIsReads
  <2>6. i \in H
    BY <2>2, <2>5 DEF H, Hits
  <2> QED BY <1>1, <1>2, <1>3, <2>2, <2>4, <2>6
<1> QED BY <1>4, <1>5 DEF NoStopIn, cut, m

(* Gemma's text grows by what the decoder makes of a token. *)
LEMMA PieceIsListing ==
    ASSUME NEW text, Listing(text), NEW t PROVE Listing(text \o Piece(t))
<1>1. PICK W : W = ToSet(text) \cup {Bad, Lead, Trail, t}
  OBVIOUS
<1>2. text \in Seq(W)
  <2>1. /\ Len(text) \in Nat /\ text = [i \in 1 .. Len(text) |-> text[i]]
        /\ \A i \in 1 .. Len(text) : text[i] \in ToSet(text)
    BY InItsValues DEF Listing
  <2> QED BY <1>1, <2>1
<1>3. Piece(t) \in Seq(W)
  <2>1. Bad \in W /\ Lead \in W /\ Trail \in W /\ t \in W
    BY <1>1
  <2>2. /\ <<>> \in Seq(W) /\ <<Bad>> \in Seq(W) /\ <<Lead, Trail>> \in Seq(W)
        /\ <<>> \o <<t>> \in Seq(W) /\ <<Bad>> \o <<t>> \in Seq(W)
    BY <2>1
  <2> QED BY <2>2 DEF Piece
<1>4. text \o Piece(t) \in Seq(W)
  BY <1>2, <1>3, ConcatProperties
<1> QED BY <1>4, InItsValues

LEMMA InitGenInv == GenInit => GenInv
BY OnlyEmpty DEF GenInit, GenInv, GenLists, NoStopYet, ToldSoFar, StopSequencesEndTheText, ToldIsReturned

(* Steps that end no call. *)
LEMMA WithoutReply ==
    ASSUME UNCHANGED reply, GenInv PROVE StopSequencesEndTheText' /\ ToldIsReturned'
BY DEF GenInv, StopSequencesEndTheText, ToldIsReturned

LEMMA FailKeeps == ASSUME GenInv, NEW err, Fail(err) PROVE GenInv'
<1>1. call' = Nothing /\ reply'.ok = FALSE
  BY DEF Fail, Result
<1>2. Listing(generated)' /\ Listing(output)'
  BY DEF Fail, GenInv, GenLists, Listing
<1> QED BY <1>1, <1>2 DEF GenInv, GenLists, NoStopYet, ToldSoFar, StopSequencesEndTheText, ToldIsReturned

\* A text in which a stop sequence can only be at the end of generate's.
Ends(path, p, text) ==
    \A s \in p.stop \ {<<>>}, i \in 0 .. Len(text) :
        OccursAt(text, s, i) => path = "generate" /\ i + Len(s) = Len(text)

(* The ends of the loops of the reference engine. *)
LEMMA FinishKeeps ==
    ASSUME GenInv, call # Nothing, NEW gen, Finish(gen, told),
           Listing(generated)', Listing(output)', call.path # "gemma",
           call.path = "generate" => Ends(call.path, call.params, Bytes(gen)),
           call.path = "streaming" => told = Only(Bytes(gen), Ascii)
    PROVE  GenInv'
<1>1. /\ call' = Nothing /\ reply'.path = call.path /\ reply'.params = call.params
      /\ reply'.told = told /\ reply'.ok = Decodes(gen)
      /\ Decodes(gen) => reply'.text = Bytes(gen)
  BY DEF Finish, Result
<1> QED BY <1>1 DEF GenInv, GenLists, NoStopYet, ToldSoFar, StopSequencesEndTheText, ToldIsReturned, Ends

LEMMA ReturnKeeps ==
    ASSUME GenInv, call # Nothing, NEW text, NEW count, NEW why, Returns(text, count, why),
           Listing(generated)', Listing(output)',
           call.path # "streaming" /\ (call.path = "gemma" => Ends(call.path, call.params, text)),
           call.path # "generate"
    PROVE  GenInv'
<1>1. call' = Nothing /\ reply'.path = call.path /\ reply'.params = call.params
      /\ reply'.text = text
  BY DEF Returns, Result
<1> QED BY <1>1 DEF GenInv, GenLists, NoStopYet, ToldSoFar, StopSequencesEndTheText, ToldIsReturned, Ends

LEMMA NextGenInv == GenInv /\ [GenNext]_genVars => GenInv'
<1> SUFFICES ASSUME GenInv, [GenNext]_genVars PROVE GenInv'
  OBVIOUS
<1> USE DEF GenInv
<1>1. CASE UNCHANGED genVars
  BY <1>1 DEF genVars, GenLists, NoStopYet, ToldSoFar, StopSequencesEndTheText, ToldIsReturned
<1>2. CASE Load
  BY <1>2 DEF Load, GenLists, NoStopYet, ToldSoFar, StopSequencesEndTheText, ToldIsReturned
<1>3. ASSUME NEW path \in Path, NEW prompt \in Prompt, NEW p \in Params, Begin(path, prompt, p)
      PROVE  GenInv'
  <2>1. /\ generated' = <<>> /\ output' = <<>> /\ told' = <<>> /\ reply' = Nothing
        /\ call'.path = path /\ call'.params = p
    BY <1>3 DEF Begin
  <2>2. Bytes(<<>>) = <<>> /\ Only(<<>>, Ascii) = <<>> /\ Listing(<<>>) /\ NoStopIn(<<>>, p.stop)
    BY OnlyEmpty, NoStopInNothing DEF Bytes
  <2> QED BY <2>1, <2>2 DEF GenLists, NoStopYet, ToldSoFar, StopSequencesEndTheText, ToldIsReturned
<1>4. CASE Start
  <2>1. CASE Refused # Nothing
    BY <1>4, <2>1, FailKeeps DEF Start
  <2>2. CASE Refused = Nothing
    <3>1. /\ call # Nothing /\ UNCHANGED <<generated, told, output, reply>>
          /\ call' = [call EXCEPT !.started = TRUE]
      BY <1>4, <2>2 DEF Start
    <3>2. call'.path = call.path /\ call'.params = call.params
      BY <3>1
    <3> QED BY <3>1, <3>2, WithoutReply DEF GenLists, NoStopYet, ToldSoFar
  <2> QED BY <2>1, <2>2
<1>5. ASSUME UNCHANGED <<call, tokens, generated, told, output, reply>> PROVE GenInv'
  BY <1>5, WithoutReply DEF GenLists, NoStopYet, ToldSoFar
<1>6. CASE Forward
  BY <1>5, <1>6, FailKeeps DEF Forward
<1>7. CASE GemmaDecode
  BY <1>5, <1>7, FailKeeps DEF GemmaDecode
<1>8. CASE LoopEnds
  <2>1. call # Nothing /\ Finish(generated, told) /\ UNCHANGED <<generated, output>>
        /\ call.path \in {"generate", "streaming"}
    BY <1>8 DEF LoopEnds, UnderWay, Reference
  <2>2. call.path = "generate" => Ends(call.path, call.params, Bytes(generated))
    BY <2>1 DEF NoStopYet, NoStopIn, Ends
  <2> QED BY <2>1, <2>2, FinishKeeps DEF GenLists, ToldSoFar
<1>9. CASE Generate
  <2>1. call # Nothing /\ call.path = "generate" /\ UNCHANGED <<told, output>>
        /\ call.params \in Params
    BY <1>9 DEF Generate, UnderWay, GenLists
  <2>2. PICK t : LET gen == Append(generated, t) IN
          IF t = EOS
          THEN Finish(generated, told) /\ UNCHANGED <<tokens, generated>>
          ELSE /\ tokens' = Append(tokens, t) /\ generated' = gen
               /\ IF \/ ~Decodes(gen)
                     \/ Stopped(Bytes(gen), call.params.stop)
                  THEN Finish(gen, told)
                  ELSE UNCHANGED <<call, reply>>
    BY <1>9 DEF Generate
  <2>3. NoStopIn(Bytes(generated), call.params.stop) /\ Listing(generated) /\ Listing(output)
    BY <2>1 DEF NoStopYet, GenLists
  <2>4. CASE t = EOS
    <3>1. Ends(call.path, call.params, Bytes(generated))
      BY <2>3 DEF NoStopIn, Ends
    <3> QED BY <2>1, <2>2, <2>3, <2>4, <3>1, FinishKeeps
  <2>5. CASE t # EOS
    <3>1. PICK gen : gen = Append(generated, t)
      OBVIOUS
    <3>2. Listing(gen) /\ generated' = gen
      BY <2>2, <2>3, <2>5, <3>1, AppendIsListing
    <3>3. CASE ~Decodes(gen) \/ Stopped(Bytes(gen), call.params.stop)
      <4>1. Ends("generate", call.params, Bytes(gen))
        <5> SUFFICES ASSUME NEW s \in call.params.stop \ {<<>>}, NEW i \in 0 .. Len(Bytes(gen)),
                            OccursAt(Bytes(gen), s, i)
                     PROVE  i + Len(s) = Len(Bytes(gen))
          BY DEF Ends
        <5>1. /\ Listing(Bytes(generated))
              /\ Bytes(gen) = Append(Bytes(generated), t) \/ Bytes(gen) = Bytes(generated)
          BY <2>3, <3>1, BytesAppend
        <5>2. Bytes(gen) # Bytes(generated)
          BY <2>3 DEF NoStopIn
        <5>3. i \in Nat
          OBVIOUS
        <5>4. Bytes(gen) = Append(Bytes(generated), t)
          BY <5>1, <5>2
        <5>5. OccursAt(Append(Bytes(generated), t), s, i)
          BY <5>4
        <5>6. i + Len(s) = Len(Append(Bytes(generated), t))
          BY <2>1, <2>3, <5>1, <5>3, <5>5, OnlyAtTheEnd
        <5> QED BY <5>4, <5>6
      <4> QED BY <2>1, <2>2, <2>3, <2>5, <3>1, <3>2, <3>3, <4>1, FinishKeeps
    <3>4. CASE ~Stopped(Bytes(gen), call.params.stop) /\ Decodes(gen)
      <4>1. UNCHANGED <<call, reply>>
        BY <2>2, <2>5, <3>1, <3>4
      <4>2. NoStopIn(Bytes(gen), call.params.stop)
        BY <3>4 DEF Stopped, NoStopIn
      <4> QED BY <2>1, <2>3, <3>2, <4>1, <4>2, WithoutReply DEF GenLists, NoStopYet, ToldSoFar
    <3> QED BY <3>3, <3>4
  <2> QED BY <2>4, <2>5
<1>10. CASE GenerateStreaming
  <2>1. call # Nothing /\ call.path = "streaming" /\ UNCHANGED output
        /\ Listing(generated) /\ Listing(output) /\ told = Only(Bytes(generated), Ascii)
    BY <1>10 DEF GenerateStreaming, UnderWay, GenLists, ToldSoFar
  <2>2. PICK t :
          IF t = EOS
          THEN Finish(generated, told) /\ UNCHANGED <<tokens, generated, told>>
          ELSE /\ tokens' = Append(tokens, t) /\ generated' = Append(generated, t)
               /\ told' = told \o Emitted(t)
               /\ UNCHANGED <<call, reply>>
    BY <1>10 DEF GenerateStreaming
  <2>3. CASE t = EOS
    BY <2>1, <2>2, <2>3, FinishKeeps
  <2>4. CASE t # EOS
    <3>1. told' = Only(Bytes(generated'), Ascii) /\ Listing(generated')
      <4>1. generated' = Append(generated, t) /\ told' = told \o Emitted(t)
        BY <2>2, <2>4
      <4>2. Only(Bytes(generated), Ascii) \o Emitted(t) = Only(Bytes(Append(generated, t)), Ascii)
        BY <2>1, ToldGrows
      <4>3. Listing(Append(generated, t))
        BY <2>1, AppendIsListing
      <4> QED BY <2>1, <4>1, <4>2, <4>3
    <3> QED BY <2>1, <2>2, <2>4, <3>1, WithoutReply DEF GenLists, NoStopYet, ToldSoFar
  <2> QED BY <2>3, <2>4
<1>11. CASE GemmaRun
  <2>1. call # Nothing /\ call.path = "gemma" /\ call.params \in Params
        /\ Listing(generated) /\ Listing(output) /\ NoStopIn(output, call.params.stop)
        /\ UNCHANGED told
    BY <1>11 DEF GemmaRun, UnderWay, GenLists, NoStopYet
  <2>2. PICK t : LET text == output \o Piece(t)
                     hit == Hits(text, call.params.stop)
                 IN
          IF t = EOS
          THEN Returns(output, Len(generated), "Eos") /\ UNCHANGED <<generated, output>>
          ELSE /\ generated' = Append(generated, t)
               /\ IF hit # {}
                  THEN /\ output' = SubSeq(text, 1, FirstStop(text, call.params.stop))
                       /\ Returns(output', Len(generated) + 1, "StopSequence")
                  ELSE output' = text /\ UNCHANGED <<call, reply>>
    BY <1>11 DEF GemmaRun
  <2>3. CASE t = EOS
    <3>1. Ends(call.path, call.params, output)
      BY <2>1 DEF NoStopIn, Ends
    <3> QED BY <2>1, <2>2, <2>3, <3>1, ReturnKeeps
  <2>4. CASE t # EOS
    <3>1. PICK text : text = output \o Piece(t)
      OBVIOUS
    <3>2. Listing(text) /\ Listing(generated')
      <4>1. Listing(output \o Piece(t)) /\ Listing(Append(generated, t))
        BY <2>1, PieceIsListing, AppendIsListing
      <4>2. generated' = Append(generated, t)
        BY <2>2, <2>4
      <4> QED BY <3>1, <4>1, <4>2
    <3>3. CASE Hits(text, call.params.stop) # {}
      <4>1. output' = SubSeq(text, 1, FirstStop(text, call.params.stop))
            /\ Returns(output', Len(generated) + 1, "StopSequence")
        BY <2>2, <2>4, <3>1, <3>3
      <4>2. Listing(output') /\ NoStopIn(output', call.params.stop)
        BY <2>1, <3>2, <3>3, <4>1, CutHoldsNone
      <4>3. Ends(call.path, call.params, output')
        BY <4>2 DEF NoStopIn, Ends
      <4> QED BY <2>1, <3>2, <4>1, <4>2, <4>3, ReturnKeeps
    <3>4. CASE Hits(text, call.params.stop) = {}
      <4>1. output' = text /\ UNCHANGED <<call, reply>>
        BY <2>2, <2>4, <3>1, <3>4
      <4>2. NoStopIn(text, call.params.stop)
        BY <3>4 DEF Hits, NoStopIn
      <4> QED BY <2>1, <3>2, <4>1, <4>2, WithoutReply DEF GenLists, NoStopYet, ToldSoFar
    <3> QED BY <3>3, <3>4
  <2> QED BY <2>3, <2>4
<1>12. CASE GemmaLength
  <2>1. call # Nothing /\ call.path = "gemma" /\ Returns(output, Len(generated), "Length")
        /\ UNCHANGED <<generated, output>>
    BY <1>12 DEF GemmaLength, UnderWay
  <2>2. Ends(call.path, call.params, output)
    BY <2>1 DEF NoStopYet, NoStopIn, Ends
  <2> QED BY <2>1, <2>2, ReturnKeeps DEF GenLists
<1>13. CASE LlamaRun
  <2>1. PICK text, n, why : Returns(text, n, why)
    BY <1>13 DEF LlamaRun
  <2>2. call # Nothing /\ call.path = "llama" /\ UNCHANGED <<generated, output>>
    BY <1>13 DEF LlamaRun, UnderWay
  <2> QED BY <2>1, <2>2, ReturnKeeps DEF GenLists
<1> QED BY <1>1, <1>2, <1>3, <1>4, <1>6, <1>7, <1>8, <1>9, <1>10, <1>11, <1>12, <1>13 DEF GenNext

(* For any vocabulary, model and parameters: a stop sequence is at most the   *)
(* end of the text of generate, and nowhere in Gemma's (inference.rs:184,     *)
(* gemma.rs:309); nothing is said of the two paths that do not look for one.  *)
THEOREM StopsEndTheText == GenSpec => []StopSequencesEndTheText
<1>1. GenInv => StopSequencesEndTheText
  BY DEF GenInv
<1> QED BY <1>1, InitGenInv, NextGenInv, PTL DEF GenSpec

(* For any vocabulary and model, the callback was given the returned text but *)
(* for the characters that took two tokens (inference.rs:234).                *)
THEOREM StreamIsReturned == GenSpec => []ToldIsReturned
<1>1. GenInv => ToldIsReturned
  BY DEF GenInv
<1> QED BY <1>1, InitGenInv, NextGenInv, PTL DEF GenSpec
=============================================================================
