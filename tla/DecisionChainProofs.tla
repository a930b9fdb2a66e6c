------------------------ MODULE DecisionChainProofs ------------------------
(***************************************************************************)
(* Proofs for DecisionChain and KernelRpc.                                    *)
(* The chain that the code holds is a record of its request: each trace is what   *)
(* its step makes of a prompt and a text, shows the state that the trace before    *)
(* left, and, for a seeded request that was made before, is the trace of then.     *)
(***************************************************************************)
EXTENDS KernelRpc, FiniteSetTheorems, WellFoundedInduction, TLAPS

----------------------------------------------------------------------------
(* The invariant *)

Showing(s) == IF IsEmpty(s) THEN {} ELSE {s}

\* The state that a step leaves to the next one.
Left(t) ==
    LET s == IF Shown(t.prompt) = {} THEN EmptyState ELSE CHOOSE s \in Shown(t.prompt) : TRUE
    IN  Merge(s, ToInjection(Signals(t.step, t.output)))

\* What the i-th step of a request records of a prompt and the text it got.
TraceOf(r, i, prompt, out) ==
    [step |-> Steps[i], valid |-> Valid(out, StepPlan(r, Steps[i]).contract),
     output |-> out, prompt |-> prompt]

ChainOf(id, traces, completed, failed, final) ==
    [id |-> id, traces |-> traces, completed |-> completed, failed |-> failed, final |-> final]

Named(c, id) == [c EXCEPT !.id = id]

Longer(c, traces) == [c EXCEPT !.traces = traces]

Stopped(c, step) == [c EXCEPT !.failed = step]

Completed(c, yes, out) == [c EXCEPT !.completed = yes, !.final = out]

ChainRecord(c) ==
    /\ c = ChainOf(c.id, c.traces, c.completed, c.failed, c.final)
    /\ c.traces \in Seq(Range(c.traces)) /\ Len(c.traces) <= 3

\* The traces are those of the request's steps, and each step was shown the state that
\* the step before left.
Traced(c, r) ==
    \A i \in DOMAIN c.traces :
        /\ c.traces[i] = TraceOf(r, i, c.traces[i].prompt, c.traces[i].output)
        /\ i > 1 => Shown(c.traces[i].prompt) = Showing(Left(c.traces[i - 1]))

\* The k-th step of the request lengthens the chain c to d.
Lengthens(c, d, r, k, prompt, out) ==
    /\ ChainRecord(c) /\ Traced(c, r) /\ Len(c.traces) = k - 1
    /\ d.traces = Append(c.traces, TraceOf(r, k, prompt, out))
    /\ k > 1 => Shown(prompt) = Showing(Left(c.traces[k - 1]))

\* d has the traces of c and one more.
OneMore(c, d, k, trace) ==
    /\ d.traces \in Seq(Range(d.traces)) /\ Len(d.traces) = k
    /\ DOMAIN d.traces = 1 .. k /\ DOMAIN c.traces = 1 .. k - 1
    /\ \A i \in 1 .. k - 1 : d.traces[i] = c.traces[i]
    /\ d.traces[k] = trace

\* k steps were valid and nothing else is known.
Underway(c, k) ==
    /\ Len(c.traces) = k /\ \A i \in 1 .. k : c.traces[i].valid
    /\ c.completed = FALSE /\ c.failed = "none" /\ c.final = <<>>

\* All but the last step were valid, and the last one too if the chain is complete.
Finished(c) ==
    LET n == Len(c.traces) IN
    /\ n \in 1 .. 3 /\ \A i \in 1 .. n - 1 : c.traces[i].valid
    /\ \/ n = 3 /\ c.traces[3].valid /\ c.completed = TRUE /\ c.failed = "none" /\ c.final = c.traces[3].output
       \/ ~c.traces[n].valid /\ c.completed = FALSE /\ c.failed = Steps[n] /\ c.final = <<>>

ChainOK == ChainRecord(chain) /\ Traced(chain, req)

PcOK ==
    /\ pc \in {"idle", "judged", "propose", "Reasoning", "Evaluation", "Planning"}
    /\ \A k \in 1 .. 3 : pc = Steps[k] =>
          /\ Underway(chain, k - 1)
          /\ k > 1 => state = Left(chain.traces[k - 1])
    /\ pc = "propose" => Finished(chain)
    /\ pc \notin {"idle", "judged"} => answer = NoAnswer

AnswerOK == answer # NoAnswer => Finished(chain) /\ answer = Proposal(chain, req)

BeforeOK ==
    \A b \in before :
        /\ ChainRecord(b.chain) /\ Traced(b.chain, b.req) /\ Finished(b.chain)
        /\ b.answer = Proposal(b.chain, b.req)

\* As long as equal states are rendered alike, a seeded request retraces its steps.
Retraces ==
    \A b \in before :
        b.req = req /\ req.policy.seeded /\ SamePlaces(b)
            => \A i \in DOMAIN chain.traces \cap DOMAIN b.chain.traces : chain.traces[i] = b.chain.traces[i]

ChainInv == ChainOK /\ PcOK /\ AnswerOK /\ BeforeOK /\ Retraces
----------------------------------------------------------------------------
(* Lemmas about the operators *)

\* The three steps are different.
LEMMA StepsAre ==
    /\ DOMAIN Steps = 1 .. 3 /\ Range(Steps) = {"Reasoning", "Evaluation", "Planning"}
    /\ Steps[1] = "Reasoning" /\ Steps[2] = "Evaluation" /\ Steps[3] = "Planning"
<1>1. DOMAIN Steps = 1 .. 3 /\ Steps[1] = "Reasoning" /\ Steps[2] = "Evaluation" /\ Steps[3] = "Planning"
  BY DEF Steps
<1>2. \A i \in 1 .. 3 : i = 1 \/ i = 2 \/ i = 3
  OBVIOUS
<1> QED BY <1>1, <1>2 DEF Range

\* A sequence stays one when something is appended.
LEMMA Appended ==
    ASSUME NEW s, s \in Seq(Range(s)), NEW e
    PROVE  /\ Append(s, e) \in Seq(Range(Append(s, e)))
           /\ Len(Append(s, e)) = Len(s) + 1 /\ DOMAIN Append(s, e) = 1 .. Len(s) + 1
           /\ DOMAIN s = 1 .. Len(s) /\ Len(s) \in Nat
           /\ \A i \in 1 .. Len(s) : Append(s, e)[i] = s[i]
           /\ Append(s, e)[Len(s) + 1] = e
<1> DEFINE T == Range(s) \cup {e}
<1>1. s \in Seq(T) /\ e \in T
  OBVIOUS
<1>2. /\ Len(Append(s, e)) = Len(s) + 1 /\ DOMAIN Append(s, e) = 1 .. Len(s) + 1
      /\ DOMAIN s = 1 .. Len(s) /\ Len(s) \in Nat
      /\ \A i \in 1 .. Len(s) : Append(s, e)[i] = s[i]
      /\ Append(s, e)[Len(s) + 1] = e
  BY <1>1
<1>3. Append(s, e) \in Seq(T)
  BY <1>1
<1>4. \A i \in 1 .. Len(s) + 1 : Append(s, e)[i] \in Range(Append(s, e))
  BY <1>2 DEF Range
<1>5. Append(s, e) \in Seq(Range(Append(s, e)))
  BY <1>2, <1>3, <1>4
<1> QED BY <1>2, <1>5

\* Merging into any empty state gives the same.
LEMMA MergeEmpty ==
    ASSUME NEW s, NEW o, IsEmpty(s)
    PROVE  Merge(s, o) = Merge(EmptyState, o)
<1>1. ASSUME NEW f, NEW g, NEW h, DOMAIN g = {}, DOMAIN h = {}
      PROVE  Over(f, g) = Over(f, h)
  BY <1>1 DEF Over
<1>2. DOMAIN s.scalars = {} /\ DOMAIN s.lists = {} /\ s.records = <<>>
  BY DEF IsEmpty
<1>3. DOMAIN EmptyState.scalars = {} /\ DOMAIN EmptyState.lists = {} /\ EmptyState.records = <<>>
  <2>1. EmptyState.scalars = [k \in {} |-> 0] /\ EmptyState.lists = [k \in {} |-> 0]
    BY DEF EmptyState
  <2>2. EmptyState.records = <<>>
    BY DEF EmptyState
  <2> QED BY <2>1, <2>2
<1>4. Over(o.scalars, s.scalars) = Over(o.scalars, EmptyState.scalars)
  BY <1>1, <1>2, <1>3
<1>5. Over(o.lists, s.lists) = Over(o.lists, EmptyState.lists)
  BY <1>1, <1>2, <1>3
<1> QED BY <1>2, <1>3, <1>4, <1>5 DEF Merge

\* Whether a text is valid is a truth value.
LEMMA ValidIsBoolean == \A out, c : Valid(out, c) \in BOOLEAN
BY DEF Valid

\* A rendered prompt shows the state it was rendered from.
LEMMA RenderShows ==
    ASSUME NEW s, NEW rendering \in Renderings(s), NEW frame, NEW intent
    PROVE  Shown(Render(frame, rendering, intent)) = Showing(s)
<1>1. rendering.state = s
  BY DEF Renderings
<1>2. Render(frame, rendering, intent).state = IF IsEmpty(s) THEN {} ELSE {rendering}
  BY <1>1 DEF Render
<1>3. CASE IsEmpty(s)
  BY <1>2, <1>3 DEF Shown, Showing
<1>4. CASE ~IsEmpty(s)
  BY <1>1, <1>2, <1>4 DEF Shown, Showing
<1> QED BY <1>3, <1>4

----------------------------------------------------------------------------
(* The invariant holds *)

\* The fields of a chain, and changing them.
LEMMA ChainFields ==
    ASSUME NEW c, NEW id, NEW ts, NEW b, NEW f, NEW e, c = ChainOf(id, ts, b, f, e)
    PROVE  c.id = id /\ c.traces = ts /\ c.completed = b /\ c.failed = f /\ c.final = e
BY DEF ChainOf

\* A chain of another number.
LEMMA NamedIs == \A id, ts, b, f, e, n : Named(ChainOf(id, ts, b, f, e), n) = ChainOf(n, ts, b, f, e)
BY DEF ChainOf, Named

\* A chain with other traces.
LEMMA LongerIs == \A id, ts, b, f, e, us : Longer(ChainOf(id, ts, b, f, e), us) = ChainOf(id, us, b, f, e)
BY DEF ChainOf, Longer

\* A chain that stopped at a step.
LEMMA StoppedIs == \A id, ts, b, f, e, g : Stopped(ChainOf(id, ts, b, f, e), g) = ChainOf(id, ts, b, g, e)
BY DEF ChainOf, Stopped

\* A chain that is complete.
LEMMA CompletedIs ==
    ASSUME NEW id, NEW ts, NEW b, NEW f, NEW e, NEW yes, NEW out, NEW c, c = ChainOf(id, ts, b, f, e)
    PROVE  Completed(c, yes, out) = ChainOf(id, ts, yes, f, out)
<1>1. PICK d : d = [c EXCEPT !.completed = yes]
  OBVIOUS
<1>2. d = ChainOf(id, ts, yes, f, e)
  BY <1>1 DEF ChainOf
<1>3. [c EXCEPT !.completed = yes, !.final = out] = [d EXCEPT !.final = out]
  BY <1>1
<1>4. [d EXCEPT !.final = out] = ChainOf(id, ts, yes, f, out)
  BY <1>2 DEF ChainOf
<1>5. Completed(c, yes, out) = [c EXCEPT !.completed = yes, !.final = out]
  BY DEF Completed
<1> QED BY <1>3, <1>4, <1>5

\* A new chain has no traces.
LEMMA NewChain ==
    ASSUME NEW c, NEW n, NEW r, c = [NoChain EXCEPT !.id = n]
    PROVE  ChainRecord(c) /\ Traced(c, r) /\ Underway(c, 0) /\ DOMAIN c.traces = {}
<1>0. PICK no : no = FALSE
  OBVIOUS
<1>1. c = ChainOf(n, <<>>, no, "none", <<>>)
  <2>1. NoChain = ChainOf(0, <<>>, no, "none", <<>>)
    BY <1>0 DEF NoChain, ChainOf
  <2>2. c = Named(NoChain, n)
    BY DEF Named
  <2> QED BY <2>1, <2>2, NamedIs
<1>2. c.id = n /\ c.traces = <<>> /\ c.completed = no /\ c.failed = "none" /\ c.final = <<>>
  BY ONLY <1>1, ChainFields
<1>3. DOMAIN c.traces = {} /\ Len(c.traces) = 0 /\ c.traces \in Seq(Range(c.traces))
  <2>1. <<>> \in Seq(Range(<<>>))
    OBVIOUS
  <2>2. DOMAIN <<>> = {} /\ Len(<<>>) = 0
    OBVIOUS
  <2>3. c.traces = <<>>
    BY <1>2
  <2> QED BY <2>1, <2>2, <2>3
<1>4. ChainRecord(c)
  <2>1. c = ChainOf(c.id, c.traces, c.completed, c.failed, c.final)
    BY <1>0, <1>1, <1>2
  <2> QED BY <1>3, <2>1 DEF ChainRecord
<1>5. Traced(c, r)
  BY <1>3 DEF Traced
<1>6. Underway(c, 0)
  BY <1>0, <1>2, <1>3 DEF Underway
<1> QED BY <1>3, <1>4, <1>5, <1>6

\* Nothing is known at first.
LEMMA Starts == Init => ChainInv
<1> SUFFICES ASSUME Init PROVE ChainInv
  OBVIOUS
<1>1. pc = "idle" /\ chain = NoChain /\ answer = NoAnswer /\ before = {}
  BY DEF Init
<1>2. chain = [NoChain EXCEPT !.id = 0]
  BY <1>1 DEF NoChain
<1>3. ChainOK
  BY <1>2, NewChain DEF ChainOK
<1>4. PcOK
  BY <1>1, StepsAre DEF PcOK
<1>5. AnswerOK /\ BeforeOK /\ Retraces
  BY <1>1 DEF AnswerOK, BeforeOK, Retraces
<1> QED BY <1>3, <1>4, <1>5 DEF ChainInv

\* A run begins a chain of its own and keeps the last one that has a proposal,
\* whatever the request is.
LEMMA RunKeeps ==
    ASSUME ChainInv, NEW request, Run(request)
    PROVE  ChainInv'
<1>1. /\ chain' = [NoChain EXCEPT !.id = counter] /\ pc' = "Reasoning" /\ answer' = NoAnswer
      /\ before' = IF answer = NoAnswer THEN {} ELSE {[req |-> req, chain |-> chain, answer |-> answer]}
  BY DEF Run
<1>2. ChainRecord(chain') /\ Traced(chain', req') /\ Underway(chain', 0) /\ DOMAIN chain'.traces = {}
  BY <1>1, NewChain
<1>3. ChainOK'
  BY <1>2 DEF ChainOK
<1>4. PcOK'
  <2>1. \A k \in 1 .. 3 : pc' = Steps[k] => k = 1
    BY <1>1, StepsAre
  <2> QED BY <1>1, <1>2, <2>1 DEF PcOK
<1>5. AnswerOK'
  BY <1>1 DEF AnswerOK
<1>6. BeforeOK'
  <2> SUFFICES ASSUME NEW b \in before'
               PROVE  /\ ChainRecord(b.chain) /\ Traced(b.chain, b.req) /\ Finished(b.chain)
                      /\ b.answer = Proposal(b.chain, b.req)
    BY DEF BeforeOK
  <2>1. answer # NoAnswer /\ b = [req |-> req, chain |-> chain, answer |-> answer]
    BY <1>1
  <2>2. b.req = req /\ b.chain = chain /\ b.answer = answer
    BY <2>1
  <2> QED BY <2>1, <2>2 DEF ChainInv, ChainOK, AnswerOK
<1>7. Retraces'
  BY <1>2 DEF Retraces
<1> QED BY <1>3, <1>4, <1>5, <1>6, <1>7 DEF ChainInv

\* What a step leaves is what the state it was shown becomes.
LEMMA LeftIs ==
    ASSUME NEW t, NEW s, Shown(t.prompt) = Showing(s)
    PROVE  Left(t) = Merge(s, ToInjection(Signals(t.step, t.output)))
<1> DEFINE o == ToInjection(Signals(t.step, t.output))
<1> HIDE DEF o
<1>1. Left(t) = Merge(IF Shown(t.prompt) = {} THEN EmptyState ELSE CHOOSE u \in Shown(t.prompt) : TRUE, o)
  BY DEF Left, o
<1>2. CASE IsEmpty(s)
  <2>1. Shown(t.prompt) = {}
    BY <1>2 DEF Showing
  <2>2. Left(t) = Merge(EmptyState, o)
    BY <1>1, <2>1
  <2> QED BY <1>2, <2>2, MergeEmpty DEF o
<1>3. CASE ~IsEmpty(s)
  <2>1. Shown(t.prompt) = {s}
    BY <1>3 DEF Showing
  <2>2. (CHOOSE u \in Shown(t.prompt) : TRUE) = s
    BY <2>1
  <2> QED BY <1>1, <2>1, <2>2 DEF o
<1> QED BY <1>2, <1>3

\* The traces after a step are those before it and one more.
LEMMA TracedOn ==
    ASSUME NEW c, NEW d, NEW r, NEW k \in 1 .. 3, NEW prompt, NEW out, Lengthens(c, d, r, k, prompt, out)
    PROVE  Traced(d, r) /\ OneMore(c, d, k, TraceOf(r, k, prompt, out))
<1> DEFINE ts == c.traces
           us == d.traces
           trace == TraceOf(r, k, prompt, out)
<1>1. trace.prompt = prompt /\ trace.output = out
  BY DEF TraceOf
<1> HIDE DEF trace
<1>a. /\ ChainRecord(c) /\ Traced(c, r) /\ Len(ts) = k - 1 /\ us = Append(ts, trace)
      /\ (k > 1 => Shown(prompt) = Showing(Left(ts[k - 1])))
  BY DEF Lengthens, trace
<1>2. ts \in Seq(Range(ts))
  BY <1>a DEF ChainRecord
<1>3. /\ us \in Seq(Range(us)) /\ Len(us) = k /\ DOMAIN us = 1 .. k /\ DOMAIN ts = 1 .. k - 1
      /\ \A i \in 1 .. k - 1 : us[i] = ts[i]
      /\ us[k] = trace
  BY <1>2, <1>a, Appended
<1>4. ASSUME NEW i \in 1 .. k
      PROVE  /\ us[i] = TraceOf(r, i, us[i].prompt, us[i].output)
             /\ i > 1 => Shown(us[i].prompt) = Showing(Left(us[i - 1]))
  <2>1. CASE i < k
    <3>1. i \in 1 .. k - 1 /\ (i > 1 => i - 1 \in 1 .. k - 1)
      BY <2>1
    <3>2. i \in DOMAIN ts /\ us[i] = ts[i] /\ (i > 1 => us[i - 1] = ts[i - 1])
      BY <1>3, <3>1
    <3> QED BY <1>a, <3>2 DEF Traced
  <2>2. CASE i = k
    <3>1. us[i] = trace /\ us[i].prompt = prompt /\ us[i].output = out
      BY <1>1, <1>3, <2>2
    <3>2. i > 1 => us[i - 1] = ts[i - 1]
      BY <1>3, <2>2
    <3> QED BY <1>a, <2>2, <3>1, <3>2 DEF trace
  <2> QED BY <2>1, <2>2
<1> QED BY <1>3, <1>4 DEF Traced, OneMore, trace

\* The text of a step is recorded; an invalid one, and the last, end the chain, and
\* after any other the next step is shown what this one left.
LEMMA StepKeepsChain ==
    ASSUME ChainInv, NEW k \in 1 .. 3, NEW prompt, NEW out, NEW rendering \in Renderings(state),
           prompt = Render(TaskFrame(Steps[k]), rendering, StepPlan(req, Steps[k]).intent),
           RunStep(Steps[k], out, rendering)
    PROVE  /\ UNCHANGED <<req, answer, before>> /\ MaySay(prompt, out)
           /\ DOMAIN chain'.traces = 1 .. k /\ DOMAIN chain.traces = 1 .. k - 1
           /\ \A i \in 1 .. k - 1 : chain'.traces[i] = chain.traces[i]
           /\ chain'.traces[k] = TraceOf(req, k, prompt, out)
           /\ k > 1 => Shown(prompt) = Showing(Left(chain.traces[k - 1]))
           /\ ChainOK' /\ PcOK' /\ answer = NoAnswer
<1>1. PICK trace : trace = TraceOf(req, k, prompt, out)
  OBVIOUS
<1>2. PICK valid : valid = Valid(out, StepPlan(req, Steps[k]).contract)
  OBVIOUS
<1>0. PICK traced : traced = [chain EXCEPT !.traces = Append(@, trace)]
  OBVIOUS
<1>3. /\ trace = [step |-> Steps[k], valid |-> valid, output |-> out, prompt |-> prompt]
      /\ trace.step = Steps[k] /\ trace.valid = valid /\ trace.output = out /\ trace.prompt = prompt
      /\ valid \in BOOLEAN
  BY <1>1, <1>2, ValidIsBoolean DEF TraceOf
<1>4. /\ pc = Steps[k] /\ Underway(chain, k - 1) /\ (k > 1 => state = Left(chain.traces[k - 1]))
      /\ answer = NoAnswer
  BY StepsAre DEF RunStep, ChainInv, PcOK
<1>5. ChainRecord(chain) /\ Traced(chain, req)
  BY DEF ChainInv, ChainOK
<1>6. /\ UNCHANGED <<req, answer, before>> /\ MaySay(prompt, out)
      /\ pc' = IF valid THEN Following(Steps[k]) ELSE Done
      /\ state' = IF valid THEN Merge(state, ToInjection(Signals(Steps[k], out))) ELSE state
      /\ chain' = IF ~valid THEN [traced EXCEPT !.failed = Steps[k]]
                  ELSE IF Steps[k] = "Planning" THEN [traced EXCEPT !.completed = TRUE, !.final = out]
                  ELSE traced
  BY <1>0, <1>2, <1>3 DEF RunStep
<1>n. PICK no : no = FALSE
  OBVIOUS
<1>y. PICK yes : yes = TRUE
  OBVIOUS
<1>7. chain = ChainOf(chain.id, chain.traces, no, "none", <<>>)
  BY <1>n, <1>4, <1>5 DEF ChainRecord, Underway
<1>8. PICK us : us = Append(chain.traces, trace)
  OBVIOUS
<1>9. chain' = IF ~valid THEN ChainOf(chain.id, us, no, Steps[k], <<>>)
               ELSE IF Steps[k] = "Planning" THEN ChainOf(chain.id, us, yes, "none", out)
               ELSE ChainOf(chain.id, us, no, "none", <<>>)
  <2>1. traced = Longer(chain, us)
    BY <1>0, <1>8 DEF Longer
  <2>2. traced = ChainOf(chain.id, us, no, "none", <<>>)
    BY <1>7, <2>1, LongerIs
  <2>3. Stopped(traced, Steps[k]) = ChainOf(chain.id, us, no, Steps[k], <<>>)
    BY <2>2, StoppedIs
  <2>4. Completed(traced, yes, out) = ChainOf(chain.id, us, yes, "none", out)
    BY <2>2, CompletedIs
  <2>5. chain' = IF ~valid THEN Stopped(traced, Steps[k])
                ELSE IF Steps[k] = "Planning" THEN Completed(traced, yes, out) ELSE traced
    BY <1>y, <1>6 DEF Stopped, Completed
  <2> QED BY <2>2, <2>3, <2>4, <2>5
<1>10. /\ chain'.traces = us
       /\ chain' = ChainOf(chain'.id, chain'.traces, chain'.completed, chain'.failed, chain'.final)
  BY <1>9, ChainFields
<1>11. Shown(prompt) = Showing(state)
  BY RenderShows
<1>12. Len(chain.traces) = k - 1 /\ \A i \in 1 .. k - 1 : chain.traces[i].valid
  BY <1>4 DEF Underway
<1>13. /\ Traced(chain', req) /\ us \in Seq(Range(us)) /\ Len(us) = k
       /\ DOMAIN us = 1 .. k /\ DOMAIN chain.traces = 1 .. k - 1
       /\ \A i \in 1 .. k - 1 : us[i] = chain.traces[i]
       /\ us[k] = trace
  <2>1. chain'.traces = Append(chain.traces, TraceOf(req, k, prompt, out)) /\ Len(chain.traces) = k - 1
    BY <1>1, <1>8, <1>10, <1>12
  <2>2. k > 1 => Shown(prompt) = Showing(Left(chain.traces[k - 1]))
    BY <1>4, <1>11
  <2>c. Lengthens(chain, chain', req, k, prompt, out)
    BY <1>5, <2>1, <2>2 DEF Lengthens
  <2>3. Traced(chain', req) /\ OneMore(chain, chain', k, TraceOf(req, k, prompt, out))
    BY <2>c, TracedOn
  <2> QED BY <1>1, <1>10, <2>3 DEF OneMore
<1>14. ChainOK'
  <2>1. ChainRecord(chain')
    BY <1>10, <1>13 DEF ChainRecord
  <2> QED BY <1>6, <1>13, <2>1 DEF ChainOK
<1>15. \A i \in 1 .. k - 1 : us[i].valid
  BY <1>12, <1>13
<1>16. pc' \in {"idle", "propose"} => PcOK' \/ ~Finished(chain')
  BY <1>4, <1>6, StepsAre DEF PcOK
<1>17. Done \in {"idle", "propose"}
  BY DEF Done
<1>18. CASE ~valid
  <2>1. /\ chain'.completed = FALSE /\ chain'.failed = Steps[k] /\ chain'.final = <<>>
        /\ ~chain'.traces[k].valid
    BY <1>n, <1>y, <1>3, <1>9, <1>10, <1>13, <1>18, ChainFields
  <2>2. Finished(chain')
    BY <1>10, <1>13, <1>15, <2>1 DEF Finished
  <2> QED BY <1>1, <1>4, <1>6, <1>10, <1>11, <1>13, <1>14, <1>16, <1>17, <1>18, <2>2
<1>19. CASE valid /\ k = 3
  <2>0. chain' = ChainOf(chain.id, us, yes, "none", out)
    BY <1>9, <1>19, StepsAre
  <2>a. chain'.completed = yes /\ chain'.failed = "none" /\ chain'.final = out
    BY <2>0, ChainFields
  <2>1. /\ chain'.completed = TRUE /\ chain'.failed = "none" /\ chain'.final = out
        /\ chain'.traces[k].valid /\ chain'.traces[k].output = out
    BY <1>y, <1>3, <1>10, <1>13, <1>19, <2>a
  <2>2. Finished(chain')
    BY <1>10, <1>13, <1>15, <1>19, <2>1 DEF Finished
  <2>3. pc' = Done
    BY <1>6, <1>19, StepsAre DEF Following
  <2> QED BY <1>1, <1>4, <1>6, <1>10, <1>11, <1>13, <1>14, <1>16, <1>17, <2>2, <2>3
<1>20. CASE valid /\ k < 3
  <2>0. chain' = ChainOf(chain.id, us, no, "none", <<>>)
    BY <1>9, <1>20, StepsAre
  <2>a. chain'.completed = no /\ chain'.failed = "none" /\ chain'.final = <<>>
    BY <2>0, ChainFields
  <2>1. /\ chain'.completed = FALSE /\ chain'.failed = "none" /\ chain'.final = <<>>
        /\ chain'.traces[k].valid
    BY <1>n, <1>3, <1>10, <1>13, <1>20, <2>a
  <2>2. Underway(chain', k)
    BY <1>10, <1>13, <1>15, <2>1 DEF Underway
  <2>3. pc' = Steps[k + 1] /\ \A j \in 1 .. 3 : pc' = Steps[j] => j = k + 1
    BY <1>6, <1>20, StepsAre DEF Following
  <2>4. state' = Left(chain'.traces[k])
    BY <1>3, <1>6, <1>10, <1>11, <1>13, <1>20, LeftIs
  <2>5. PcOK'
    <3>1. pc' \in {"Reasoning", "Evaluation", "Planning"}
      BY <1>20, <2>3, StepsAre
    <3>2. \A j \in 1 .. 3 : pc' = Steps[j] =>
             Underway(chain', j - 1) /\ (j > 1 => state' = Left(chain'.traces[j - 1]))
      BY <2>2, <2>3, <2>4
    <3> QED BY <1>4, <1>6, <3>1, <3>2 DEF PcOK
  <2> QED BY <1>1, <1>4, <1>6, <1>10, <1>11, <1>13, <1>14, <2>5
<1> QED BY <1>3, <1>18, <1>19, <1>20

\* A step of a request that is made again, and that is shown what it was shown, is
\* prompted and answered as it was.
LEMMA StepRetraces ==
    ASSUME ChainInv, NEW k \in 1 .. 3, NEW prompt, NEW out, NEW rendering \in Renderings(state),
           prompt = Render(TaskFrame(Steps[k]), rendering, StepPlan(req, Steps[k]).intent),
           RunStep(Steps[k], out, rendering)
    PROVE  Retraces'
<1>1. /\ UNCHANGED <<req, before>> /\ MaySay(prompt, out)
      /\ DOMAIN chain'.traces = 1 .. k /\ DOMAIN chain.traces = 1 .. k - 1
      /\ \A i \in 1 .. k - 1 : chain'.traces[i] = chain.traces[i]
      /\ chain'.traces[k] = TraceOf(req, k, prompt, out)
      /\ k > 1 => Shown(prompt) = Showing(Left(chain.traces[k - 1]))
  BY StepKeepsChain
<1>2. SUFFICES ASSUME NEW b \in before, b.req = req, req.policy.seeded, SamePlaces(b)',
                      NEW i \in DOMAIN chain'.traces \cap DOMAIN b.chain.traces
               PROVE  chain'.traces[i] = b.chain.traces[i]
  BY <1>1 DEF Retraces
<1>3. /\ ChainRecord(b.chain) /\ Traced(b.chain, req)
      /\ (SamePlaces(b) => \A j \in DOMAIN chain.traces \cap DOMAIN b.chain.traces :
                               chain.traces[j] = b.chain.traces[j])
  BY <1>2 DEF ChainInv, BeforeOK, Retraces
<1>4. \A j \in DOMAIN chain.traces \cap DOMAIN b.chain.traces : chain.traces[j] = b.chain.traces[j]
  <2>1. SamePlaces(b)
    BY <1>1, <1>2 DEF SamePlaces
  <2> QED BY <1>3, <2>1
<1>5. CASE i < k
  <2>1. i \in 1 .. k - 1
    BY <1>1, <1>5
  <2> QED BY <1>1, <1>4, <2>1
<1>6. CASE i = k
  <2>1. PICK t : t = b.chain.traces[k]
    OBVIOUS
  <2>2. t = TraceOf(req, k, t.prompt, t.output) /\ k \in DOMAIN b.chain.traces
    BY <1>2, <1>3, <1>6, <2>1 DEF Traced
  <2>3. k = 1 \/ Shown(prompt) = Shown(t.prompt)
    <3> SUFFICES ASSUME k > 1 PROVE Shown(prompt) = Shown(t.prompt)
      OBVIOUS
    <3>1. k - 1 \in 1 .. k - 1 /\ k - 1 \in DOMAIN b.chain.traces
      BY <1>3, <2>2 DEF ChainRecord
    <3>2. chain.traces[k - 1] = b.chain.traces[k - 1]
      BY <1>1, <1>4, <3>1
    <3>3. Shown(t.prompt) = Showing(Left(b.chain.traces[k - 1]))
      BY <1>3, <2>1, <2>2 DEF Traced
    <3> QED BY <1>1, <3>2, <3>3
  <2>4. chain'.traces[k].prompt = prompt
    BY <1>1 DEF TraceOf
  <2>a. \A j \in DOMAIN chain'.traces \cap DOMAIN b.chain.traces :
           j = 1 \/ Shown(chain'.traces[j].prompt) = Shown(b.chain.traces[j].prompt)
               => chain'.traces[j].prompt = b.chain.traces[j].prompt
    BY ONLY <1>2 DEF SamePlaces
  <2>5. prompt = t.prompt
    BY <1>2, <1>6, <2>a, <2>1, <2>3, <2>4
  <2>6. Deterministic(Envelope(req.policy))
    BY <1>2 DEF Deterministic, Envelope
  <2>7. t.output = out
    BY <1>1, <1>2, <2>1, <2>2, <2>5, <2>6 DEF MaySay
  <2> QED BY <1>1, <1>6, <2>1, <2>2, <2>5, <2>7
<1> QED BY <1>1, <1>2, <1>5, <1>6

\* A step keeps the invariant.
LEMMA StepKeeps ==
    ASSUME ChainInv, NEW k \in 1 .. 3, NEW out, NEW rendering \in Renderings(state),
           RunStep(Steps[k], out, rendering)
    PROVE  ChainInv'
<1>1. PICK prompt : prompt = Render(TaskFrame(Steps[k]), rendering, StepPlan(req, Steps[k]).intent)
  OBVIOUS
<1>2. UNCHANGED <<req, answer, before>> /\ answer = NoAnswer /\ ChainOK' /\ PcOK'
  BY <1>1, StepKeepsChain
<1>3. AnswerOK' /\ BeforeOK'
  BY <1>2 DEF ChainInv, AnswerOK, BeforeOK
<1>4. Retraces'
  BY <1>1, StepRetraces
<1> QED BY <1>2, <1>3, <1>4 DEF ChainInv

\* A failed step leaves no chain.
LEMMA FailKeeps ==
    ASSUME ChainInv, StepFails
    PROVE  ChainInv'
<1>1. /\ pc' = "idle" /\ chain' = [NoChain EXCEPT !.id = 0] /\ UNCHANGED <<req, answer, before>>
      /\ answer = NoAnswer
  BY StepsAre DEF StepFails, NoChain, ChainInv, PcOK
<1>2. ChainRecord(chain') /\ Traced(chain', req') /\ DOMAIN chain'.traces = {}
  BY <1>1, NewChain
<1>3. ChainOK'
  BY <1>2 DEF ChainOK
<1>4. PcOK'
  BY <1>1, StepsAre DEF PcOK
<1>5. AnswerOK' /\ BeforeOK' /\ Retraces'
  BY <1>1, <1>2 DEF ChainInv, AnswerOK, BeforeOK, Retraces
<1> QED BY <1>3, <1>4, <1>5 DEF ChainInv

\* The proposal is made of the finished chain.
LEMMA ProposeKeeps ==
    ASSUME ChainInv, BuildProposal
    PROVE  ChainInv'
<1>1. /\ pc = "propose" /\ pc' = "idle" /\ answer' = Proposal(chain, req)
      /\ UNCHANGED <<req, state, chain, before>>
  BY DEF BuildProposal
<1>2. Finished(chain)
  BY <1>1 DEF ChainInv, PcOK
<1>3. ChainOK' /\ BeforeOK' /\ Retraces'
  BY <1>1 DEF ChainInv, ChainOK, BeforeOK, Retraces, SamePlaces
<1>4. PcOK'
  BY <1>1, StepsAre DEF PcOK
<1>5. AnswerOK'
  BY <1>1, <1>2 DEF AnswerOK
<1> QED BY <1>3, <1>4, <1>5 DEF ChainInv

\* What leaves the chain, its proposal and the one before alone keeps the invariant.
LEMMA RestKeeps ==
    ASSUME ChainInv, (pc = "idle" /\ pc' = "judged") \/ UNCHANGED pc,
           UNCHANGED <<req, state, chain, answer, before>>
    PROVE  ChainInv'
<1>1. ChainOK' /\ BeforeOK' /\ Retraces' /\ AnswerOK'
  BY DEF ChainInv, ChainOK, BeforeOK, Retraces, SamePlaces, AnswerOK
<1>2. PcOK'
  BY StepsAre DEF ChainInv, PcOK
<1> QED BY <1>1, <1>2 DEF ChainInv

\* Every step of the system keeps the invariant.
LEMMA NextKeeps ==
    ASSUME ChainInv, [Next]_vars
    PROVE  ChainInv'
<1>1. CASE Begin
  BY <1>1, RunKeeps DEF Begin
<1>2. ASSUME NEW step \in Range(Steps), NEW rendering \in Renderings(state), NEW out \in Outputs[step],
             RunStep(step, out, rendering)
      PROVE  ChainInv'
  <2>1. PICK k \in 1 .. 3 : step = Steps[k]
    BY StepsAre
  <2> QED BY <1>2, <2>1, StepKeeps
<1>3. CASE StepFails
  BY <1>3, FailKeeps
<1>4. CASE BuildProposal
  BY <1>4, ProposeKeeps
<1>5. ASSUME NEW j \in Judged, Judge(j)
      PROVE  ChainInv'
  BY <1>5, RestKeeps DEF Judge
<1>6. CASE UNCHANGED vars
  BY <1>6, RestKeeps DEF vars
<1> QED BY <1>1, <1>2, <1>3, <1>4, <1>5, <1>6 DEF Next

----------------------------------------------------------------------------
(* What planning is given.  The invariant says at which step each part is there.   *)

\* The last fact of a key is in the lists under its name.
FactsIn(lists, facts, n) ==
    \A i \in 1 .. n :
        (\A j \in 1 .. n : j > i => facts[j].key # facts[i].key)
            => FactKey(facts[i]) \in DOMAIN lists /\ lists[FactKey(facts[i])] = <<facts[i].value>>

FactsCarried == pc \in Range(Steps) => FactsIn(state.lists, req.context.facts, Len(req.context.facts))

Concludes(out) == Concluded(out) # <<>> /\ ~Has(out, {"wide"})

ConclusionIn(lists, text) ==
    "observations" \in DOMAIN lists /\ <<"conclusion", text>> \in Range(lists["observations"])

ConclusionCarried ==
    pc \in {"Evaluation", "Planning"} /\ Concludes(Output("Reasoning"))
        /\ (pc = "Planning" => ~Has(Output("Evaluation"), {"high", "low"}))
            => ConclusionIn(state.lists, Concluded(Output("Reasoning")))

ScoreIn(scalars, out) ==
    /\ "score" \in DOMAIN scalars
    /\ ~(Min(Fit(out)) > 1 /\ out[Min(Fit(out)) - 1][1] \in {"confidence", "high", "low"})
          => scalars["score"][2] \in Range(Scores(out))

ScoreCarried ==
    pc = "Planning" /\ Fit(Output("Evaluation")) # {} => ScoreIn(state.scalars, Output("Evaluation"))

Carried == FactsNamed(req) /\ FactsCarried /\ ConclusionCarried /\ ScoreCarried

\* Every set of natural numbers that is not empty has a least one: what follows from
\* one number to the next is proved by it.
LEMMA Least ==
    ASSUME NEW T, T \subseteq Nat, T # {}
    PROVE  \E x \in T : \A y \in T : ~(y < x)
<1>1. IsWellFoundedOn(OpToRel(<, Nat), Nat)
  BY NatLessThanWellFounded, Zenon
<1>2. PICK x \in T : \A y \in T : ~(<<y, x>> \in OpToRel(<, Nat))
  BY <1>1, WFMin, Zenon
<1>3. \A y \in T : ~(y < x)
  BY <1>2 DEF OpToRel
<1> QED BY <1>3

\* The least number of a set, as the community modules choose it.
LEMMA MinIs ==
    ASSUME NEW S, S \subseteq Nat, S # {}
    PROVE  Min(S) \in S /\ \A y \in S : Min(S) <= y
<1>1. PICK x \in S : \A y \in S : ~(y < x)
  BY Least
<1>2. \A y \in S : x <= y
  BY <1>1
<1> QED BY <1>2 DEF Min

\* The loop of WithFacts: f is the state after each of the facts up to the n-th.
After(f, s, facts, n) ==
    f = [m \in 0 .. n |-> IF m = 0 THEN s ELSE WithList(f[m - 1], FactKey(facts[m]), <<facts[m].value>>)]

\* There is such a function, by induction on n.
LEMMA AfterExists ==
    ASSUME NEW s, NEW facts, NEW N \in Nat
    PROVE  \E f : After(f, s, facts, N)
<1> DEFINE T == {n \in Nat : ~\E f : After(f, s, facts, n)}
<1>1. SUFFICES ASSUME T # {} PROVE FALSE
  OBVIOUS
<1>2. PICK n \in T : \A y \in T : ~(y < n)
  BY <1>1, Least
<1>3. n # 0
  <2>1. PICK f : f = [m \in 0 .. 0 |-> s]
    OBVIOUS
  <2>2. After(f, s, facts, 0)
    BY <2>1 DEF After
  <2> QED BY <2>2
<1>4. n - 1 \in Nat /\ n - 1 \notin T
  BY <1>2, <1>3
<1>5. PICK f : After(f, s, facts, n - 1)
  BY <1>4
<1>6. PICK g : g = [m \in 0 .. n |-> IF m = n THEN WithList(f[n - 1], FactKey(facts[n]), <<facts[n].value>>)
                                     ELSE f[m]]
  OBVIOUS
<1>7. After(g, s, facts, n)
  <2>1. DOMAIN f = 0 .. n - 1 /\ DOMAIN g = 0 .. n /\ n \in Nat
    BY <1>4, <1>5, <1>6 DEF After
  <2>2. ASSUME NEW m \in 0 .. n - 1
        PROVE  f[m] = IF m = 0 THEN s ELSE WithList(f[m - 1], FactKey(facts[m]), <<facts[m].value>>)
    BY <1>5 DEF After
  <2>3. \A m \in 0 .. n - 1 : g[m] = f[m]
    BY <1>6
  <2>4. ASSUME NEW m \in 0 .. n
        PROVE  g[m] = IF m = 0 THEN s ELSE WithList(g[m - 1], FactKey(facts[m]), <<facts[m].value>>)
    <3>1. CASE m = n
      <4>1. g[n] = WithList(f[n - 1], FactKey(facts[n]), <<facts[n].value>>)
        BY <1>6
      <4>2. g[n - 1] = f[n - 1]
        BY <1>3, <2>1, <2>3
      <4> QED BY <1>3, <3>1, <4>1, <4>2
    <3>2. CASE m < n
      <4>1. m \in 0 .. n - 1 /\ (m # 0 => m - 1 \in 0 .. n - 1)
        BY <3>2
      <4> QED BY <2>2, <2>3, <4>1
    <3> QED BY <3>1, <3>2
  <2> QED BY <1>6, <2>4 DEF After
<1> QED BY <1>7

\* WithFacts is where that function ends.
LEMMA WithFactsIs ==
    ASSUME NEW s, NEW facts, Len(facts) \in Nat
    PROVE  \E f : After(f, s, facts, Len(facts)) /\ WithFacts(s, facts) = f[Len(facts)]
<1>1. PICK f : f = CHOOSE g : After(g, s, facts, Len(facts))
  OBVIOUS
<1>2. After(f, s, facts, Len(facts))
  BY <1>1, AfterExists
<1>3. WithFacts(s, facts) = f[Len(facts)]
  BY <1>1 DEF WithFacts, After
<1> QED BY <1>2, <1>3

\* A list that is put into a state is there, and the others stay.
LEMMA WithListHas ==
    ASSUME NEW s, NEW k, NEW vs
    PROVE  /\ DOMAIN WithList(s, k, vs).lists = {k} \cup DOMAIN s.lists
           /\ WithList(s, k, vs).lists[k] = vs
           /\ \A l \in DOMAIN s.lists : l # k => WithList(s, k, vs).lists[l] = s.lists[l]
           /\ WithList(s, k, vs).scalars = s.scalars
<1>1. WithList(s, k, vs).lists = Over([l \in {k} |-> vs], s.lists) /\ WithList(s, k, vs).scalars = s.scalars
  BY DEF WithList
<1>2. DOMAIN ([l \in {k} |-> vs]) = {k} /\ ([l \in {k} |-> vs])[k] = vs
  OBVIOUS
<1>3. /\ DOMAIN Over([l \in {k} |-> vs], s.lists) = {k} \cup DOMAIN s.lists
      /\ \A l \in {k} \cup DOMAIN s.lists :
            Over([m \in {k} |-> vs], s.lists)[l] = IF l \in {k} THEN ([m \in {k} |-> vs])[l] ELSE s.lists[l]
  BY <1>2 DEF Over
<1> QED BY <1>1, <1>2, <1>3

\* After all facts the last one of each key is there.
LEMMA WithFactsHas ==
    ASSUME NEW s, NEW request, FactsNamed(request)
    PROVE  FactsIn(WithFacts(s, request.context.facts).lists, request.context.facts, Len(request.context.facts))
<1>1. PICK facts : facts = request.context.facts
  OBVIOUS
<1>2. facts \in Seq(Range(facts)) /\ \A g, h \in Range(facts) : FactKey(g) = FactKey(h) => g.key = h.key
  BY <1>1 DEF FactsNamed
<1>3. PICK N \in Nat : N = Len(facts)
  BY <1>2
<1>4. PICK f : After(f, s, facts, N) /\ WithFacts(s, facts) = f[N]
  BY <1>3, WithFactsIs
<1>5. \A i \in 1 .. N : facts[i] \in Range(facts)
  BY <1>2, <1>3 DEF Range
<1> DEFINE T == {n \in 0 .. N : ~FactsIn(f[n].lists, facts, n)}
<1>6. SUFFICES ASSUME T # {} PROVE FALSE
  <2>1. N \in 0 .. N
    OBVIOUS
  <2>2. T = {} => FactsIn(f[N].lists, facts, N)
    BY <2>1
  <2> QED BY <1>1, <1>3, <1>4, <2>2
<1>7. PICK n \in T : \A y \in T : ~(y < n)
  <2>1. T \subseteq Nat
    OBVIOUS
  <2> HIDE DEF T
  <2> QED BY <1>6, <2>1, Least
<1>8. n # 0
  BY DEF FactsIn
<1>9. n - 1 \in 0 .. N /\ FactsIn(f[n - 1].lists, facts, n - 1) /\ n \in 1 .. N
  BY <1>7, <1>8
<1>10. f[n] = WithList(f[n - 1], FactKey(facts[n]), <<facts[n].value>>)
  BY <1>4, <1>8, <1>9 DEF After
<1>11. FactsIn(f[n].lists, facts, n)
  <2> SUFFICES ASSUME NEW i \in 1 .. n, \A j \in 1 .. n : j > i => facts[j].key # facts[i].key
               PROVE  FactKey(facts[i]) \in DOMAIN f[n].lists /\ f[n].lists[FactKey(facts[i])] = <<facts[i].value>>
    BY DEF FactsIn
  <2>1. CASE i = n
    BY <1>10, <2>1, WithListHas
  <2>2. CASE i < n
    <3>1. i \in 1 .. n - 1 /\ \A j \in 1 .. n - 1 : j > i => facts[j].key # facts[i].key
      BY <1>9, <2>2
    <3>2. /\ FactKey(facts[i]) \in DOMAIN f[n - 1].lists
          /\ f[n - 1].lists[FactKey(facts[i])] = <<facts[i].value>>
      BY <1>9, <3>1 DEF FactsIn
    <3>3. facts[n].key # facts[i].key /\ n \in 1 .. N /\ i \in 1 .. N
      BY <1>9, <2>2
    <3>4. FactKey(facts[i]) # FactKey(facts[n])
      BY <1>2, <1>5, <3>3
    <3> QED BY <1>10, <3>2, <3>4, WithListHas
  <2> QED BY <2>1, <2>2
<1> QED BY <1>11

\* Merging puts the other's entries over those of the same key.
LEMMA MergeHas ==
    ASSUME NEW s, NEW o
    PROVE  /\ DOMAIN Merge(s, o).lists = DOMAIN o.lists \cup DOMAIN s.lists
           /\ \A l \in DOMAIN o.lists : Merge(s, o).lists[l] = o.lists[l]
           /\ \A l \in DOMAIN s.lists : l \notin DOMAIN o.lists => Merge(s, o).lists[l] = s.lists[l]
           /\ DOMAIN Merge(s, o).scalars = DOMAIN o.scalars \cup DOMAIN s.scalars
           /\ \A l \in DOMAIN o.scalars : Merge(s, o).scalars[l] = o.scalars[l]
<1>1. Merge(s, o).lists = Over(o.lists, s.lists) /\ Merge(s, o).scalars = Over(o.scalars, s.scalars)
  BY DEF Merge
<1>2. ASSUME NEW f, NEW g
      PROVE  /\ DOMAIN Over(f, g) = DOMAIN f \cup DOMAIN g
             /\ \A l \in DOMAIN f : Over(f, g)[l] = f[l]
             /\ \A l \in DOMAIN g : l \notin DOMAIN f => Over(f, g)[l] = g[l]
  BY DEF Over
<1>3. /\ DOMAIN Over(o.lists, s.lists) = DOMAIN o.lists \cup DOMAIN s.lists
      /\ \A l \in DOMAIN o.lists : Over(o.lists, s.lists)[l] = o.lists[l]
      /\ \A l \in DOMAIN s.lists : l \notin DOMAIN o.lists => Over(o.lists, s.lists)[l] = s.lists[l]
  BY <1>2
<1>4. /\ DOMAIN Over(o.scalars, s.scalars) = DOMAIN o.scalars \cup DOMAIN s.scalars
      /\ \A l \in DOMAIN o.scalars : Over(o.scalars, s.scalars)[l] = o.scalars[l]
  BY <1>2
<1> QED BY <1>1, <1>3, <1>4

\* The signals of a step are one list of observations and one score at most.
LEMMA InjectionIs ==
    ASSUME NEW signals
    PROVE  /\ DOMAIN ToInjection(signals).lists = IF signals.observations = <<>> THEN {} ELSE {"observations"}
           /\ signals.observations # <<>> => ToInjection(signals).lists["observations"] = signals.observations
           /\ signals.score # {} => /\ DOMAIN ToInjection(signals).scalars = {"score"}
                                    /\ ToInjection(signals).scalars["score"] \in signals.score
<1>1. DOMAIN EmptyState.lists = {} /\ DOMAIN EmptyState.scalars = {}
  <2>1. EmptyState.scalars = [k \in {} |-> 0] /\ EmptyState.lists = [k \in {} |-> 0]
    BY DEF EmptyState
  <2> QED BY <2>1
<1>2. PICK s : s = IF signals.observations = <<>> THEN EmptyState
                   ELSE WithList(EmptyState, "observations", signals.observations)
  OBVIOUS
<1>3. /\ DOMAIN s.lists = IF signals.observations = <<>> THEN {} ELSE {"observations"}
      /\ signals.observations # <<>> => s.lists["observations"] = signals.observations
      /\ DOMAIN s.scalars = {}
  <2>1. CASE signals.observations = <<>>
    BY <1>1, <1>2, <2>1
  <2>2. CASE signals.observations # <<>>
    <3>1. PICK e : e = EmptyState
      OBVIOUS
    <3>2. s = WithList(e, "observations", signals.observations) /\ DOMAIN e.lists = {} /\ DOMAIN e.scalars = {}
      BY <1>1, <1>2, <2>2, <3>1
    <3>3. /\ DOMAIN s.lists = {"observations"} \cup DOMAIN e.lists
          /\ s.lists["observations"] = signals.observations /\ s.scalars = e.scalars
      BY <3>2, WithListHas
    <3> QED BY <2>2, <3>2, <3>3
  <2> QED BY <2>1, <2>2
<1>4. PICK v : v = CHOOSE w \in signals.score : TRUE
  OBVIOUS
<1>5. ToInjection(signals) = IF signals.score = {} THEN s ELSE WithScalar(s, "score", v)
  BY <1>2, <1>4 DEF ToInjection
<1>6. /\ WithScalar(s, "score", v).lists = s.lists
      /\ DOMAIN WithScalar(s, "score", v).scalars = {"score"} \cup DOMAIN s.scalars
      /\ WithScalar(s, "score", v).scalars["score"] = v
  <2>1. WithScalar(s, "score", v).scalars = Over([l \in {"score"} |-> v], s.scalars)
    BY DEF WithScalar
  <2>2. WithScalar(s, "score", v).lists = s.lists
    BY DEF WithScalar
  <2>3. /\ DOMAIN Over([l \in {"score"} |-> v], s.scalars) = {"score"} \cup DOMAIN s.scalars
        /\ Over([l \in {"score"} |-> v], s.scalars)["score"] = v
    BY DEF Over
  <2> QED BY <2>1, <2>2, <2>3
<1>7. signals.score # {} => v \in signals.score
  BY <1>4
<1> QED BY <1>3, <1>5, <1>6, <1>7

\* A conclusion that nothing shifts is what reasoning observes.
LEMMA ReasoningObserves ==
    ASSUME NEW out \in Seq(Word), Concludes(out), NEW s
    PROVE  ConclusionIn(Merge(s, ToInjection(Signals("Reasoning", out))).lists, Concluded(out))
<1> DEFINE sig == Signals("Reasoning", out)
           at == First(out, {"conclusion"})
           text == Concluded(out)
           flagged == IF Has(out, {"uncertain", "unsure", "doubt"}) THEN <<<<"uncertainty_flagged", 0>>>> ELSE <<>>
<1>0. PICK n \in Nat : n = Len(out) /\ DOMAIN out = 1 .. n
  OBVIOUS
<1>1. sig.observations = <<<<"conclusion", text>>>> \o flagged
  <2>1. Has(out, {"conclusion"}) /\ ~Has(out, {"wide"})
    BY DEF Concludes, Concluded
  <2>2. {i \in DOMAIN out : out[i][1] \in {"conclusion"}} # {}
    BY <2>1 DEF Has
  <2>3. at \in DOMAIN out /\ DOMAIN out = 1 .. Len(out) /\ Len(out) \in Nat
    <3>1. DOMAIN out = 1 .. Len(out) /\ Len(out) \in Nat
      OBVIOUS
    <3>2. {i \in DOMAIN out : out[i][1] \in {"conclusion"}} \subseteq Nat
      BY <3>1
    <3>3. First(out, {"conclusion"}) \in {i \in DOMAIN out : out[i][1] \in {"conclusion"}}
      BY <2>2, <3>2, MinIs DEF First
    <3> QED BY <3>1, <3>3
  <2>4. ~\E i \in 1 .. at - 1 : out[i][1] = "wide"
    <3>1. \A i \in DOMAIN out : out[i][1] # "wide"
      BY <2>1 DEF Has
    <3>2. PICK m : m = at
      OBVIOUS
    <3>3. \A i \in 1 .. m - 1 : i \in DOMAIN out
      <4>2. m \in 1 .. n /\ DOMAIN out = 1 .. n
        BY <1>0, <2>3, <3>2
      <4>3. \A i \in 1 .. m - 1 : i \in 1 .. n
        BY ONLY <4>2, n \in Nat
      <4> QED BY <4>2, <4>3
    <3> QED BY <3>1, <3>2, <3>3
  <2>5. sig = ReasoningSignals(out)
    BY DEF Signals
  <2>6. ReasoningSignals(out).observations = <<<<"conclusion", text>>>> \o flagged
    <3>1. {i \in 1 .. at - 1 : out[i][1] = "wide"} = {}
      BY <2>4
    <3>2. Behind(out) = at + 1
      <4>1. Cardinality({i \in 1 .. at - 1 : out[i][1] = "wide"}) = 0
        BY <3>1, FS_EmptySet
      <4>2. at \in Nat
        BY <2>3
      <4>3. PICK wide : wide = Cardinality({i \in 1 .. at - 1 : out[i][1] = "wide"})
        OBVIOUS
      <4>4. Behind(out) = at + 1 + wide
        BY <4>3, Zenon DEF Behind
      <4> QED BY <4>1, <4>2, <4>3, <4>4
    <3>3. text = RestOfLine(out, Behind(out)) /\ text # <<>>
      BY <2>1, <3>2 DEF Concludes, Concluded
    <3>4. PICK rest : rest = RestOfLine(out, Behind(out))
      OBVIOUS
    <3>5. ReasoningSignals(out).observations = (IF rest = <<>> THEN <<>> ELSE <<<<"conclusion", rest>>>>) \o flagged
      BY <2>1, <3>4 DEF ReasoningSignals
    <3> QED BY <3>3, <3>4, <3>5
  <2> QED BY <2>5, <2>6
<1>2. PICK obs : obs = sig.observations
  OBVIOUS
<1>3. obs # <<>> /\ <<"conclusion", text>> \in Range(obs)
  <2>1. PICK c : c = <<"conclusion", text>>
    OBVIOUS
  <2>3. PICK rest : rest = flagged
    OBVIOUS
  <2>a. PICK u : u = <<"uncertainty_flagged", 0>>
    OBVIOUS
  <2>b. rest = <<>> \/ rest = <<u>>
    BY <2>3, <2>a
  <2>4. rest \in Seq({u})
    <3>1. <<>> \in Seq({u}) /\ <<u>> \in Seq({u})
      OBVIOUS
    <3> QED BY <2>b, <3>1
  <2>5. obs = <<c>> \o rest
    BY <1>1, <1>2, <2>1, <2>3
  <2>6. obs[1] = c /\ 1 \in DOMAIN obs /\ Len(obs) >= 1
    <3>1. <<c>> \in Seq({c, u}) /\ rest \in Seq({c, u})
      BY <2>4
    <3>2. Len(obs) = 1 + Len(rest) /\ Len(rest) \in Nat /\ DOMAIN obs = 1 .. Len(obs)
      BY <2>5, <3>1
    <3>3. obs[1] = c
      BY <2>5, <3>1
    <3> QED BY <3>2, <3>3
  <2> QED BY <2>1, <2>6 DEF Range
<1>4. /\ DOMAIN ToInjection(sig).lists = {"observations"}
      /\ ToInjection(sig).lists["observations"] = obs
  <2> HIDE DEF sig
  <2> QED BY <1>2, <1>3, InjectionIs
<1>5. PICK o : o = ToInjection(sig)
  OBVIOUS
<1>6. "observations" \in DOMAIN Merge(s, o).lists /\ Merge(s, o).lists["observations"] = obs
  BY <1>4, <1>5, MergeHas
<1> QED BY <1>3, <1>5, <1>6 DEF ConclusionIn

\* The number of elements up to one of them is its place, and no other's.
LEMMA PlaceOf ==
    ASSUME NEW N \in Nat, NEW S, S \subseteq 1 .. N, NEW x \in S
    PROVE  /\ Cardinality({j \in S : j =< x}) \in 1 .. Cardinality(S)
           /\ \A y \in S : Cardinality({j \in S : j =< y}) = Cardinality({j \in S : j =< x}) => y = x
<1> DEFINE Up(y) == {j \in S : j =< y}
<1>1. IsFiniteSet(S) /\ Cardinality(S) \in Nat
  <2>1. IsFiniteSet(1 .. N)
    BY FS_Interval
  <2>2. IsFiniteSet(S)
    BY <2>1, FS_Subset
  <2> QED BY <2>2, FS_CardinalityType
<1>2. ASSUME NEW y \in S
      PROVE  /\ IsFiniteSet(Up(y)) /\ Cardinality(Up(y)) \in Nat
             /\ Cardinality(Up(y)) <= Cardinality(S) /\ y \in Up(y) /\ Up(y) # {}
  <2>1. Up(y) \in SUBSET S /\ y \in Up(y)
    OBVIOUS
  <2> HIDE DEF Up
  <2> QED BY <1>1, <2>1, FS_Subset, FS_CardinalityType
<1>3. Cardinality(Up(x)) # 0
  <2> HIDE DEF Up
  <2> QED BY <1>2, FS_EmptySet
<1>4. ASSUME NEW y \in S, NEW z \in S, y < z
      PROVE  Cardinality(Up(y)) # Cardinality(Up(z))
  <2>1. Up(y) \in SUBSET Up(z) /\ z \notin Up(y) /\ z \in Up(z)
    <3>1. \A j \in S : j \in Int
      OBVIOUS
    <3>2. y \in Int /\ z \in Int /\ y < z
      BY <1>4, <3>1
    <3>3. \A j \in S : j =< y => j =< z
      BY <3>1, <3>2
    <3>4. ~(z =< y) /\ z =< z /\ y =< y
      BY <3>2
    <3>5. ASSUME NEW j \in Up(y) PROVE j \in Up(z)
      BY <3>3, <3>5
    <3>6. z \notin Up(y) /\ z \in Up(z)
      BY <3>4
    <3> QED BY <3>5, <3>6
  <2> HIDE DEF Up
  <2> QED BY <1>2, <2>1, FS_Subset
<1>5. ASSUME NEW y \in S, Cardinality(Up(y)) = Cardinality(Up(x))
      PROVE  y = x
  <2>1. ~(y < x) /\ ~(x < y)
    BY <1>4, <1>5
  <2> QED BY <2>1
<1>6. Cardinality(Up(x)) \in 1 .. Cardinality(S)
  <2> HIDE DEF Up
  <2> QED BY <1>1, <1>2, <1>3
<1> QED BY <1>5, <1>6

\* A number up to a hundred that follows no mention of confidence is one of the scores.
LEMMA ScoreOf ==
    ASSUME NEW out \in Seq(Word), NEW N \in Nat, N = Len(out), DOMAIN out = 1 .. N, NEW at \in 1 .. N,
           IsNumber(out[at]), Value(out[at]) \in 0 .. 100,
           ~(at > 1 /\ out[at - 1][1] \in {"confidence", "high", "low"})
    PROVE  Value(out[at]) \in Range(Scores(out))
<1> DEFINE S == {i \in DOMAIN out :
                    IsNumber(out[i]) /\ ~(i > 1 /\ out[i - 1][1] \in {"confidence", "high", "low"})}
           n == Cardinality({j \in S : j =< at})
<1>1. S \subseteq 1 .. N /\ at \in S
  OBVIOUS
<1>2. n \in 1 .. Cardinality(S) /\ \A y \in S : Cardinality({j \in S : j =< y}) = n => y = at
  <2> HIDE DEF S
  <2> QED BY <1>1, PlaceOf
<1>3. Scores(out) = [m \in 1 .. Cardinality(S) |->
                        Normal(Value(out[CHOOSE i \in S : Cardinality({j \in S : j =< i}) = m]))]
  BY DEF Scores
<1>4. (CHOOSE i \in S : Cardinality({j \in S : j =< i}) = n) = at
  <2> HIDE DEF S
  <2> QED BY <1>1, <1>2
<1>5. n \in DOMAIN Scores(out) /\ Scores(out)[n] = Normal(Value(out[at]))
  <2> HIDE DEF S, n
  <2> QED BY <1>2, <1>3, <1>4
<1>6. Normal(Value(out[at])) = Value(out[at])
  <2>1. ASSUME NEW w \in 0 .. 100 PROVE w \notin Percentages
    <3>1. w <= 100 /\ w \in Int
      OBVIOUS
    <3>2. w \in 1000 .. 10000 => 1000 <= w
      OBVIOUS
    <3> QED BY <3>1, <3>2 DEF Percentages
  <2> QED BY <2>1 DEF Normal
<1> HIDE DEF n, S
<1>7. Scores(out)[n] = Value(out[at])
  BY <1>5, <1>6
<1> QED BY <1>5, <1>7 DEF Range

\* A number between 0 and 1 becomes the score, and the validator judged it too unless
\* it follows a mention of confidence.
LEMMA EvaluationScores ==
    ASSUME NEW out \in Seq(Word), Fit(out) # {}, NEW s
    PROVE  ScoreIn(Merge(s, ToInjection(Signals("Evaluation", out))).scalars, out)
<1> DEFINE sig == Signals("Evaluation", out)
<1>1. PICK at : at = Min(Fit(out))
  OBVIOUS
<1>2. PICK N \in Nat : N = Len(out) /\ DOMAIN out = 1 .. N
  OBVIOUS
<1>3. at \in 1 .. N /\ at \in Fit(out)
  <2>1. Fit(out) \subseteq Nat
    BY <1>2 DEF Fit
  <2>2. at \in Fit(out)
    BY <1>1, <2>1, MinIs
  <2> QED BY <1>2, <2>2 DEF Fit
<1>4. IsNumber(out[at]) /\ Value(out[at]) \in 0 .. 100
  BY <1>3 DEF Fit
<1>5. sig.score = {<<"score", Value(out[at])>>}
  <2>1. sig = EvaluationSignals(out)
    BY DEF Signals
  <2>2. EvaluationSignals(out).score = {<<"score", Value(out[at])>>}
    BY <1>1, <1>3 DEF EvaluationSignals
  <2> QED BY <2>1, <2>2
<1>6. PICK o : o = ToInjection(sig)
  OBVIOUS
<1>7. DOMAIN o.scalars = {"score"} /\ o.scalars["score"] = <<"score", Value(out[at])>>
  <2> HIDE DEF sig
  <2>1. sig.score # {}
    BY <1>5
  <2> QED BY <1>5, <1>6, <2>1, InjectionIs
<1>8. "score" \in DOMAIN Merge(s, o).scalars /\ Merge(s, o).scalars["score"] = <<"score", Value(out[at])>>
  BY <1>7, MergeHas
<1>9. Merge(s, o).scalars["score"][2] = Value(out[at])
  BY <1>8
<1>10. ASSUME ~(at > 1 /\ out[at - 1][1] \in {"confidence", "high", "low"})
       PROVE  Value(out[at]) \in Range(Scores(out))
  BY <1>2, <1>3, <1>4, <1>10, ScoreOf
<1> QED BY <1>1, <1>6, <1>8, <1>9, <1>10 DEF ScoreIn

\* A run begins with every fact in its state.
LEMMA RunCarries ==
    ASSUME NEW request, FactsNamed(request), Run(request)
    PROVE  Carried'
<1>1. pc' = "Reasoning" /\ req' = request /\ state' \in InitialStates(request)
  BY DEF Run
<1>2. FactsIn(state'.lists, request.context.facts, Len(request.context.facts))
  <2>1. CASE request.config # {}
    <3>1. Len(request.context.facts) = 0
      BY <2>1 DEF FactsNamed
    <3> QED BY <3>1 DEF FactsIn
  <2>2. CASE request.config = {}
    <3>1. \E entries : state' = BuildState(request.context, entries)
      BY <1>1, <2>2 DEF InitialStates
    <3>2. \E s : state' = WithFacts(s, request.context.facts)
      BY <3>1 DEF BuildState
    <3> QED BY <3>2, WithFactsHas
  <2> QED BY <2>1, <2>2
<1>3. FactsNamed(req)' /\ FactsCarried'
  BY <1>1, <1>2 DEF FactsCarried, FactsNamed
<1>4. ConclusionCarried' /\ ScoreCarried'
  BY <1>1 DEF ConclusionCarried, ScoreCarried
<1> QED BY <1>3, <1>4 DEF Carried

\* The facts stay where a step's signals are merged, for these have other names.
LEMMA MergeKeepsFacts ==
    ASSUME NEW request, FactsNamed(request), NEW s, NEW signals,
           FactsIn(s.lists, request.context.facts, Len(request.context.facts))
    PROVE  FactsIn(Merge(s, ToInjection(signals)).lists, request.context.facts, Len(request.context.facts))
<1>1. PICK facts : facts = request.context.facts
  OBVIOUS
<1>2. facts \in Seq(Range(facts)) /\ \A f \in Range(facts) : FactKey(f) # "observations"
  BY <1>1 DEF FactsNamed
<1>3. PICK N \in Nat : N = Len(facts) /\ DOMAIN facts = 1 .. N
  BY <1>2
<1>4. PICK o : o = ToInjection(signals)
  OBVIOUS
<1>5. DOMAIN o.lists \subseteq {"observations"}
  BY <1>4, InjectionIs
<1>6. ASSUME NEW i \in 1 .. N, \A j \in 1 .. N : j > i => facts[j].key # facts[i].key
      PROVE  /\ FactKey(facts[i]) \in DOMAIN Merge(s, o).lists
             /\ Merge(s, o).lists[FactKey(facts[i])] = <<facts[i].value>>
  <2>1. FactKey(facts[i]) \in DOMAIN s.lists /\ s.lists[FactKey(facts[i])] = <<facts[i].value>>
    BY <1>1, <1>3, <1>6 DEF FactsIn
  <2>2. FactKey(facts[i]) \notin DOMAIN o.lists
    BY <1>2, <1>3, <1>5 DEF Range
  <2>3. PICK k : k = FactKey(facts[i])
    OBVIOUS
  <2> QED BY <2>1, <2>2, <2>3, MergeHas
<1> QED BY <1>1, <1>3, <1>4, <1>6 DEF FactsIn

\* Evaluation that names no confidence of its own leaves the conclusion in its place.
LEMMA MergeKeepsConclusion ==
    ASSUME NEW s, NEW text, ConclusionIn(s.lists, text), NEW out, ~Has(out, {"high", "low"})
    PROVE  ConclusionIn(Merge(s, ToInjection(Signals("Evaluation", out))).lists, text)
<1>1. ~Has(out, {"high"}) /\ ~Has(out, {"low"})
  BY DEF Has
<1>2. Signals("Evaluation", out).observations = <<>>
  <2>1. Signals("Evaluation", out) = EvaluationSignals(out)
    BY DEF Signals
  <2>2. EvaluationSignals(out).observations = <<>>
    BY <1>1 DEF EvaluationSignals
  <2> QED BY <2>1, <2>2
<1>3. PICK o : o = ToInjection(Signals("Evaluation", out))
  OBVIOUS
<1>4. DOMAIN o.lists = {}
  BY <1>2, <1>3, InjectionIs
<1>5. /\ "observations" \in DOMAIN Merge(s, o).lists
      /\ Merge(s, o).lists["observations"] = s.lists["observations"]
  BY <1>4, MergeHas DEF ConclusionIn
<1> QED BY <1>3, <1>5 DEF ConclusionIn

\* A step hands on what it was given, and what it found.
LEMMA StepCarries ==
    ASSUME ChainInv, Carried, NEW k \in 1 .. 3, NEW out \in Seq(Word), NEW rendering \in Renderings(state),
           RunStep(Steps[k], out, rendering)
    PROVE  Carried'
<1>1. PICK prompt : prompt = Render(TaskFrame(Steps[k]), rendering, StepPlan(req, Steps[k]).intent)
  OBVIOUS
<1>2. /\ req' = req /\ \A i \in 1 .. k - 1 : chain'.traces[i] = chain.traces[i]
      /\ chain'.traces[k].output = out
  <2>1. /\ UNCHANGED <<req, answer, before>> /\ \A i \in 1 .. k - 1 : chain'.traces[i] = chain.traces[i]
        /\ chain'.traces[k] = TraceOf(req, k, prompt, out)
    BY <1>1, StepKeepsChain
  <2>2. TraceOf(req, k, prompt, out).output = out
    BY DEF TraceOf
  <2> QED BY <2>1, <2>2
<1>3. Done \notin {"Reasoning", "Evaluation", "Planning"}
  BY DEF Done
<1>4. PICK valid : valid = Valid(out, StepPlan(req, Steps[k]).contract)
  OBVIOUS
<1>5. valid \in BOOLEAN
  BY <1>4, ValidIsBoolean
<1>6. /\ pc = Steps[k] /\ pc' = (IF valid THEN Following(Steps[k]) ELSE Done)
      /\ state' = IF valid THEN Merge(state, ToInjection(Signals(Steps[k], out))) ELSE state
  BY <1>4 DEF RunStep
<1>7. Steps[k] \in Range(Steps)
  BY StepsAre DEF Range
<1>8. FactsNamed(req)' /\ (pc' \notin Range(Steps) => Carried')
  BY <1>2, StepsAre DEF Carried, FactsCarried, ConclusionCarried, ScoreCarried, FactsNamed
<1>9. SUFFICES ASSUME pc' \in Range(Steps) PROVE FactsCarried' /\ ConclusionCarried' /\ ScoreCarried'
  BY <1>8 DEF Carried
<1>10. valid /\ pc' = Following(Steps[k]) /\ k \in 1 .. 2
       /\ state' = Merge(state, ToInjection(Signals(Steps[k], out)))
  BY <1>3, <1>5, <1>6, <1>9, StepsAre DEF Following
<1>11. FactsCarried'
  <2>1. FactsIn(state.lists, req.context.facts, Len(req.context.facts)) /\ FactsNamed(req)
    BY <1>6, <1>7 DEF Carried, FactsCarried
  <2>2. FactsIn(state'.lists, req.context.facts, Len(req.context.facts))
    BY <1>10, <2>1, MergeKeepsFacts
  <2> QED BY <1>2, <2>2 DEF FactsCarried
<1>12. CASE k = 1
  <2>1. pc' = "Evaluation" /\ Output("Reasoning")' = out
    BY <1>2, <1>10, <1>12, StepsAre DEF Following, Output
  <2>2. Concludes(out) => ConclusionIn(state'.lists, Concluded(out))
    BY <1>10, <1>12, StepsAre, ReasoningObserves
  <2>3. ConclusionCarried' /\ ScoreCarried'
    BY <2>1, <2>2 DEF ConclusionCarried, ScoreCarried
  <2> QED BY <1>11, <2>3
<1>13. CASE k = 2
  <2>1. /\ pc = "Evaluation" /\ pc' = "Planning" /\ Output("Evaluation")' = out
        /\ Output("Reasoning")' = Output("Reasoning")
    BY <1>2, <1>6, <1>10, <1>13, StepsAre DEF Following, Output
  <2>2. Concludes(Output("Reasoning")) /\ ~Has(out, {"high", "low"})
          => ConclusionIn(state'.lists, Concluded(Output("Reasoning")))
    <3>1. Concludes(Output("Reasoning")) => ConclusionIn(state.lists, Concluded(Output("Reasoning")))
      BY <2>1 DEF Carried, ConclusionCarried
    <3> QED BY <1>10, <1>13, <3>1, StepsAre, MergeKeepsConclusion
  <2>3. ConclusionCarried'
    BY <2>1, <2>2 DEF ConclusionCarried
  <2>4. Fit(out) # {} => ScoreIn(state'.scalars, out)
    BY <1>10, <1>13, StepsAre, EvaluationScores
  <2>5. ScoreCarried'
    BY <2>1, <2>4 DEF ScoreCarried
  <2> QED BY <1>11, <2>3, <2>5
<1> QED BY <1>10, <1>12, <1>13

\* What the invariant says when planning runs.
LEMMA CarriedIsKnown == Carried => PlanningKnowsWhatWasSaid
<1> SUFFICES ASSUME Carried PROVE PlanningKnowsWhatWasSaid
  OBVIOUS
<1>0. pc # "Planning" => PlanningKnowsWhatWasSaid
  BY DEF PlanningKnowsWhatWasSaid
<1>s. SUFFICES ASSUME pc = "Planning" PROVE PlanningKnowsWhatWasSaid
  BY <1>0
<1>1. Concluded(Output("Reasoning")) # <<>> /\ ~Has(Output("Reasoning"), {"wide"})
        /\ ~Has(Output("Evaluation"), {"high", "low"})
      => "observations" \in DOMAIN state.lists
         /\ <<"conclusion", Concluded(Output("Reasoning"))>> \in Range(state.lists["observations"])
  BY <1>s DEF Carried, ConclusionCarried, Concludes, ConclusionIn
<1>2. \A i \in DOMAIN req.context.facts :
         (\A j \in DOMAIN req.context.facts : j > i => req.context.facts[j].key # req.context.facts[i].key)
           => /\ FactKey(req.context.facts[i]) \in DOMAIN state.lists
              /\ state.lists[FactKey(req.context.facts[i])] = <<req.context.facts[i].value>>
  <2>1. PICK facts : facts = req.context.facts
    OBVIOUS
  <2>2. facts \in Seq(Range(facts)) /\ FactsIn(state.lists, facts, Len(facts))
    BY <1>s, <2>1, StepsAre DEF Carried, FactsCarried, FactsNamed
  <2>3. DOMAIN facts = 1 .. Len(facts)
    BY <2>2
  <2> QED BY <2>1, <2>2, <2>3 DEF FactsIn
<1>3. Fit(Output("Evaluation")) # {} => ScoreIn(state.scalars, Output("Evaluation"))
  BY <1>s DEF Carried, ScoreCarried
<1>4. PICK out : out = Output("Evaluation")
  OBVIOUS
<1>5. Fit(out) # {} =>
         /\ "score" \in DOMAIN state.scalars
         /\ ~(Min(Fit(out)) > 1 /\ out[Min(Fit(out)) - 1][1] \in {"confidence", "high", "low"})
               => state.scalars["score"][2] \in Range(Scores(out))
  BY <1>3, <1>4 DEF ScoreIn
<1> QED BY <1>1, <1>2, <1>4, <1>5 DEF PlanningKnowsWhatWasSaid

----------------------------------------------------------------------------
(* Theorems *)

\* An unfinished chain has passed two steps at most.
LEMMA FewPassed ==
    ASSUME NEW c, ChainRecord(c), Finished(c), c.completed = FALSE
    PROVE  ~(10 * Cardinality({i \in DOMAIN c.traces : c.traces[i].valid}) > 20)
<1> DEFINE n == Len(c.traces)
           passed == {i \in DOMAIN c.traces : c.traces[i].valid}
<1>1. n \in 1 .. 3 /\ DOMAIN c.traces = 1 .. n /\ ~c.traces[n].valid
  BY DEF ChainRecord, Finished
<1>2. passed \subseteq 1 .. n - 1
  <2>1. ASSUME NEW i \in 1 .. n, c.traces[i].valid
        PROVE  i \in 1 .. n - 1
    <3>1. i # n
      BY <1>1, <2>1
    <3>2. PICK m : m = n
      OBVIOUS
    <3>3. m \in 1 .. 3 /\ i \in 1 .. m /\ i # m
      BY <1>1, <3>1, <3>2
    <3>4. i \in 1 .. m - 1
      BY ONLY <3>3
    <3> QED BY <3>2, <3>4
  <2> QED BY <1>1, <2>1
<1>3. IsFiniteSet(1 .. n - 1) /\ Cardinality(1 .. n - 1) <= 2
  <2>a. PICK l : l = n
    OBVIOUS
  <2>b. l \in 1 .. 3
    BY <1>1, <2>a
  <2>c. PICK m \in Int : m = l - 1 /\ m <= 2 /\ 0 <= m
    BY ONLY <2>b
  <2>1. m \in Int /\ m = n - 1 /\ m <= 2 /\ 0 <= m
    BY <2>a, <2>c
  <2>2. IsFiniteSet(1 .. m) /\ Cardinality(1 .. m) = IF 1 > m THEN 0 ELSE m - 1 + 1
    BY FS_Interval
  <2>3. IsFiniteSet(1 .. m) /\ Cardinality(1 .. m) <= 2
    BY <2>1, <2>2
  <2> QED BY <2>1, <2>3
<1>4. Cardinality(passed) <= Cardinality(1 .. n - 1) /\ Cardinality(passed) \in Nat
  BY <1>2, <1>3, FS_Subset, FS_CardinalityType
<1>5. Cardinality(1 .. n - 1) \in Nat
  BY <1>3, FS_CardinalityType
<1> HIDE DEF passed, n
<1>6. Cardinality(passed) <= 2
  BY <1>3, <1>4, <1>5
<1>7. ~(10 * Cardinality(passed) > 20)
  BY <1>4, <1>6
<1> QED BY <1>7 DEF passed

\* Under the invariant a proposal speaks for its chain.
LEMMA InvSpeaks == ChainInv => ProposalSpeaksForChain
<1> SUFFICES ASSUME ChainInv, answer # NoAnswer
             PROVE  LET n == Len(chain.traces) IN
                    /\ Tasks = SubSeq(Steps, 1, n)
                    /\ \A i \in 1 .. n - 1 : answer.results[i]
                    /\ answer.kind = "Plan" <=> n = 3 /\ answer.results[3]
                    /\ \A t \in req.policy.truths : answer.truths[t] <=> answer.kind = "Plan"
                    /\ answer.kind = "Reasoning" => ~answer.results[n] /\ chain.failed = Steps[n]
                    /\ answer.kind = "Plan" <=> answer.confidence > 20
                    /\ answer.payload = chain.traces[n].output
                    /\ answer.human = req.policy.human
  BY DEF ProposalSpeaksForChain
<1> DEFINE n == Len(chain.traces)
<1>1. ChainRecord(chain) /\ Traced(chain, req) /\ Finished(chain) /\ answer = Proposal(chain, req)
  BY DEF ChainInv, ChainOK, AnswerOK
<1>2. n \in 1 .. 3 /\ DOMAIN chain.traces = 1 .. n /\ chain.traces \in Seq(Range(chain.traces))
  BY <1>1 DEF ChainRecord, Finished
<1>3. /\ answer.kind = (IF chain.completed THEN "Plan" ELSE "Reasoning")
      /\ answer.payload = (IF chain.completed THEN chain.final ELSE Last(chain.traces).output)
      /\ \A i \in 1 .. n : answer.results[i] = chain.traces[i].valid
      /\ \A t \in req.policy.truths : answer.truths[t] = chain.completed
      /\ answer.confidence = (IF chain.completed THEN 27
                              ELSE 10 * Cardinality({i \in DOMAIN chain.traces : chain.traces[i].valid}))
      /\ answer.human = req.policy.human
  BY <1>1, <1>2 DEF Proposal
<1>4. \A i \in 1 .. n - 1 : chain.traces[i].valid
  BY <1>1 DEF Finished
<1>5. \/ /\ n = 3 /\ chain.traces[3].valid /\ chain.completed = TRUE
         /\ chain.final = chain.traces[3].output
      \/ ~chain.traces[n].valid /\ chain.completed = FALSE /\ chain.failed = Steps[n]
  BY <1>1 DEF Finished
<1>6. Tasks = SubSeq(Steps, 1, n)
  <2>1. Tasks = [i \in 1 .. n |-> chain.traces[i].step]
    BY <1>2 DEF Tasks
  <2>2. ASSUME NEW i \in 1 .. n PROVE chain.traces[i].step = Steps[i]
    <3>1. chain.traces[i] = TraceOf(req, i, chain.traces[i].prompt, chain.traces[i].output)
      BY <1>1, <1>2 DEF Traced
    <3>2. \A prompt, out : TraceOf(req, i, prompt, out).step = Steps[i]
      BY DEF TraceOf
    <3> QED BY <3>1, <3>2
  <2>3. Tasks = [i \in 1 .. n |-> Steps[i]]
    BY <2>1, <2>2
  <2>4. SubSeq(Steps, 1, n) = [i \in 1 .. n |-> Steps[i]]
    BY <1>2, StepsAre
  <2> QED BY <2>3, <2>4
<1>7. Last(chain.traces) = chain.traces[n]
  BY DEF Last
<1>8. chain.completed = FALSE => ~(answer.confidence > 20)
  BY <1>1, <1>3, FewPassed
<1>11. \A i \in 1 .. n - 1 : i \in 1 .. n
  BY <1>2
<1>9. CASE chain.completed = TRUE
  <2>1. n = 3 /\ chain.traces[3].valid /\ answer.payload = chain.traces[3].output
    BY <1>3, <1>5, <1>9
  <2>2. answer.kind = "Plan" /\ answer.confidence > 20 /\ answer.results[3]
    BY <1>2, <1>3, <1>9, <2>1
  <2>3. \A t \in req.policy.truths : answer.truths[t]
    BY <1>3, <1>9
  <2>4. \A i \in 1 .. n - 1 : answer.results[i]
    BY <1>3, <1>4, <1>11
  <2> QED BY <1>3, <1>6, <2>1, <2>2, <2>3, <2>4
<1>10. CASE chain.completed = FALSE
  <2>1. ~chain.traces[n].valid /\ chain.failed = Steps[n] /\ answer.payload = chain.traces[n].output
    BY <1>3, <1>5, <1>7, <1>10
  <2>2. answer.kind = "Reasoning" /\ answer.kind # "Plan" /\ ~(answer.confidence > 20) /\ ~answer.results[n]
    <3>1. answer.kind = "Reasoning"
      BY <1>3, <1>10
    <3>2. ~(answer.confidence > 20)
      BY <1>8, <1>10
    <3>a. \A m \in 1 .. 3 : m \in 1 .. m
      OBVIOUS
    <3>3. n \in 1 .. n
      BY ONLY <1>2, <3>a
    <3>4. ~answer.results[n]
      BY <1>3, <2>1, <3>3
    <3> QED BY <3>1, <3>2, <3>4
  <2>3. \A t \in req.policy.truths : ~answer.truths[t]
    BY <1>3, <1>10
  <2>4. \A i \in 1 .. n - 1 : answer.results[i]
    BY <1>3, <1>4, <1>11
  <2> QED BY <1>3, <1>6, <2>1, <2>2, <2>3, <2>4
<1> QED BY <1>5, <1>9, <1>10

\* A finished chain does not go on where another stopped with the same traces.
LEMMA NoShorter ==
    ASSUME NEW c, NEW d, ChainRecord(c), Finished(c), ChainRecord(d), Finished(d),
           \A i \in DOMAIN c.traces \cap DOMAIN d.traces : c.traces[i] = d.traces[i]
    PROVE  ~(Len(c.traces) < Len(d.traces))
<1> SUFFICES ASSUME Len(c.traces) < Len(d.traces) PROVE FALSE
  OBVIOUS
<1>1. PICK n, m : n = Len(c.traces) /\ m = Len(d.traces)
  OBVIOUS
<1>2. /\ n \in 1 .. 3 /\ m \in 1 .. 3 /\ n < m
      /\ DOMAIN c.traces = 1 .. n /\ DOMAIN d.traces = 1 .. m
  BY <1>1 DEF ChainRecord, Finished
<1>3. n \in 1 .. m - 1 /\ n \in 1 .. n /\ n \in 1 .. m /\ n # 3
  BY ONLY <1>2
<1>4. c.traces[n] = d.traces[n]
  BY <1>2, <1>3
<1>5. d.traces[n].valid
  BY <1>1, <1>3 DEF Finished
<1>6. ~c.traces[n].valid
  BY <1>1, <1>3 DEF Finished
<1> QED BY <1>4, <1>5, <1>6

\* Finished chains that agree as far as both go are alike.
LEMMA ChainsAlike ==
    ASSUME NEW c, NEW d, ChainRecord(c), Finished(c), ChainRecord(d), Finished(d),
           \A i \in DOMAIN c.traces \cap DOMAIN d.traces : c.traces[i] = d.traces[i]
    PROVE  c.traces = d.traces /\ c.completed = d.completed /\ c.final = d.final
<1>1. PICK n, m : n = Len(c.traces) /\ m = Len(d.traces)
  OBVIOUS
<1>2. /\ n \in 1 .. 3 /\ m \in 1 .. 3
      /\ DOMAIN c.traces = 1 .. n /\ DOMAIN d.traces = 1 .. m
      /\ c.traces \in Seq(Range(c.traces)) /\ d.traces \in Seq(Range(d.traces))
  BY <1>1 DEF ChainRecord, Finished
<1>3. ~(n < m) /\ ~(m < n)
  BY <1>1, NoShorter
<1>4. n = m
  BY ONLY <1>2, <1>3
<1>5. \A i \in 1 .. n : c.traces[i] = d.traces[i]
  BY <1>2, <1>4
<1>6. c.traces = d.traces
  BY <1>2, <1>4, <1>5
<1>7. \/ n = 3 /\ c.traces[n].valid /\ c.completed = TRUE /\ c.final = c.traces[n].output
      \/ ~c.traces[n].valid /\ c.completed = FALSE /\ c.final = <<>>
  BY <1>1 DEF Finished
<1>8. \/ n = 3 /\ d.traces[n].valid /\ d.completed = TRUE /\ d.final = d.traces[n].output
      \/ ~d.traces[n].valid /\ d.completed = FALSE /\ d.final = <<>>
  BY <1>1, <1>4 DEF Finished
<1>9. CASE c.traces[n].valid
  BY <1>6, <1>7, <1>8, <1>9
<1>10. CASE ~c.traces[n].valid
  BY <1>6, <1>7, <1>8, <1>10
<1> QED BY <1>6, <1>9, <1>10

ProposalOf(id, kind, payload, results, truths, confidence, human, replayability) ==
    [id |-> id, kind |-> kind, payload |-> payload, results |-> results, truths |-> truths,
     confidence |-> confidence, human |-> human, replayability |-> replayability]

Renumbered(a) == [a EXCEPT !.id = 0]

\* Another number leaves the rest of a proposal.
LEMMA RenumberedIs ==
    \A id, kind, payload, results, truths, confidence, human, replayability :
        Renumbered(ProposalOf(id, kind, payload, results, truths, confidence, human, replayability))
            = ProposalOf(0, kind, payload, results, truths, confidence, human, replayability)
BY DEF ProposalOf, Renumbered

\* Alike chains make alike proposals.
LEMMA ProposalsAlike ==
    ASSUME NEW c, NEW d, NEW r, c.traces = d.traces, c.completed = d.completed, c.final = d.final
    PROVE  Renumbered(Proposal(c, r)) = Renumbered(Proposal(d, r))
<1>1. PICK kind : kind = IF c.completed THEN "Plan" ELSE "Reasoning"
  OBVIOUS
<1>2. PICK payload : payload = IF c.completed THEN c.final ELSE Last(c.traces).output
  OBVIOUS
<1>3. PICK results : results = [i \in DOMAIN c.traces |-> c.traces[i].valid]
  OBVIOUS
<1>4. PICK truths : truths = [t \in r.policy.truths |-> c.completed]
  OBVIOUS
<1>5. PICK confidence :
         confidence = IF c.completed THEN 27
                      ELSE 10 * Cardinality({i \in DOMAIN c.traces : c.traces[i].valid})
  OBVIOUS
<1>6. PICK replayability : replayability = Replayability(r.policy, {})
  OBVIOUS
<1>7. Proposal(c, r) = ProposalOf(c.id, kind, payload, results, truths, confidence, r.policy.human, replayability)
  BY <1>1, <1>2, <1>3, <1>4, <1>5, <1>6 DEF Proposal, ProposalOf
<1>8. Proposal(d, r) = ProposalOf(d.id, kind, payload, results, truths, confidence, r.policy.human, replayability)
  BY <1>1, <1>2, <1>3, <1>4, <1>5, <1>6 DEF Proposal, ProposalOf
<1> QED BY <1>7, <1>8, RenumberedIs

\* The invariant lets a deterministic request be replayed.
LEMMA InvReplays == ChainInv => ReplayGivenOrder
<1> SUFFICES ASSUME ChainInv, NEW b \in before, answer # NoAnswer, b.req = req,
                    b.answer.replayability = "Deterministic", SamePlaces(b)
             PROVE  [answer EXCEPT !.id = 0] = [b.answer EXCEPT !.id = 0]
  BY DEF ReplayGivenOrder
<1>1. /\ ChainRecord(chain) /\ Finished(chain) /\ answer = Proposal(chain, req)
      /\ ChainRecord(b.chain) /\ Finished(b.chain) /\ b.answer = Proposal(b.chain, req)
  BY DEF ChainInv, ChainOK, AnswerOK, BeforeOK
<1>2. b.answer.replayability = Replayability(req.policy, {})
  BY <1>1 DEF Proposal
<1>3. req.policy.seeded
  BY <1>2 DEF Replayability, When
<1>4. \A i \in DOMAIN chain.traces \cap DOMAIN b.chain.traces : chain.traces[i] = b.chain.traces[i]
  BY <1>3 DEF ChainInv, Retraces
<1>5. Renumbered(answer) = Renumbered(b.answer)
  BY <1>1, <1>4, ChainsAlike, ProposalsAlike
<1> QED BY <1>5 DEF Renumbered

\* What announces each check.
LEMMA AnnouncedBy ==
    ASSUME NEW hints
    PROVE  /\ Announces(hints, "requires_reasoning_steps") <=> "steps" \in hints
           /\ Announces(hints, "requires_conclusion") <=> "end_with_conclusion" \in hints
           /\ Announces(hints, "uncertain_reason") <=> "uncertain_with_reason" \in hints
           /\ Announces(hints, "max_steps") <=> "at_most" \in hints
           /\ Announces(hints, "max_tokens") <=> "at_most" \in hints
           /\ Announces(hints, "requires_ordered_steps") <=> "numbered" \in hints
           /\ Announces(hints, "requires_capability_refs") <=> "capabilities" \in hints
           /\ Announces(hints, "unknown_capability") <=> "capabilities" \in hints
           /\ Announces(hints, "scores") <=> "range" \in hints
           /\ Announces(hints, "score_range") <=> "range" \in hints
           /\ Announces(hints, "score_cardinality") <=> "how_many" \in hints
           /\ Announces(hints, "confidence_required") <=> "confidence" \in hints
           /\ Announces(hints, "justification_required") <=> "justification" \in hints
           /\ Announces(hints, "grounding_refs") <=> "refer_to" \in hints
           /\ Announces(hints, "valid_categories") <=> "categories" \in hints
           /\ Announces(hints, "multi_label") <=> "exactly_one" \in hints
           /\ Announces(hints, "required_field") <=> "fields" \in hints
BY DEF Announces

\* The reasoning contract's checks are announced.
LEMMA ReasoningAnnounced ==
    ASSUME NEW out, NEW c, c.type = "Reasoning", NEW check \in Failures(out, c)
    PROVE  Announces(PromptHint(c), check)
<1>1. check \in ReasoningFailures(out, c)
  BY DEF Failures
<1>2. \/ check = "uncertain_reason" /\ c.uncertainty
      \/ check = "requires_reasoning_steps"
      \/ check = "requires_conclusion" /\ c.conclusion
      \/ check = "max_steps"
  BY <1>1 DEF ReasoningFailures, When
<1>3. PromptHint(c) = {"steps"} \cup Said(c.conclusion, {"end_with_conclusion"})
                          \cup Said(c.uncertainty, {"uncertain_with_reason"}) \cup {"at_most"}
  BY DEF PromptHint
<1>4. /\ "steps" \in PromptHint(c) /\ "at_most" \in PromptHint(c)
      /\ c.conclusion => "end_with_conclusion" \in PromptHint(c)
      /\ c.uncertainty => "uncertain_with_reason" \in PromptHint(c)
  BY <1>3 DEF Said
<1> QED BY <1>2, <1>4, AnnouncedBy

\* The planning contract's checks are announced.
LEMMA PlanningAnnounced ==
    ASSUME NEW out, NEW c, c.type = "Planning", NEW check \in Failures(out, c)
    PROVE  Announces(PromptHint(c), check)
<1>1. check \in PlanningFailures(out, c)
  BY DEF Failures
<1>2. \/ check = "requires_ordered_steps" /\ c.ordered
      \/ check = "max_steps"
      \/ check \in {"requires_capability_refs", "unknown_capability"} /\ c.refs
  BY <1>1 DEF PlanningFailures, When
<1>3. PromptHint(c) = Said(c.ordered, {"numbered"}) \cup {"at_most"} \cup Said(c.refs, {"capabilities"})
  BY DEF PromptHint
<1>4. /\ "at_most" \in PromptHint(c)
      /\ c.ordered => "numbered" \in PromptHint(c)
      /\ c.refs => "capabilities" \in PromptHint(c)
  BY <1>3 DEF Said
<1> QED BY <1>2, <1>4, AnnouncedBy

\* The scores of a text can be counted.
LEMMA ScoresAreCounted ==
    ASSUME NEW out \in Seq(Word)
    PROVE  Len(Scores(out)) \in Nat
<1> DEFINE judged_ == {i \in DOMAIN out :
                         IsNumber(out[i]) /\ ~(i > 1 /\ out[i - 1][1] \in {"confidence", "high", "low"})}
           score(n) == Normal(Value(out[CHOOSE i \in judged_ : Cardinality({j \in judged_ : j =< i}) = n]))
<1>1. IsFiniteSet(judged_)
  <2>1. PICK m \in Nat : m = Len(out)
    OBVIOUS
  <2>2. IsFiniteSet(1 .. m)
    BY FS_Interval
  <2>3. DOMAIN out = 1 .. m
    BY <2>1
  <2> QED BY <2>2, <2>3, FS_Subset
<1>2. PICK k \in Nat : k = Cardinality(judged_)
  BY <1>1, FS_CardinalityType
<1>3. Scores(out) = [n \in 1 .. k |-> score(n)]
  BY <1>2 DEF Scores
<1> HIDE DEF score, judged_
<1>4. Len([n \in 1 .. k |-> score(n)]) = k
  OBVIOUS
<1> QED BY <1>3, <1>4

\* The evaluation contract's checks are announced.
LEMMA EvaluationAnnounced ==
    ASSUME NEW out \in Seq(Word), NEW c, c.type = "Evaluation", c.least \in Nat, NEW check \in Failures(out, c)
    PROVE  Announces(PromptHint(c), check)
<1>1. check \in EvaluationFailures(out, c)
  BY DEF Failures
<1>2. PICK n \in Nat : n = Len(Scores(out))
  BY ScoresAreCounted
<1>3. \/ check \in {"scores", "score_range"}
      \/ check = "score_cardinality" /\ n > 0 /\ (n < c.least \/ c.exactly)
      \/ check = "confidence_required" /\ c.confidence
      \/ check = "justification_required" /\ c.justification
      \/ check = "grounding_refs" /\ c.grounding # {}
  BY <1>1, <1>2 DEF EvaluationFailures, When
<1>4. n > 0 /\ (n < c.least \/ c.exactly) => c.exactly \/ c.least > 1
  OBVIOUS
<1>5. PromptHint(c) = {"range"} \cup Said(c.exactly \/ c.least > 1, {"how_many"})
                          \cup Said(c.confidence, {"confidence"})
                          \cup Said(c.justification, {"justification"})
                          \cup Said(c.grounding # {}, {"refer_to"})
  BY DEF PromptHint
<1>6. /\ "range" \in PromptHint(c)
      /\ c.exactly \/ c.least > 1 => "how_many" \in PromptHint(c)
      /\ c.confidence => "confidence" \in PromptHint(c)
      /\ c.justification => "justification" \in PromptHint(c)
      /\ c.grounding # {} => "refer_to" \in PromptHint(c)
  BY <1>5 DEF Said
<1> QED BY <1>3, <1>4, <1>6, AnnouncedBy

\* The checks of the other contracts are announced.
LEMMA OthersAnnounced ==
    ASSUME NEW out, NEW c, c.type \in {"Classification", "Extraction", "Freeform"},
           NEW check \in Failures(out, c)
    PROVE  Announces(PromptHint(c), check)
<1>1. CASE c.type = "Classification"
  <2>1. check \in ClassificationFailures(out, c)
    BY <1>1 DEF Failures
  <2>2. \/ check = "valid_categories" /\ c.categories # {}
        \/ check = "multi_label" /\ ~c.multi
        \/ check = "confidence_required" /\ c.confidence
    BY <2>1 DEF ClassificationFailures, When
  <2>3. PromptHint(c) = Said(c.categories # {}, {"categories"}) \cup Said(c.confidence, {"confidence"})
                            \cup Said(~c.multi, {"exactly_one"})
    BY <1>1 DEF PromptHint
  <2>4. /\ c.categories # {} => "categories" \in PromptHint(c)
        /\ ~c.multi => "exactly_one" \in PromptHint(c)
        /\ c.confidence => "confidence" \in PromptHint(c)
    BY <2>3 DEF Said
  <2> QED BY <2>2, <2>4, AnnouncedBy
<1>2. CASE c.type = "Extraction"
  <2>1. check = "required_field" /\ c.required # {}
    BY <1>2 DEF Failures, ExtractionFailures, When
  <2>2. "fields" \in PromptHint(c)
    BY <1>2, <2>1 DEF PromptHint, Said
  <2> QED BY <2>1, <2>2, AnnouncedBy
<1>3. CASE c.type = "Freeform"
  <2>1. check = "max_tokens"
    BY <1>3 DEF Failures, FreeformFailures, When
  <2>2. "at_most" \in PromptHint(c)
    BY <1>3 DEF PromptHint
  <2> QED BY <2>1, <2>2, AnnouncedBy
<1> QED BY <1>1, <1>2, <1>3

\* What is judged is a contract and a text.
LEMMA JudgedIs == Spec => [](judged \subseteq Judged)
<1>1. Init => judged \subseteq Judged
  BY DEF Init
<1>2. ASSUME judged \subseteq Judged, [Next]_vars
      PROVE  (judged \subseteq Judged)'
  <2>1. CASE Begin
    BY <1>2, <2>1 DEF Begin, Run
  <2>2. ASSUME NEW step, NEW out, NEW rendering, RunStep(step, out, rendering)
        PROVE  (judged \subseteq Judged)'
    BY <1>2, <2>2 DEF RunStep
  <2>3. CASE StepFails \/ BuildProposal
    BY <1>2, <2>3 DEF StepFails, BuildProposal
  <2>4. ASSUME NEW j \in Judged, Judge(j)
        PROVE  (judged \subseteq Judged)'
    BY <1>2, <2>4 DEF Judge
  <2>5. CASE UNCHANGED vars
    BY <1>2, <2>5 DEF vars
  <2> QED BY <1>2, <2>1, <2>2, <2>3, <2>4, <2>5 DEF Next
<1> QED BY <1>1, <1>2, PTL DEF Spec

\* The validator fails a text only on what the prompt announced, whatever the contract
\* and the text (validate_output, OutputContract::as_prompt_hint).
THEOREM OnlyAnnouncedChecksFail == Spec => []ChecksAreAnnounced
<1>1. judged \subseteq Judged => ChecksAreAnnounced
  <2> SUFFICES ASSUME judged \subseteq Judged, NEW j \in judged, NEW check \in Failures(j.output, j.contract)
               PROVE  Announces(PromptHint(j.contract), check)
    BY DEF ChecksAreAnnounced
  <2>1. PICK c : c = j.contract
    OBVIOUS
  <2>2. c \in Contract /\ j.output \in Seq(Word)
    BY <2>1, ChainAssumption
  <2>3. \/ c.type \in {"Reasoning", "Planning", "Classification", "Extraction", "Freeform"}
        \/ c.type = "Evaluation" /\ c.least \in Nat
    BY <2>2 DEF Contract
  <2> QED BY <2>1, <2>2, <2>3, ReasoningAnnounced, PlanningAnnounced, EvaluationAnnounced, OthersAnnounced
<1> QED BY <1>1, JudgedIs, PTL

\* Requests come from anywhere, with their facts named: what the server's calls do to
\* the chain (Accept of KernelRpc runs what a call carried; its other steps leave the
\* chain alone).
Served == Init /\ [][Next \/ \E request : FactsNamed(request) /\ Run(request)]_vars

\* The chain is that of its request in every state, wherever requests come from.
THEOREM ServedChainInvariance == Served => []ChainInv
<1>1. ChainInv /\ [Next \/ \E request : FactsNamed(request) /\ Run(request)]_vars => ChainInv'
  BY RunKeeps, NextKeeps
<1> QED BY <1>1, Starts, PTL DEF Served

\* Proposals made for calls from afar speak for their chains and are replayed too.
THEOREM ServedProposalsSpeak == Served => [](ProposalSpeaksForChain /\ ReplayGivenOrder)
BY ServedChainInvariance, InvSpeaks, InvReplays, PTL

\* What was said is carried along in every state.
THEOREM ServedCarries == Served => [](ChainInv /\ Carried)
<1>1. Init => Carried
  <2> SUFFICES ASSUME Init PROVE Carried
    OBVIOUS
  <2>1. pc = "idle" /\ FactsNamed(req)
    BY RequestAssumption DEF Init
  <2> QED BY <2>1, StepsAre DEF Carried, FactsCarried, ConclusionCarried, ScoreCarried
<1>2. ASSUME ChainInv, Carried, [Next \/ \E request : FactsNamed(request) /\ Run(request)]_vars
      PROVE  Carried'
  <2>1. ASSUME NEW request, FactsNamed(request), Run(request)
        PROVE  Carried'
    BY <2>1, RunCarries
  <2>2. CASE Begin
    BY <1>2, <2>1, <2>2 DEF Begin, Carried
  <2>3. ASSUME NEW step \in Range(Steps), NEW rendering \in Renderings(state), NEW out \in Outputs[step],
               RunStep(step, out, rendering)
        PROVE  Carried'
    <3>1. PICK k \in 1 .. 3 : step = Steps[k]
      BY StepsAre
    <3>2. out \in Seq(Word)
      BY StepsAre, ChainAssumption
    <3> QED BY <1>2, <2>3, <3>1, <3>2, StepCarries
  <2>4. ASSUME req' = req, pc' \notin Range(Steps)
        PROVE  Carried'
    BY <1>2, <2>4, StepsAre DEF Carried, FactsCarried, ConclusionCarried, ScoreCarried, FactsNamed
  <2>5. CASE StepFails
    BY <2>4, <2>5, StepsAre DEF StepFails
  <2>6. CASE BuildProposal
    BY <2>4, <2>6, StepsAre DEF BuildProposal
  <2>7. ASSUME NEW j \in Judged, Judge(j)
        PROVE  Carried'
    BY <2>4, <2>7, StepsAre DEF Judge
  <2>8. CASE UNCHANGED vars
    BY <1>2, <2>8 DEF vars, Carried, FactsCarried, ConclusionCarried, ScoreCarried, FactsNamed, Output
  <2> QED BY <1>2, <2>1, <2>2, <2>3, <2>5, <2>6, <2>7, <2>8 DEF Next
<1>3. Served => [][Next \/ \E request : FactsNamed(request) /\ Run(request)]_vars
  BY PTL DEF Served
<1>4. Served => Init
  BY DEF Served
<1> QED BY <1>1, <1>2, <1>3, <1>4, ServedChainInvariance, PTL

\* The requests of the specification are some of those.
LEMMA SpecIsServed == Spec => Served
<1>1. [Next]_vars => [Next \/ \E request : FactsNamed(request) /\ Run(request)]_vars
  OBVIOUS
<1> QED BY <1>1, PTL DEF Spec, Served

\* A proposal says what its chain went through (build_proposals, run_with_plan).
THEOREM ProposalsSpeak == Spec => []ProposalSpeaksForChain
BY SpecIsServed, ServedProposalsSpeak, PTL

\* Planning is given what was said before it (to_state_injection, merge,
\* build_state_injection).
THEOREM PlanningKnows == Spec => []PlanningKnowsWhatWasSaid
BY SpecIsServed, ServedCarries, CarriedIsKnown, PTL

\* A proposal that claims to be deterministic is made again for the same request, if it
\* begins with the same prompt and equal states are rendered alike
\* (compute_replayability).
THEOREM DeterministicIsReplayable == Spec => []ReplayGivenOrder
BY SpecIsServed, ServedProposalsSpeak, PTL

----------------------------------------------------------------------------
(* Across the wire *)

\* JSON values of one depth are made of those of the depth before.
JsonUpToStep(prev, m) ==
    IF m = 0 THEN Atoms
    ELSE Atoms \cup ({"array"} \X Seq(prev)) \cup ({"object"} \X Seq(STRING \X prev))

JsonUpToFn(f, n) == f = [m \in 0 .. n |-> JsonUpToStep(f[m - 1], m)]

LEMMA JsonUpToExists ==
    ASSUME NEW N \in Nat, \A p, q : JsonUpToStep(p, 0) = JsonUpToStep(q, 0)
    PROVE  \E f : JsonUpToFn(f, N)
<1> DEFINE T == {n \in Nat : ~\E f : JsonUpToFn(f, n)}
<1>1. SUFFICES ASSUME T # {} PROVE FALSE
  OBVIOUS
<1>2. PICK n \in T : \A y \in T : ~(y < n)
  <2>1. T \subseteq Nat
    OBVIOUS
  <2> HIDE DEF T
  <2> QED BY <1>1, <2>1, Least
<1>3. CASE n = 0
  <2>1. PICK f : f = [m \in 0 .. 0 |-> JsonUpToStep(0, m)]
    OBVIOUS
  <2>2. f = [m \in 0 .. 0 |-> JsonUpToStep(f[m - 1], m)]
    <3>1. \A m \in 0 .. 0 : m = 0
      OBVIOUS
    <3>2. \A m \in 0 .. 0 : JsonUpToStep(f[m - 1], m) = JsonUpToStep(0, m)
      BY <3>1
    <3> QED BY <2>1, <3>2
  <2> QED BY <1>3, <2>2 DEF JsonUpToFn
<1>4. CASE n # 0
  <2>1. n - 1 \in Nat /\ n - 1 \notin T /\ n \in Nat
    BY <1>2, <1>4
  <2>2. PICK f : JsonUpToFn(f, n - 1)
    BY <2>1
  <2>3. PICK g : g = [m \in 0 .. n |-> IF m = n THEN JsonUpToStep(f[n - 1], n) ELSE f[m]]
    OBVIOUS
  <2>4. \A m \in 0 .. n - 1 : g[m] = f[m] /\ f[m] = JsonUpToStep(f[m - 1], m)
    BY <2>1, <2>2, <2>3 DEF JsonUpToFn
  <2>5. ASSUME NEW m \in 0 .. n
        PROVE  g[m] = JsonUpToStep(g[m - 1], m)
    <3>1. CASE m = 0
      <4>1. JsonUpToStep(g[m - 1], m) = JsonUpToStep(f[m - 1], m)
        BY <3>1
      <4>2. m \in 0 .. n - 1 \/ m = n
        BY <2>1
      <4> QED BY <2>3, <2>4, <4>1, <4>2
    <3>2. CASE m > 0
      <4>1. m - 1 \in 0 .. n - 1 /\ (m \in 0 .. n - 1 \/ m = n)
        BY <2>1, <3>2
      <4>2. g[m - 1] = f[m - 1]
        BY <2>4, <4>1
      <4> QED BY <2>3, <2>4, <4>1, <4>2
    <3> QED BY <2>1, <3>1, <3>2
  <2>6. JsonUpToFn(g, n)
    BY <2>3, <2>5 DEF JsonUpToFn
  <2> QED BY <2>1, <2>6, <1>2
<1> QED BY <1>3, <1>4

\* So every value of JsonUpTo is made of the one before.
LEMMA JsonUpToIs ==
    \A d \in 0 .. MaxDepth : JsonUpTo[d] = JsonUpToStep(JsonUpTo[d - 1], d)
<1>1. MaxDepth \in Nat
  BY ChainAssumption
<1>2. \A p, q : JsonUpToStep(p, 0) = JsonUpToStep(q, 0)
  BY DEF JsonUpToStep
<1>3. \E f : JsonUpToFn(f, MaxDepth)
  BY <1>1, <1>2, JsonUpToExists
<1>4. JsonUpTo = CHOOSE f : JsonUpToFn(f, MaxDepth)
  BY DEF JsonUpTo, JsonUpToFn, JsonUpToStep
<1>5. JsonUpToFn(JsonUpTo, MaxDepth)
  BY <1>3, <1>4
<1> QED BY <1>5 DEF JsonUpToFn

\* And so are those of the wire.
WireUpToStep(prev, m) ==
    LET atoms == Atoms \cup ({"nan", "unset"} \X {0}) IN
    IF m = 0 THEN atoms
    ELSE atoms \cup ({"list"} \X Seq(prev)) \cup ({"struct"} \X Seq(STRING \X prev))

WireUpToFn(f, n) == f = [m \in 0 .. n |-> WireUpToStep(f[m - 1], m)]

LEMMA WireUpToExists ==
    ASSUME NEW N \in Nat, \A p, q : WireUpToStep(p, 0) = WireUpToStep(q, 0)
    PROVE  \E f : WireUpToFn(f, N)
<1> DEFINE T == {n \in Nat : ~\E f : WireUpToFn(f, n)}
<1>1. SUFFICES ASSUME T # {} PROVE FALSE
  OBVIOUS
<1>2. PICK n \in T : \A y \in T : ~(y < n)
  <2>1. T \subseteq Nat
    OBVIOUS
  <2> HIDE DEF T
  <2> QED BY <1>1, <2>1, Least
<1>3. CASE n = 0
  <2>1. PICK f : f = [m \in 0 .. 0 |-> WireUpToStep(0, m)]
    OBVIOUS
  <2>2. f = [m \in 0 .. 0 |-> WireUpToStep(f[m - 1], m)]
    <3>1. \A m \in 0 .. 0 : m = 0
      OBVIOUS
    <3>2. \A m \in 0 .. 0 : WireUpToStep(f[m - 1], m) = WireUpToStep(0, m)
      BY <3>1
    <3> QED BY <2>1, <3>2
  <2> QED BY <1>3, <2>2 DEF WireUpToFn
<1>4. CASE n # 0
  <2>1. n - 1 \in Nat /\ n - 1 \notin T /\ n \in Nat
    BY <1>2, <1>4
  <2>2. PICK f : WireUpToFn(f, n - 1)
    BY <2>1
  <2>3. PICK g : g = [m \in 0 .. n |-> IF m = n THEN WireUpToStep(f[n - 1], n) ELSE f[m]]
    OBVIOUS
  <2>4. \A m \in 0 .. n - 1 : g[m] = f[m] /\ f[m] = WireUpToStep(f[m - 1], m)
    BY <2>1, <2>2, <2>3 DEF WireUpToFn
  <2>5. ASSUME NEW m \in 0 .. n
        PROVE  g[m] = WireUpToStep(g[m - 1], m)
    <3>1. CASE m = 0
      <4>1. WireUpToStep(g[m - 1], m) = WireUpToStep(f[m - 1], m)
        BY <3>1
      <4>2. m \in 0 .. n - 1 \/ m = n
        BY <2>1
      <4> QED BY <2>3, <2>4, <4>1, <4>2
    <3>2. CASE m > 0
      <4>1. m - 1 \in 0 .. n - 1 /\ (m \in 0 .. n - 1 \/ m = n)
        BY <2>1, <3>2
      <4>2. g[m - 1] = f[m - 1]
        BY <2>4, <4>1
      <4> QED BY <2>3, <2>4, <4>1, <4>2
    <3> QED BY <2>1, <3>1, <3>2
  <2>6. WireUpToFn(g, n)
    BY <2>3, <2>5 DEF WireUpToFn
  <2> QED BY <2>1, <2>6, <1>2
<1> QED BY <1>3, <1>4

\* So every value of WireUpTo is made of the one before.
LEMMA WireUpToIs ==
    \A d \in 0 .. MaxDepth : WireUpTo[d] = WireUpToStep(WireUpTo[d - 1], d)
<1>1. MaxDepth \in Nat
  BY ChainAssumption
<1>2. \A p, q : WireUpToStep(p, 0) = WireUpToStep(q, 0)
  BY DEF WireUpToStep
<1>3. \E f : WireUpToFn(f, MaxDepth)
  BY <1>1, <1>2, WireUpToExists
<1>4. WireUpTo = CHOOSE f : WireUpToFn(f, MaxDepth)
  BY DEF WireUpTo, WireUpToFn, WireUpToStep
<1>5. WireUpToFn(WireUpTo, MaxDepth)
  BY <1>3, <1>4
<1> QED BY <1>5 DEF WireUpToFn

\* What a JSON value is.
LEMMA JsonKinds ==
    ASSUME NEW d \in 0 .. MaxDepth, NEW json \in JsonUpTo[d]
    PROVE  \/ json[1] \in {"string", "bool", "null"} /\ json \in WireUpTo[d]
           \/ json[1] = "number" /\ json[2] \in Nat /\ json = <<"number", json[2]>>
           \/ json[1] = "array" /\ d > 0 /\ json[2] \in Seq(JsonUpTo[d - 1]) /\ json = <<"array", json[2]>>
           \/ json[1] = "object" /\ d > 0 /\ json[2] \in Seq(STRING \X JsonUpTo[d - 1]) /\ json = <<"object", json[2]>>
<1>1. JsonUpTo[d] = JsonUpToStep(JsonUpTo[d - 1], d) /\ WireUpTo[d] = WireUpToStep(WireUpTo[d - 1], d)
  BY JsonUpToIs, WireUpToIs
<1>2. d \in Nat /\ (d # 0 => d > 0)
  BY ChainAssumption
<1>3. Atoms \subseteq WireUpTo[d]
  BY <1>1 DEF WireUpToStep
<1>4. CASE json \in Atoms
  BY <1>3, <1>4 DEF Atoms
<1>5. CASE d # 0 /\ json \in {"array"} \X Seq(JsonUpTo[d - 1])
  BY <1>2, <1>5
<1>6. CASE d # 0 /\ json \in {"object"} \X Seq(STRING \X JsonUpTo[d - 1])
  BY <1>2, <1>6
<1> QED BY <1>1, <1>4, <1>5, <1>6 DEF JsonUpToStep

\* How values of one depth are written is made of how those of the depth before are.
ToWireStep(prev, m) ==
    Writing(prev, m)

ToWireFn(f, n) == f = [m \in 0 .. n |-> ToWireStep(f[m - 1], m)]

LEMMA ToWireExists ==
    ASSUME NEW N \in Nat, \A p, q : ToWireStep(p, 0) = ToWireStep(q, 0)
    PROVE  \E f : ToWireFn(f, N)
<1> DEFINE T == {n \in Nat : ~\E f : ToWireFn(f, n)}
<1>1. SUFFICES ASSUME T # {} PROVE FALSE
  OBVIOUS
<1>2. PICK n \in T : \A y \in T : ~(y < n)
  <2>1. T \subseteq Nat
    OBVIOUS
  <2> HIDE DEF T
  <2> QED BY <1>1, <2>1, Least
<1>3. CASE n = 0
  <2>1. PICK f : f = [m \in 0 .. 0 |-> ToWireStep(0, m)]
    OBVIOUS
  <2>2. f = [m \in 0 .. 0 |-> ToWireStep(f[m - 1], m)]
    <3>1. \A m \in 0 .. 0 : m = 0
      OBVIOUS
    <3>2. \A m \in 0 .. 0 : ToWireStep(f[m - 1], m) = ToWireStep(0, m)
      BY <3>1
    <3> QED BY <2>1, <3>2
  <2> QED BY <1>3, <2>2 DEF ToWireFn
<1>4. CASE n # 0
  <2>1. n - 1 \in Nat /\ n - 1 \notin T /\ n \in Nat
    BY <1>2, <1>4
  <2>2. PICK f : ToWireFn(f, n - 1)
    BY <2>1
  <2>3. PICK g : g = [m \in 0 .. n |-> IF m = n THEN ToWireStep(f[n - 1], n) ELSE f[m]]
    OBVIOUS
  <2>4. \A m \in 0 .. n - 1 : g[m] = f[m] /\ f[m] = ToWireStep(f[m - 1], m)
    BY <2>1, <2>2, <2>3 DEF ToWireFn
  <2>5. ASSUME NEW m \in 0 .. n
        PROVE  g[m] = ToWireStep(g[m - 1], m)
    <3>1. CASE m = 0
      <4>1. ToWireStep(g[m - 1], m) = ToWireStep(f[m - 1], m)
        BY <3>1
      <4>2. m \in 0 .. n - 1 \/ m = n
        BY <2>1
      <4> QED BY <2>3, <2>4, <4>1, <4>2
    <3>2. CASE m > 0
      <4>1. m - 1 \in 0 .. n - 1 /\ (m \in 0 .. n - 1 \/ m = n)
        BY <2>1, <3>2
      <4>2. g[m - 1] = f[m - 1]
        BY <2>4, <4>1
      <4> QED BY <2>3, <2>4, <4>1, <4>2
    <3> QED BY <2>1, <3>1, <3>2
  <2>6. ToWireFn(g, n)
    BY <2>3, <2>5 DEF ToWireFn
  <2> QED BY <2>1, <2>6, <1>2
<1> QED BY <1>3, <1>4

\* So every value of ToWire is made of the one before.
LEMMA ToWireIs ==
    \A d \in 0 .. MaxDepth : ToWire[d] = ToWireStep(ToWire[d - 1], d)
<1>1. MaxDepth \in Nat
  BY ChainAssumption
<1>2. \A p, q : ToWireStep(p, 0) = ToWireStep(q, 0)
  <2>1. 0 \in 0 .. MaxDepth
    BY <1>1
  <2>a. JsonUpTo[0] = JsonUpToStep(0, 0)
    BY <2>1, JsonUpToIs DEF JsonUpToStep
  <2>2. \A json \in JsonUpTo[0] : json[1] \notin {"array", "object"}
    BY <2>a DEF JsonUpToStep, Atoms
  <2> QED BY <2>2 DEF ToWireStep, Writing
<1>3. \E f : ToWireFn(f, MaxDepth)
  BY <1>1, <1>2, ToWireExists
<1>4. ToWire = CHOOSE f : ToWireFn(f, MaxDepth)
  BY DEF ToWire, ToWireFn, ToWireStep
<1>5. ToWireFn(ToWire, MaxDepth)
  BY <1>3, <1>4
<1> QED BY <1>5 DEF ToWireFn

\* And so is how they are read.
FromWireStep(prev, m) ==
    Reading(prev, m)

FromWireFn(f, n) == f = [m \in 0 .. n |-> FromWireStep(f[m - 1], m)]

LEMMA FromWireExists ==
    ASSUME NEW N \in Nat, \A p, q : FromWireStep(p, 0) = FromWireStep(q, 0)
    PROVE  \E f : FromWireFn(f, N)
<1> DEFINE T == {n \in Nat : ~\E f : FromWireFn(f, n)}
<1>1. SUFFICES ASSUME T # {} PROVE FALSE
  OBVIOUS
<1>2. PICK n \in T : \A y \in T : ~(y < n)
  <2>1. T \subseteq Nat
    OBVIOUS
  <2> HIDE DEF T
  <2> QED BY <1>1, <2>1, Least
<1>3. CASE n = 0
  <2>1. PICK f : f = [m \in 0 .. 0 |-> FromWireStep(0, m)]
    OBVIOUS
  <2>2. f = [m \in 0 .. 0 |-> FromWireStep(f[m - 1], m)]
    <3>1. \A m \in 0 .. 0 : m = 0
      OBVIOUS
    <3>2. \A m \in 0 .. 0 : FromWireStep(f[m - 1], m) = FromWireStep(0, m)
      BY <3>1
    <3> QED BY <2>1, <3>2
  <2> QED BY <1>3, <2>2 DEF FromWireFn
<1>4. CASE n # 0
  <2>1. n - 1 \in Nat /\ n - 1 \notin T /\ n \in Nat
    BY <1>2, <1>4
  <2>2. PICK f : FromWireFn(f, n - 1)
    BY <2>1
  <2>3. PICK g : g = [m \in 0 .. n |-> IF m = n THEN FromWireStep(f[n - 1], n) ELSE f[m]]
    OBVIOUS
  <2>4. \A m \in 0 .. n - 1 : g[m] = f[m] /\ f[m] = FromWireStep(f[m - 1], m)
    BY <2>1, <2>2, <2>3 DEF FromWireFn
  <2>5. ASSUME NEW m \in 0 .. n
        PROVE  g[m] = FromWireStep(g[m - 1], m)
    <3>1. CASE m = 0
      <4>1. FromWireStep(g[m - 1], m) = FromWireStep(f[m - 1], m)
        BY <3>1
      <4>2. m \in 0 .. n - 1 \/ m = n
        BY <2>1
      <4> QED BY <2>3, <2>4, <4>1, <4>2
    <3>2. CASE m > 0
      <4>1. m - 1 \in 0 .. n - 1 /\ (m \in 0 .. n - 1 \/ m = n)
        BY <2>1, <3>2
      <4>2. g[m - 1] = f[m - 1]
        BY <2>4, <4>1
      <4> QED BY <2>3, <2>4, <4>1, <4>2
    <3> QED BY <2>1, <3>1, <3>2
  <2>6. FromWireFn(g, n)
    BY <2>3, <2>5 DEF FromWireFn
  <2> QED BY <2>1, <2>6, <1>2
<1> QED BY <1>3, <1>4

\* So every value of FromWire is made of the one before.
LEMMA FromWireIs ==
    \A d \in 0 .. MaxDepth : FromWire[d] = FromWireStep(FromWire[d - 1], d)
<1>1. MaxDepth \in Nat
  BY ChainAssumption
<1>2. \A p, q : FromWireStep(p, 0) = FromWireStep(q, 0)
  <2>1. 0 \in 0 .. MaxDepth
    BY <1>1
  <2>a. WireUpTo[0] = WireUpToStep(0, 0)
    BY <2>1, WireUpToIs DEF WireUpToStep
  <2>2. \A value \in WireUpTo[0] : value[1] \notin {"list", "struct"}
    BY <2>a DEF WireUpToStep, Atoms
  <2> QED BY <2>2 DEF FromWireStep, Reading
<1>3. \E f : FromWireFn(f, MaxDepth)
  BY <1>1, <1>2, FromWireExists
<1>4. FromWire = CHOOSE f : FromWireFn(f, MaxDepth)
  BY DEF FromWire, FromWireFn, FromWireStep
<1>5. FromWireFn(FromWire, MaxDepth)
  BY <1>3, <1>4
<1> QED BY <1>5 DEF FromWireFn

\* What is written for each kind of value.
LEMMA Written ==
    ASSUME NEW d \in 0 .. MaxDepth, NEW json \in JsonUpTo[d]
    PROVE  /\ json[1] \in {"string", "bool", "null"} => ToWire[d][json] = json
           /\ json[1] = "number" => ToWire[d][json] = <<"number", Float(json[2])>>
           /\ json[1] = "array" => ToWire[d][json] = <<"list", Each(ToWire[d - 1], json[2])>>
           /\ json[1] = "object" => ToWire[d][json] = <<"struct", EachField(ToWire[d - 1], json[2])>>
<1>1. PICK prev : prev = ToWire[d - 1]
  OBVIOUS
<1>2. ToWire[d] = ToWireStep(prev, d)
  BY <1>1, ToWireIs
<1>3. ToWire[d][json] = CASE json[1] = "number" -> <<"number", Float(json[2])>>
                          [] json[1] = "array" -> <<"list", Each(prev, json[2])>>
                          [] json[1] = "object" -> <<"struct", EachField(prev, json[2])>>
                          [] OTHER -> json
  BY <1>2 DEF ToWireStep, Writing
<1> QED BY <1>1, <1>3

\* What is read of each kind.
LEMMA ReadBack ==
    ASSUME NEW d \in 0 .. MaxDepth, NEW value \in WireUpTo[d]
    PROVE  /\ value[1] \in {"string", "bool", "null", "number"} => FromWire[d][value] = value
           /\ value[1] = "list" => FromWire[d][value] = <<"array", Each(FromWire[d - 1], value[2])>>
           /\ value[1] = "struct" => FromWire[d][value] = <<"object", EachField(FromWire[d - 1], value[2])>>
<1>1. PICK prev : prev = FromWire[d - 1]
  OBVIOUS
<1>2. FromWire[d] = FromWireStep(prev, d)
  BY <1>1, FromWireIs
<1>3. FromWire[d][value] = CASE value[1] = "nan" -> <<"number", 0>>
                             [] value[1] = "unset" -> <<"null", 0>>
                             [] value[1] = "list" -> <<"array", Each(prev, value[2])>>
                             [] value[1] = "struct" -> <<"object", EachField(prev, value[2])>>
                             [] OTHER -> value
  BY <1>2 DEF FromWireStep, Reading
<1> QED BY <1>1, <1>3

\* A float of a float is the float, and a float of a natural number is one.
LEMMA FloatOnce ==
    ASSUME NEW n \in Nat
    PROVE  Float(n) \in Nat /\ Float(Float(n)) = Float(n)
<1>1. ExactFloat \in Nat
  BY ChainAssumption
<1>2. PICK h \in Nat : h = n \div 2
  OBVIOUS
<1>3. 2 * h \in Nat /\ (2 * h) \div 2 = h
  OBVIOUS
<1>4. \A m \in Nat : Float(m) = IF m <= ExactFloat THEN m ELSE 2 * (m \div 2)
  BY DEF Float
<1>5. CASE n <= ExactFloat
  BY <1>4, <1>5
<1>6. CASE ~(n <= ExactFloat)
  <2>1. Float(n) = 2 * h
    BY <1>2, <1>4, <1>6
  <2>2. Float(2 * h) = 2 * h
    BY <1>3, <1>4
  <2> QED BY <1>3, <2>1, <2>2
<1> QED BY <1>5, <1>6

\* What is written can be read, by induction on the depth.
LEMMA WrittenIsWire ==
    \A d \in 0 .. MaxDepth : \A json \in JsonUpTo[d] : ToWire[d][json] \in WireUpTo[d]
<1> DEFINE T == {d \in 0 .. MaxDepth : ~\A json \in JsonUpTo[d] : ToWire[d][json] \in WireUpTo[d]}
<1>1. MaxDepth \in Nat
  BY ChainAssumption
<1>2. SUFFICES ASSUME T # {} PROVE FALSE
  OBVIOUS
<1>3. PICK d \in T : \A y \in T : ~(y < d)
  <2>1. T \subseteq Nat
    BY <1>1
  <2> HIDE DEF T
  <2> QED BY <1>2, <2>1, Least
<1>4. PICK json \in JsonUpTo[d] : ToWire[d][json] \notin WireUpTo[d]
  OBVIOUS
<1>5. d > 0 => d - 1 \in 0 .. MaxDepth /\ \A j \in JsonUpTo[d - 1] : ToWire[d - 1][j] \in WireUpTo[d - 1]
  BY <1>1, <1>3
<1>6. WireUpTo[d] = WireUpToStep(WireUpTo[d - 1], d)
  BY WireUpToIs
<1>a. \A n \in Nat : <<"number", n>> \in WireUpTo[d]
  BY <1>6 DEF WireUpToStep, Atoms
<1>7. CASE json[1] \in {"string", "bool", "null"} /\ json \in WireUpTo[d]
  BY <1>4, <1>7, Written
<1>8. CASE json[1] = "number" /\ json[2] \in Nat
  <2>1. Float(json[2]) \in Nat
    BY <1>8, FloatOnce
  <2>2. ToWire[d][json] = <<"number", Float(json[2])>>
    BY <1>8, Written
  <2> QED BY <1>a, <1>4, <2>1, <2>2
<1>9. CASE json[1] = "array" /\ d > 0 /\ json[2] \in Seq(JsonUpTo[d - 1])
  <2>1. PICK list : list = json[2]
    OBVIOUS
  <2>2. Each(ToWire[d - 1], list) \in Seq(WireUpTo[d - 1])
    BY <1>5, <1>9, <2>1 DEF Each
  <2>3. ToWire[d][json] = <<"list", Each(ToWire[d - 1], list)>>
    BY <1>9, <2>1, Written
  <2>4. ToWire[d][json] \in {"list"} \X Seq(WireUpTo[d - 1])
    BY <2>2, <2>3
  <2> QED BY <1>4, <1>6, <1>9, <2>4 DEF WireUpToStep
<1>10. CASE json[1] = "object" /\ d > 0 /\ json[2] \in Seq(STRING \X JsonUpTo[d - 1])
  <2>1. PICK fields : fields = json[2]
    OBVIOUS
  <2>2. EachField(ToWire[d - 1], fields) \in Seq(STRING \X WireUpTo[d - 1])
    <3>1. PICK n \in Nat : n = Len(fields) /\ DOMAIN fields = 1 .. n
      BY <1>10, <2>1
    <3>2. ASSUME NEW i \in 1 .. n
          PROVE  <<fields[i][1], ToWire[d - 1][fields[i][2]]>> \in STRING \X WireUpTo[d - 1]
      <4>1. fields[i] \in STRING \X JsonUpTo[d - 1]
        BY <1>10, <2>1, <3>1
      <4>2. fields[i][1] \in STRING /\ fields[i][2] \in JsonUpTo[d - 1]
        BY <4>1
      <4> QED BY <1>5, <1>10, <4>2
    <3>3. \A i \in 1 .. n : EachField(ToWire[d - 1], fields)[i] \in STRING \X WireUpTo[d - 1]
      BY <3>1, <3>2 DEF EachField
    <3>4. /\ EachField(ToWire[d - 1], fields) = [i \in 1 .. n |-> EachField(ToWire[d - 1], fields)[i]]
      BY <3>1 DEF EachField
    <3> QED BY <3>3, <3>4
  <2>3. ToWire[d][json] = <<"struct", EachField(ToWire[d - 1], fields)>>
    BY <1>10, <2>1, Written
  <2>4. ToWire[d][json] \in {"struct"} \X Seq(STRING \X WireUpTo[d - 1])
    BY <2>2, <2>3
  <2> QED BY <1>4, <1>6, <1>10, <2>4 DEF WireUpToStep
<1> QED BY <1>7, <1>8, <1>9, <1>10, JsonKinds

\* c is what comes back of j when it was sent across the wire.
Alike(c, j) == \E d \in 0 .. MaxDepth : j \in JsonUpTo[d] /\ c = FromWire[d][ToWire[d][j]]

\* Sequences of values, and of entries, of which this is so.
ListAlike(s, t) ==
    /\ s \in Seq(Range(s)) /\ t \in Seq(Range(t)) /\ Len(s) = Len(t)
    /\ \A i \in 1 .. Len(s) : Alike(s[i], t[i])

EntryAlike(e, f) == e[1] = f[1] /\ Alike(e[2], f[2])

AllAlike(s, t) ==
    /\ s \in Seq(Range(s)) /\ t \in Seq(Range(t)) /\ Len(s) = Len(t)
    /\ \A i \in 1 .. Len(s) : EntryAlike(s[i], t[i])

\* What comes back of a value is a value of its kind with what comes back of its parts;
\* only a number may be another.
LEMMA AlikeIs ==
    ASSUME NEW c, NEW j, Alike(c, j)
    PROVE  /\ c[1] = j[1]
           /\ j[1] \in {"string", "bool", "null", "number", "array", "object"}
           /\ j[1] \in {"string", "bool", "null"} => c = j
           /\ j[1] = "number" => j[2] \in Nat /\ c[2] = Float(j[2])
           /\ j[1] = "array" => ListAlike(c[2], j[2])
           /\ j[1] = "object" => AllAlike(c[2], j[2])
<1>1. PICK d \in 0 .. MaxDepth : j \in JsonUpTo[d] /\ c = FromWire[d][ToWire[d][j]]
  BY DEF Alike
<1>2. PICK w : w = ToWire[d][j]
  OBVIOUS
<1>3. w \in WireUpTo[d] /\ c = FromWire[d][w]
  BY <1>1, <1>2, WrittenIsWire
<1>4. CASE j[1] \in {"string", "bool", "null"}
  <2>1. w = j
    BY <1>1, <1>2, <1>4, Written
  <2>2. c = j
    BY <1>3, <1>4, <2>1, ReadBack
  <2> QED BY <1>4, <2>2
<1>5. CASE j[1] = "number" /\ j[2] \in Nat
  <2>1. w = <<"number", Float(j[2])>>
    BY <1>1, <1>2, <1>5, Written
  <2>2. w[1] = "number" /\ w[2] = Float(j[2])
    BY <2>1
  <2>3. c = w
    BY <1>3, <2>2, ReadBack
  <2> QED BY <1>5, <2>2, <2>3
<1>6. CASE j[1] = "array" /\ d > 0 /\ j[2] \in Seq(JsonUpTo[d - 1])
  <2>1. PICK list : list = j[2]
    OBVIOUS
  <2>2. PICK l : l = Each(ToWire[d - 1], list)
    OBVIOUS
  <2>3. w = <<"list", l>>
    BY <1>1, <1>2, <1>6, <2>1, <2>2, Written
  <2>4. w[1] = "list" /\ w[2] = l
    BY <2>3
  <2>5. c = <<"array", Each(FromWire[d - 1], l)>>
    BY <1>3, <2>4, ReadBack
  <2>6. PICK k : k = Each(FromWire[d - 1], l)
    OBVIOUS
  <2>7. c[1] = "array" /\ c[2] = k
    BY <2>5, <2>6
  <2>8. PICK n \in Nat : n = Len(list) /\ DOMAIN list = 1 .. n /\ list \in [1 .. n -> Range(list)]
    BY <1>6, <2>1 DEF Range
  <2>9. /\ DOMAIN k = 1 .. n
        /\ \A i \in 1 .. n : k[i] = FromWire[d - 1][ToWire[d - 1][list[i]]]
    BY <2>2, <2>6, <2>8 DEF Each
  <2>10. d - 1 \in 0 .. MaxDepth /\ \A i \in 1 .. n : list[i] \in JsonUpTo[d - 1]
    BY <1>6, <2>1, <2>8, ChainAssumption
  <2>11. \A i \in 1 .. n : Alike(k[i], list[i])
    BY <2>9, <2>10 DEF Alike
  <2>12. k \in Seq(Range(k)) /\ Len(k) = n
    BY <2>2, <2>6, <2>8 DEF Each, Range
  <2>13. list \in Seq(Range(list))
    BY <2>8
  <2>14. ListAlike(k, list)
    BY <2>8, <2>11, <2>12, <2>13 DEF ListAlike
  <2> QED BY <1>6, <2>1, <2>7, <2>14
<1>7. CASE j[1] = "object" /\ d > 0 /\ j[2] \in Seq(STRING \X JsonUpTo[d - 1])
  <2>1. PICK list : list = j[2]
    OBVIOUS
  <2>2. PICK l : l = EachField(ToWire[d - 1], list)
    OBVIOUS
  <2>3. w = <<"struct", l>>
    BY <1>1, <1>2, <1>7, <2>1, <2>2, Written
  <2>4. w[1] = "struct" /\ w[2] = l
    BY <2>3
  <2>5. c = <<"object", EachField(FromWire[d - 1], l)>>
    BY <1>3, <2>4, ReadBack
  <2>6. PICK k : k = EachField(FromWire[d - 1], l)
    OBVIOUS
  <2>7. c[1] = "object" /\ c[2] = k
    BY <2>5, <2>6
  <2>8. PICK n \in Nat : n = Len(list) /\ DOMAIN list = 1 .. n /\ list \in [1 .. n -> Range(list)]
    BY <1>7, <2>1 DEF Range
  <2>9. DOMAIN l = 1 .. n /\ \A i \in 1 .. n : l[i] = <<list[i][1], ToWire[d - 1][list[i][2]]>>
    BY <2>2, <2>8 DEF EachField
  <2>a. \A i \in 1 .. n : l[i][1] = list[i][1] /\ l[i][2] = ToWire[d - 1][list[i][2]]
    BY <2>9
  <2>b. DOMAIN k = 1 .. n /\ \A i \in 1 .. n : k[i] = <<l[i][1], FromWire[d - 1][l[i][2]]>>
    BY <2>6, <2>9 DEF EachField
  <2>c. \A i \in 1 .. n : k[i][1] = list[i][1] /\ k[i][2] = FromWire[d - 1][ToWire[d - 1][list[i][2]]]
    BY <2>a, <2>b
  <2>10. d - 1 \in 0 .. MaxDepth /\ \A i \in 1 .. n : list[i][2] \in JsonUpTo[d - 1]
    <3>1. \A i \in 1 .. n : list[i] \in STRING \X JsonUpTo[d - 1]
      BY <1>7, <2>1, <2>8
    <3>2. \A i \in 1 .. n : list[i][2] \in JsonUpTo[d - 1]
      BY <3>1
    <3>3. d - 1 \in 0 .. MaxDepth
      BY <1>7, ChainAssumption
    <3> QED BY <3>2, <3>3
  <2>11. \A i \in 1 .. n : EntryAlike(k[i], list[i])
    BY <2>c, <2>10 DEF Alike, EntryAlike
  <2>12. k \in Seq(Range(k)) /\ Len(k) = n
    <3>1. k = [i \in 1 .. n |-> k[i]]
      BY <2>6, <2>9 DEF EachField
    <3>2. \A i \in 1 .. n : k[i] \in Range(k)
      BY <2>b DEF Range
    <3> QED BY <3>1, <3>2
  <2>13. list \in Seq(Range(list))
    BY <2>8
  <2>14. AllAlike(k, list)
    BY <2>8, <2>11, <2>12, <2>13 DEF AllAlike
  <2> QED BY <1>7, <2>1, <2>7, <2>14
<1> QED BY <1>1, <1>4, <1>5, <1>6, <1>7, JsonKinds

\* A set of places has a last one.
LEMMA MaxIs ==
    ASSUME NEW N \in Nat, NEW S \in SUBSET (1 .. N), S # {}
    PROVE  Max(S) \in S
<1> DEFINE T == {N - x : x \in S}
<1>1. T # {} /\ T \subseteq Nat
  <2>1. \A x \in S : N - x \in Nat
    OBVIOUS
  <2> QED BY <2>1
<1>2. PICK m \in T : \A y \in T : ~(y < m)
  <2> HIDE DEF T
  <2> QED BY <1>1, Least
<1>3. PICK x \in S : m = N - x
  OBVIOUS
<1>4. \A y \in S : x >= y
  <2> TAKE y \in S
  <2>1. ~(N - y < N - x)
    BY <1>2, <1>3
  <2>2. x \in Int /\ y \in Int
    OBVIOUS
  <2> QED BY <2>1, <2>2
<1> QED BY <1>4 DEF Max

Folded(s) == \A z \in SUBSET DOMAIN s : z # {} => Max(z) \in z

LEMMA CanFold == ASSUME NEW s, s \in Seq(Range(s)) PROVE Folded(s)
<1>1. Len(s) \in Nat /\ DOMAIN s = 1 .. Len(s)
  OBVIOUS
<1> QED BY <1>1, MaxIs DEF Folded

\* The items of lists that are alike are the same: a float of a float is the float.
LEMMA ItemsAlike ==
    ASSUME NEW c, NEW j, ListAlike(c, j)
    PROVE  Items(c) = Items(j)
<1> DEFINE Op(items, json) == IF InList(json) THEN Append(items, StateItem(json)) ELSE items
           S(f) == f = [z \in SUBSET (DOMAIN c) |-> IF z = {} THEN <<>> ELSE LET x == Max(z) IN Op(f[z \ {x}], c[x])]
           T(f) == f = [z \in SUBSET (DOMAIN j) |-> IF z = {} THEN <<>> ELSE LET x == Max(z) IN Op(f[z \ {x}], j[x])]
<1>1. Items(c) = (CHOOSE f : S(f))[DOMAIN c]
  BY DEF Items, FoldLeft, MapThenFoldSet
<1>2. Items(j) = (CHOOSE f : T(f))[DOMAIN j]
  BY DEF Items, FoldLeft, MapThenFoldSet
<1>3. PICK n \in Nat : n = Len(c) /\ DOMAIN c = 1 .. n /\ DOMAIN j = 1 .. n
  BY DEF ListAlike
<1>4. ASSUME NEW i \in 1 .. n, NEW items PROVE Op(items, c[i]) = Op(items, j[i])
  <2>1. Alike(c[i], j[i])
    BY <1>3 DEF ListAlike
  <2>2. CASE j[i][1] = "number"
    <3>1. c[i][1] = "number" /\ j[i][2] \in Nat /\ c[i][2] = Float(j[i][2])
      BY <2>1, <2>2, AlikeIs
    <3>2. Float(c[i][2]) = Float(j[i][2])
      BY <3>1, FloatOnce
    <3> QED BY <2>2, <3>1, <3>2 DEF InList, StateItem
  <2>3. CASE j[i][1] \in {"string", "bool", "null"}
    <3>1. c[i] = j[i]
      BY <2>1, <2>3, AlikeIs
    <3> QED BY <3>1
  <2>4. CASE j[i][1] \in {"array", "object"}
    <3>1. c[i][1] = j[i][1]
      BY <2>1, AlikeIs
    <3> QED BY <2>4, <3>1 DEF InList
  <2> QED BY <2>1, <2>2, <2>3, <2>4, AlikeIs
<1>5. \A f : S(f) <=> T(f)
  <2> TAKE f
  <2>1. Folded(c)
    BY CanFold DEF ListAlike
  <2>2. \A z \in SUBSET (DOMAIN c) :
           (IF z = {} THEN <<>> ELSE LET x == Max(z) IN Op(f[z \ {x}], c[x]))
             = (IF z = {} THEN <<>> ELSE LET x == Max(z) IN Op(f[z \ {x}], j[x]))
    <3> HIDE DEF Op
    <3> QED BY <1>3, <1>4, <2>1 DEF Folded
  <2> HIDE DEF Op
  <2> QED BY <1>3, <2>2
<1> HIDE DEF S, T
<1>6. (CHOOSE f : S(f)) = (CHOOSE f : T(f))
  BY <1>5
<1> QED BY <1>1, <1>2, <1>3, <1>6

\* So a state takes the same of entries that are alike.
LEMMA LeafAlike ==
    ASSUME NEW s, NEW e, NEW f, EntryAlike(e, f)
    PROVE  InjectLeaf(s, e) = InjectLeaf(s, f)
<1>1. e[1] = f[1] /\ Alike(e[2], f[2])
  BY DEF EntryAlike
<1>2. PICK c, j : c = e[2] /\ j = f[2] /\ Alike(c, j)
  BY <1>1
<1>3. c[1] = j[1]
  BY <1>2, AlikeIs
<1>4. CASE j[1] = "number"
  <2>1. j[2] \in Nat /\ c[2] = Float(j[2])
    BY <1>2, <1>4, AlikeIs
  <2>2. StateItem(c) = StateItem(j)
    BY <1>3, <1>4, <2>1, FloatOnce DEF StateItem
  <2> QED BY <1>1, <1>2, <1>3, <1>4, <2>2 DEF InjectLeaf
<1>5. CASE j[1] \in {"string", "bool", "null"}
  <2>1. c = j
    BY <1>2, <1>5, AlikeIs
  <2> QED BY <1>1, <1>2, <2>1 DEF InjectLeaf
<1>6. CASE j[1] = "array"
  <2>1. Items(c[2]) = Items(j[2])
    BY <1>2, <1>6, AlikeIs, ItemsAlike
  <2> QED BY <1>1, <1>2, <1>3, <1>6, <2>1 DEF InjectLeaf
<1>7. CASE j[1] = "object"
  BY <1>1, <1>2, <1>3, <1>7 DEF InjectLeaf
<1> QED BY <1>2, <1>4, <1>5, <1>6, <1>7, AlikeIs

\* Entries that are alike open into entries that are alike.
LEMMA OpenedAlike ==
    ASSUME NEW e, NEW f, EntryAlike(e, f)
    PROVE  AllAlike(Opened(e), Opened(f))
<1>1. e[1] = f[1] /\ Alike(e[2], f[2]) /\ e[2][1] = f[2][1]
  BY AlikeIs DEF EntryAlike
<1>2. CASE f[2][1] = "object"
  <2>1. PICK s, t : s = e[2][2] /\ t = f[2][2] /\ AllAlike(s, t)
    BY <1>1, <1>2, AlikeIs
  <2>2. PICK n \in Nat : n = Len(t) /\ n = Len(s) /\ DOMAIN t = 1 .. n /\ DOMAIN s = 1 .. n
    BY <2>1 DEF AllAlike
  <2>3. PICK u, v : u = Opened(e) /\ v = Opened(f)
    OBVIOUS
  <2>4. /\ u = [i \in 1 .. n |-> <<Under(e[1], s[i][1]), s[i][2]>>]
        /\ v = [i \in 1 .. n |-> <<Under(f[1], t[i][1]), t[i][2]>>]
    BY <1>1, <1>2, <2>1, <2>2, <2>3 DEF Opened
  <2>5. u \in Seq(Range(u)) /\ v \in Seq(Range(v)) /\ Len(u) = n /\ Len(v) = n
    <3>1. (\A i \in 1 .. n : u[i] \in Range(u)) /\ \A i \in 1 .. n : v[i] \in Range(v)
      BY <2>4 DEF Range
    <3>2. u = [i \in 1 .. n |-> u[i]] /\ v = [i \in 1 .. n |-> v[i]]
      BY <2>4
    <3> QED BY <2>2, <3>1, <3>2
  <2>6. \A i \in 1 .. n : EntryAlike(u[i], v[i])
    <3> TAKE i \in 1 .. n
    <3>1. s[i][1] = t[i][1] /\ Alike(s[i][2], t[i][2])
      BY <2>1, <2>2 DEF AllAlike, EntryAlike
    <3>2. u[i][1] = Under(e[1], s[i][1]) /\ u[i][2] = s[i][2] /\ v[i][1] = Under(f[1], t[i][1]) /\ v[i][2] = t[i][2]
      BY <2>4
    <3> QED BY <1>1, <3>1, <3>2 DEF EntryAlike
  <2> QED BY <2>3, <2>5, <2>6 DEF AllAlike
<1>3. CASE f[2][1] # "object"
  <2>1. PICK u, v : u = <<e>> /\ v = <<f>>
    OBVIOUS
  <2>2. u \in Seq(Range(u)) /\ v \in Seq(Range(v)) /\ Len(u) = 1 /\ Len(v) = 1 /\ u[1] = e /\ v[1] = f
    BY <2>1 DEF Range
  <2>3. Opened(e) = u /\ Opened(f) = v
    BY <1>1, <1>3, <2>1 DEF Opened
  <2> QED BY <2>2, <2>3 DEF AllAlike
<1> QED BY <1>2, <1>3

LEMMA InRange == ASSUME NEW A, NEW s \in Seq(A) PROVE s \in Seq(Range(s))
BY DEF Range

LEMMA ConcatIs ==
    ASSUME NEW A, NEW s \in Seq(A), NEW u \in Seq(A), NEW n \in Nat, NEW m \in Nat, n = Len(s), m = Len(u)
    PROVE  /\ s \o u \in Seq(A) /\ Len(s \o u) = n + m
           /\ \A i \in 1 .. n + m : (s \o u)[i] = IF i <= n THEN s[i] ELSE u[i - n]
<1>1. s \o u \in Seq(A) /\ Len(s \o u) = n + m
  OBVIOUS
<1>2. ASSUME NEW i \in 1 .. n + m PROVE (s \o u)[i] = IF i <= n THEN s[i] ELSE u[i - n]
  <2>1. i \in 1 .. Len(s) + Len(u)
    OBVIOUS
  <2> QED BY <2>1
<1> QED BY <1>1, <1>2

LEMMA ConcatAlike ==
    ASSUME NEW s, NEW t, NEW u, NEW v, AllAlike(s, t), AllAlike(u, v)
    PROVE  AllAlike(s \o u, t \o v)
<1>1. PICK n \in Nat, m \in Nat : n = Len(s) /\ n = Len(t) /\ m = Len(u) /\ m = Len(v)
  BY DEF AllAlike
<1>2. PICK A : A = Range(s) \cup Range(t) \cup Range(u) \cup Range(v)
  OBVIOUS
<1>3. s \in Seq(A) /\ t \in Seq(A) /\ u \in Seq(A) /\ v \in Seq(A)
  BY <1>2 DEF AllAlike
<1>4. PICK x, y : x = s \o u /\ y = t \o v
  OBVIOUS
<1>5. /\ x \in Seq(A) /\ y \in Seq(A) /\ Len(x) = n + m /\ Len(y) = n + m
      /\ \A i \in 1 .. n + m : x[i] = (IF i <= n THEN s[i] ELSE u[i - n]) /\ y[i] = (IF i <= n THEN t[i] ELSE v[i - n])
  <2>1. x \in Seq(A) /\ Len(x) = n + m /\ \A i \in 1 .. n + m : x[i] = (IF i <= n THEN s[i] ELSE u[i - n])
    <3>1. n = Len(s) /\ m = Len(u)
      BY <1>1
    <3> QED BY ONLY <1>3, <1>4, <3>1, n \in Nat, m \in Nat, ConcatIs
  <2>2. y \in Seq(A) /\ Len(y) = n + m /\ \A i \in 1 .. n + m : y[i] = (IF i <= n THEN t[i] ELSE v[i - n])
    <3>1. n = Len(t) /\ m = Len(v)
      BY <1>1
    <3> QED BY ONLY <1>3, <1>4, <3>1, n \in Nat, m \in Nat, ConcatIs
  <2> QED BY <2>1, <2>2
<1>6. x \in Seq(Range(x)) /\ y \in Seq(Range(y))
  <2>1. x \in Seq(A) /\ y \in Seq(A)
    BY <1>5
  <2> QED BY ONLY <2>1, InRange
<1>7. \A i \in 1 .. n + m : EntryAlike(x[i], y[i])
  <2> TAKE i \in 1 .. n + m
  <2>1. CASE i <= n
    <3>1. i \in 1 .. n
      BY <2>1
    <3> QED BY <1>1, <1>5, <2>1, <3>1 DEF AllAlike
  <2>2. CASE ~(i <= n)
    <3>1. i - n \in 1 .. m
      BY <2>2
    <3> QED BY <1>1, <1>5, <2>2, <3>1 DEF AllAlike
  <2> QED BY <2>1, <2>2
<1> QED BY <1>4, <1>5, <1>6, <1>7 DEF AllAlike

\* A flattened sequence is made of its parts from the first on.
FlatStep(seqs, prev, m) ==
    IF m = 1 THEN seqs[m] ELSE prev \o seqs[m]

FlatFn(seqs, f, n) == f = [m \in 1 .. n |-> FlatStep(seqs, f[m - 1], m)]

LEMMA FlatExists ==
    ASSUME NEW seqs, NEW N \in Nat, \A p, q : FlatStep(seqs, p, 1) = FlatStep(seqs, q, 1)
    PROVE  \E f : FlatFn(seqs, f, N)
<1> DEFINE T == {n \in Nat : ~\E f : FlatFn(seqs, f, n)}
<1>1. SUFFICES ASSUME T # {} PROVE FALSE
  OBVIOUS
<1>2. PICK n \in T : \A y \in T : ~(y < n)
  <2>1. T \subseteq Nat
    OBVIOUS
  <2> HIDE DEF T
  <2> QED BY <1>1, <2>1, Least
<1>3. CASE n = 0
  <2>1. PICK f : f = [m \in 1 .. 0 |-> FlatStep(seqs, 0, m)]
    OBVIOUS
  <2>2. f = [m \in 1 .. 0 |-> FlatStep(seqs, f[m - 1], m)]
    <3>1. \A m \in 1 .. 0 : m = 1
      OBVIOUS
    <3>2. \A m \in 1 .. 0 : FlatStep(seqs, f[m - 1], m) = FlatStep(seqs, 0, m)
      BY <3>1
    <3> QED BY <2>1, <3>2
  <2> QED BY <1>3, <2>2 DEF FlatFn
<1>4. CASE n # 0
  <2>1. n - 1 \in Nat /\ n - 1 \notin T /\ n \in Nat
    BY <1>2, <1>4
  <2>2. PICK f : FlatFn(seqs, f, n - 1)
    BY <2>1
  <2>3. PICK g : g = [m \in 1 .. n |-> IF m = n THEN FlatStep(seqs, f[n - 1], n) ELSE f[m]]
    OBVIOUS
  <2>4. \A m \in 1 .. n - 1 : g[m] = f[m] /\ f[m] = FlatStep(seqs, f[m - 1], m)
    BY <2>1, <2>2, <2>3 DEF FlatFn
  <2>5. ASSUME NEW m \in 1 .. n
        PROVE  g[m] = FlatStep(seqs, g[m - 1], m)
    <3>1. CASE m = 1
      <4>1. FlatStep(seqs, g[m - 1], m) = FlatStep(seqs, f[m - 1], m)
        BY <3>1
      <4>2. m \in 1 .. n - 1 \/ m = n
        BY <2>1
      <4> QED BY <2>3, <2>4, <4>1, <4>2
    <3>2. CASE m > 1
      <4>1. m - 1 \in 1 .. n - 1 /\ (m \in 1 .. n - 1 \/ m = n)
        BY <2>1, <3>2
      <4>2. g[m - 1] = f[m - 1]
        BY <2>4, <4>1
      <4> QED BY <2>3, <2>4, <4>1, <4>2
    <3> QED BY <2>1, <3>1, <3>2
  <2>6. FlatFn(seqs, g, n)
    BY <2>3, <2>5 DEF FlatFn
  <2> QED BY <2>1, <2>6, <1>2
<1> QED BY <1>3, <1>4

LEMMA FlattenedIs ==
    ASSUME NEW seqs, NEW N \in Nat, N = Len(seqs), N > 0
    PROVE  \E f : FlatFn(seqs, f, N) /\ FlattenSeq(seqs) = f[N]
<1>1. \A p, q : FlatStep(seqs, p, 1) = FlatStep(seqs, q, 1)
  BY DEF FlatStep
<1>2. \E f : FlatFn(seqs, f, N)
  BY <1>1, FlatExists
<1>3. PICK g : g = CHOOSE f : FlatFn(seqs, f, N)
  OBVIOUS
<1>4. FlatFn(seqs, g, N)
  BY <1>2, <1>3
<1>5. FlattenSeq(seqs) = g[N]
  BY <1>3 DEF FlattenSeq, FlatFn, FlatStep
<1> QED BY <1>4, <1>5

\* Sequences of sequences that are alike flatten into sequences that are alike.
LEMMA FlattenAlike ==
    ASSUME NEW N \in Nat, N > 0, NEW s, NEW t, Len(s) = N, Len(t) = N,
           \A i \in 1 .. N : AllAlike(s[i], t[i])
    PROVE  AllAlike(FlattenSeq(s), FlattenSeq(t))
<1>1. PICK f : FlatFn(s, f, N) /\ FlattenSeq(s) = f[N]
  BY FlattenedIs
<1>2. PICK g : FlatFn(t, g, N) /\ FlattenSeq(t) = g[N]
  BY FlattenedIs
<1> DEFINE T == {n \in 1 .. N : ~AllAlike(f[n], g[n])}
<1>3. SUFFICES ASSUME T # {} PROVE FALSE
  BY <1>1, <1>2
<1>4. PICK n \in T : \A y \in T : ~(y < n)
  <2>1. T \subseteq Nat
    OBVIOUS
  <2> HIDE DEF T
  <2> QED BY <1>3, <2>1, Least
<1>5. f[n] = FlatStep(s, f[n - 1], n) /\ g[n] = FlatStep(t, g[n - 1], n)
  BY <1>1, <1>2 DEF FlatFn
<1>6. CASE n = 1
  <2>1. f[n] = s[n] /\ g[n] = t[n]
    BY <1>5, <1>6 DEF FlatStep
  <2> QED BY <1>6, <2>1
<1>7. CASE n > 1
  <2>1. n - 1 \in 1 .. N /\ AllAlike(f[n - 1], g[n - 1])
    BY <1>4, <1>7
  <2>2. f[n] = f[n - 1] \o s[n] /\ g[n] = g[n - 1] \o t[n]
    BY <1>5, <1>7 DEF FlatStep
  <2>3. AllAlike(f[n - 1] \o s[n], g[n - 1] \o t[n])
    BY <2>1, ConcatAlike
  <2> QED BY <2>2, <2>3
<1> QED BY <1>6, <1>7

\* The leaves of an entry are found level by level.
LeafStep(entry, prev, m) ==
    IF m = 0 THEN <<entry>> ELSE FlattenSeq([i \in DOMAIN prev |-> Opened(prev[i])])

LeafFn(entry, f, n) == f = [m \in 0 .. n |-> LeafStep(entry, f[m - 1], m)]

LEMMA LeafExists ==
    ASSUME NEW entry, NEW N \in Nat, \A p, q : LeafStep(entry, p, 0) = LeafStep(entry, q, 0)
    PROVE  \E f : LeafFn(entry, f, N)
<1> DEFINE T == {n \in Nat : ~\E f : LeafFn(entry, f, n)}
<1>1. SUFFICES ASSUME T # {} PROVE FALSE
  OBVIOUS
<1>2. PICK n \in T : \A y \in T : ~(y < n)
  <2>1. T \subseteq Nat
    OBVIOUS
  <2> HIDE DEF T
  <2> QED BY <1>1, <2>1, Least
<1>3. CASE n = 0
  <2>1. PICK f : f = [m \in 0 .. 0 |-> LeafStep(entry, 0, m)]
    OBVIOUS
  <2>2. f = [m \in 0 .. 0 |-> LeafStep(entry, f[m - 1], m)]
    <3>1. \A m \in 0 .. 0 : m = 0
      OBVIOUS
    <3>2. \A m \in 0 .. 0 : LeafStep(entry, f[m - 1], m) = LeafStep(entry, 0, m)
      BY <3>1
    <3> QED BY <2>1, <3>2
  <2> QED BY <1>3, <2>2 DEF LeafFn
<1>4. CASE n # 0
  <2>1. n - 1 \in Nat /\ n - 1 \notin T /\ n \in Nat
    BY <1>2, <1>4
  <2>2. PICK f : LeafFn(entry, f, n - 1)
    BY <2>1
  <2>3. PICK g : g = [m \in 0 .. n |-> IF m = n THEN LeafStep(entry, f[n - 1], n) ELSE f[m]]
    OBVIOUS
  <2>4. \A m \in 0 .. n - 1 : g[m] = f[m] /\ f[m] = LeafStep(entry, f[m - 1], m)
    BY <2>1, <2>2, <2>3 DEF LeafFn
  <2>5. ASSUME NEW m \in 0 .. n
        PROVE  g[m] = LeafStep(entry, g[m - 1], m)
    <3>1. CASE m = 0
      <4>1. LeafStep(entry, g[m - 1], m) = LeafStep(entry, f[m - 1], m)
        BY <3>1
      <4>2. m \in 0 .. n - 1 \/ m = n
        BY <2>1
      <4> QED BY <2>3, <2>4, <4>1, <4>2
    <3>2. CASE m > 0
      <4>1. m - 1 \in 0 .. n - 1 /\ (m \in 0 .. n - 1 \/ m = n)
        BY <2>1, <3>2
      <4>2. g[m - 1] = f[m - 1]
        BY <2>4, <4>1
      <4> QED BY <2>3, <2>4, <4>1, <4>2
    <3> QED BY <2>1, <3>1, <3>2
  <2>6. LeafFn(entry, g, n)
    BY <2>3, <2>5 DEF LeafFn
  <2> QED BY <2>1, <2>6, <1>2
<1> QED BY <1>3, <1>4

LEMMA LeavesAre == \A entry : \E f : LeafFn(entry, f, MaxDepth) /\ Leaves(entry) = f[MaxDepth]
<1> TAKE entry
<1>1. \A p, q : LeafStep(entry, p, 0) = LeafStep(entry, q, 0)
  BY DEF LeafStep
<1>2. \E f : LeafFn(entry, f, MaxDepth)
  BY <1>1, LeafExists, ChainAssumption
<1>3. PICK g : g = CHOOSE f : LeafFn(entry, f, MaxDepth)
  OBVIOUS
<1>4. LeafFn(entry, g, MaxDepth)
  BY <1>2, <1>3
<1>5. Leaves(entry) = g[MaxDepth]
  BY <1>3 DEF Leaves, LeafFn, LeafStep
<1> QED BY <1>4, <1>5

\* One level of two sequences that are alike.
LEMMA LevelAlike ==
    ASSUME NEW s, NEW t, AllAlike(s, t)
    PROVE  AllAlike(FlattenSeq([i \in DOMAIN s |-> Opened(s[i])]), FlattenSeq([i \in DOMAIN t |-> Opened(t[i])]))
<1>1. PICK n \in Nat : n = Len(s) /\ n = Len(t) /\ DOMAIN s = 1 .. n /\ DOMAIN t = 1 .. n
  BY DEF AllAlike
<1>2. PICK u, v : u = [i \in DOMAIN s |-> Opened(s[i])] /\ v = [i \in DOMAIN t |-> Opened(t[i])]
  OBVIOUS
<1>3. Len(u) = n /\ Len(v) = n
  BY <1>1, <1>2
<1>4. \A i \in 1 .. n : AllAlike(u[i], v[i])
  BY <1>1, <1>2, OpenedAlike DEF AllAlike
<1>5. CASE n = 0
  <2>1. FlattenSeq(u) = u /\ FlattenSeq(v) = v
    BY <1>3, <1>5 DEF FlattenSeq
  <2>2. u \in Seq(Range(u)) /\ v \in Seq(Range(v))
    BY <1>1, <1>2, <1>5 DEF Range
  <2>3. AllAlike(u, v)
    BY <1>3, <1>5, <2>2 DEF AllAlike
  <2> QED BY <1>2, <2>1, <2>3
<1>6. CASE n > 0
  BY <1>2, <1>3, <1>4, <1>6, FlattenAlike
<1> QED BY <1>5, <1>6

\* So entries that are alike have leaves that are alike.
LEMMA LeavesAlike ==
    ASSUME NEW d, NEW e, EntryAlike(d, e)
    PROVE  AllAlike(Leaves(d), Leaves(e))
<1>1. PICK f : LeafFn(d, f, MaxDepth) /\ Leaves(d) = f[MaxDepth]
  BY LeavesAre
<1>2. PICK g : LeafFn(e, g, MaxDepth) /\ Leaves(e) = g[MaxDepth]
  BY LeavesAre
<1>3. PICK N \in Nat : N = MaxDepth
  BY ChainAssumption
<1> DEFINE T == {n \in 0 .. N : ~AllAlike(f[n], g[n])}
<1>4. SUFFICES ASSUME T # {} PROVE FALSE
  BY <1>1, <1>2, <1>3
<1>5. PICK n \in T : \A y \in T : ~(y < n)
  <2>1. T \subseteq Nat
    OBVIOUS
  <2> HIDE DEF T
  <2> QED BY <1>4, <2>1, Least
<1>6. f[n] = LeafStep(d, f[n - 1], n) /\ g[n] = LeafStep(e, g[n - 1], n)
  BY <1>1, <1>2, <1>3 DEF LeafFn
<1>7. CASE n = 0
  <2>1. PICK s, t : s = <<d>> /\ t = <<e>>
    OBVIOUS
  <2>2. s \in Seq(Range(s)) /\ t \in Seq(Range(t)) /\ Len(s) = 1 /\ Len(t) = 1 /\ s[1] = d /\ t[1] = e
    BY <2>1 DEF Range
  <2>3. AllAlike(s, t)
    BY <2>2 DEF AllAlike
  <2> QED BY <1>6, <1>7, <2>1, <2>3 DEF LeafStep
<1>8. CASE n > 0
  <2>1. n - 1 \in 0 .. N /\ AllAlike(f[n - 1], g[n - 1])
    BY <1>5, <1>8
  <2>2. PICK s, t : s = f[n - 1] /\ t = g[n - 1] /\ AllAlike(s, t)
    BY <2>1
  <2>3. /\ f[n] = FlattenSeq([i \in DOMAIN s |-> Opened(s[i])])
        /\ g[n] = FlattenSeq([i \in DOMAIN t |-> Opened(t[i])])
    BY <1>6, <1>8, <2>2 DEF LeafStep
  <2> QED BY <2>2, <2>3, LevelAlike
<1> QED BY <1>7, <1>8

\* A whole entry is taken alike,
LEMMA InjectAlike ==
    ASSUME NEW s, NEW d, NEW e, EntryAlike(d, e)
    PROVE  Inject(s, d) = Inject(s, e)
<1> DEFINE S(f) == f = [z \in SUBSET (DOMAIN Leaves(d)) |-> IF z = {} THEN s ELSE LET x == Max(z) IN InjectLeaf(f[z \ {x}], Leaves(d)[x])]
           T(f) == f = [z \in SUBSET (DOMAIN Leaves(e)) |-> IF z = {} THEN s ELSE LET x == Max(z) IN InjectLeaf(f[z \ {x}], Leaves(e)[x])]
<1>1. Inject(s, d) = (CHOOSE f : S(f))[DOMAIN Leaves(d)]
  BY DEF Inject, FoldLeft, MapThenFoldSet
<1>2. Inject(s, e) = (CHOOSE f : T(f))[DOMAIN Leaves(e)]
  BY DEF Inject, FoldLeft, MapThenFoldSet
<1>3. PICK n \in Nat : n = Len(Leaves(d)) /\ DOMAIN Leaves(d) = 1 .. n /\ DOMAIN Leaves(e) = 1 .. n
  BY LeavesAlike DEF AllAlike
<1>4. \A i \in 1 .. n : \A x : InjectLeaf(x, Leaves(d)[i]) = InjectLeaf(x, Leaves(e)[i])
  BY <1>3, LeafAlike, LeavesAlike DEF AllAlike
<1>5. \A f : S(f) <=> T(f)
  <2> TAKE f
  <2>1. Folded(Leaves(d))
    BY CanFold, LeavesAlike DEF AllAlike
  <2>2. \A z \in SUBSET (DOMAIN Leaves(d)) :
           (IF z = {} THEN s ELSE LET x == Max(z) IN InjectLeaf(f[z \ {x}], Leaves(d)[x]))
             = (IF z = {} THEN s ELSE LET x == Max(z) IN InjectLeaf(f[z \ {x}], Leaves(e)[x]))
    BY <1>3, <1>4, <2>1 DEF Folded
  <2> QED BY <1>3, <2>2
<1> HIDE DEF S, T
<1>6. (CHOOSE f : S(f)) = (CHOOSE f : T(f))
  BY <1>5
<1> QED BY <1>1, <1>2, <1>3, <1>6

\* and so are all of them, in their order.
LEMMA StateAlike ==
    ASSUME NEW c, NEW j, AllAlike(c, j)
    PROVE  FoldLeft(Inject, EmptyState, c) = FoldLeft(Inject, EmptyState, j)
<1> DEFINE S(f) == f = [z \in SUBSET (DOMAIN c) |-> IF z = {} THEN EmptyState ELSE LET x == Max(z) IN Inject(f[z \ {x}], c[x])]
           T(f) == f = [z \in SUBSET (DOMAIN j) |-> IF z = {} THEN EmptyState ELSE LET x == Max(z) IN Inject(f[z \ {x}], j[x])]
<1>1. FoldLeft(Inject, EmptyState, c) = (CHOOSE f : S(f))[DOMAIN c]
  BY DEF FoldLeft, MapThenFoldSet
<1>2. FoldLeft(Inject, EmptyState, j) = (CHOOSE f : T(f))[DOMAIN j]
  BY DEF FoldLeft, MapThenFoldSet
<1>3. PICK n \in Nat : n = Len(c) /\ DOMAIN c = 1 .. n /\ DOMAIN j = 1 .. n
  BY DEF AllAlike
<1>4. \A i \in 1 .. n : \A x : Inject(x, c[i]) = Inject(x, j[i])
  BY <1>3, InjectAlike DEF AllAlike
<1>5. \A f : S(f) <=> T(f)
  <2> TAKE f
  <2>1. Folded(c)
    BY CanFold DEF AllAlike
  <2>2. \A z \in SUBSET (DOMAIN c) :
           (IF z = {} THEN EmptyState ELSE LET x == Max(z) IN Inject(f[z \ {x}], c[x]))
             = (IF z = {} THEN EmptyState ELSE LET x == Max(z) IN Inject(f[z \ {x}], j[x]))
    BY <1>3, <1>4, <2>1 DEF Folded
  <2> QED BY <1>3, <2>2
<1> HIDE DEF S, T
<1>6. (CHOOSE f : S(f)) = (CHOOSE f : T(f))
  BY <1>5
<1> QED BY <1>1, <1>2, <1>3, <1>6

\* An entry that was sent and read.
Back(e) == <<e[1], FromWire[MaxDepth][ToWire[MaxDepth][e[2]]]>>

LEMMA BackIs ==
    ASSUME NEW e, e[2] \in JsonUpTo[MaxDepth]
    PROVE  EntryAlike(Back(e), e) /\ Back(e)[1] = e[1]
<1>1. PICK b : b = Back(e)
  OBVIOUS
<1>2. b[1] = e[1] /\ b[2] = FromWire[MaxDepth][ToWire[MaxDepth][e[2]]]
  BY <1>1 DEF Back
<1>3. MaxDepth \in 0 .. MaxDepth
  BY ChainAssumption
<1> QED BY <1>1, <1>2, <1>3 DEF EntryAlike, Alike

\* What arrives of a request whose caller keeps to JSON.
LEMMA ConvertedIs ==
    ASSUME NEW r
    PROVE  LET q == FromProto(Converted(r, ToWire[MaxDepth])) IN
           /\ q.context.state = {Back(e) : e \in r.context.state} /\ q.context.facts = r.context.facts
           /\ q.task = r.task /\ q.policy = r.policy /\ q.config = r.config /\ q.remote = r.remote
<1>1. PICK S, W, F : S = r.context.state /\ W = ToWire[MaxDepth] /\ F = FromWire[MaxDepth]
  OBVIOUS
<1>2. PICK p : p = Converted(r, W)
  OBVIOUS
<1>3. PICK X : X = {<<e[1], W[e[2]]>> : e \in S}
  OBVIOUS
<1>4. /\ p.context.state = X /\ p.context.facts = r.context.facts
      /\ p.task = r.task /\ p.policy = r.policy /\ p.config = r.config /\ p.remote = r.remote
  BY <1>1, <1>2, <1>3 DEF Converted
<1>5. PICK q : q = Converted(p, F)
  OBVIOUS
<1>6. /\ q.context.state = {<<e[1], F[e[2]]>> : e \in X} /\ q.context.facts = p.context.facts
      /\ q.task = p.task /\ q.policy = p.policy /\ q.config = p.config /\ q.remote = p.remote
  BY <1>4, <1>5 DEF Converted
<1>7. {<<e[1], F[e[2]]>> : e \in X} = {Back(e) : e \in S}
  <2>1. ASSUME NEW e \in S PROVE \A w : w = <<e[1], W[e[2]]>> => <<w[1], F[w[2]]>> = Back(e)
    BY <1>1 DEF Back
  <2>2. ASSUME NEW e \in X PROVE <<e[1], F[e[2]]>> \in {Back(d) : d \in S}
    <3>1. PICK d \in S : e = <<d[1], W[d[2]]>>
      BY <1>3
    <3>2. <<e[1], F[e[2]]>> = Back(d)
      BY <2>1, <3>1
    <3> QED BY <3>2
  <2>3. ASSUME NEW d \in S PROVE Back(d) \in {<<e[1], F[e[2]]>> : e \in X}
    <3>1. PICK e : e = <<d[1], W[d[2]]>>
      OBVIOUS
    <3>2. e \in X
      BY <1>3, <3>1
    <3>3. <<e[1], F[e[2]]>> = Back(d)
      BY <2>1, <3>1
    <3> QED BY <3>2, <3>3
  <2> QED BY <2>2, <2>3
<1>8. q = FromProto(Converted(r, ToWire[MaxDepth]))
  BY <1>1, <1>2, <1>5 DEF FromProto
<1> QED BY <1>1, <1>4, <1>6, <1>7, <1>8

\* The kernel starts in a state that it could start in at home.
LEMMA ConvertedStarts ==
    ASSUME NEW r, EntriesOf(r.context.state, JsonUpTo[MaxDepth]), r.config = {}
    PROVE  InitialStates(FromProto(Converted(r, ToWire[MaxDepth]))) \subseteq InitialStates(r)
<1>1. PICK q : q = FromProto(Converted(r, ToWire[MaxDepth]))
  OBVIOUS
<1>2. PICK S, T : S = r.context.state /\ T = {Back(e) : e \in S}
  OBVIOUS
<1>3. q.context.state = T /\ q.context.facts = r.context.facts /\ q.config = {}
  BY <1>1, <1>2, ConvertedIs
<1>4. /\ IsFiniteSet(S) /\ \A e \in S : e[2] \in JsonUpTo[MaxDepth]
      /\ \A e, f \in S : e[1] = f[1] => e = f
  BY <1>2 DEF EntriesOf
<1>5. \A e, f \in S : Back(e) = Back(f) => e = f
  <2> TAKE e, f \in S
  <2> HAVE Back(e) = Back(f)
  <2>1. Back(e)[1] = e[1] /\ Back(f)[1] = f[1]
    BY <1>4, BackIs
  <2>2. Back(e)[1] = Back(f)[1]
    OBVIOUS
  <2> QED BY <1>4, <2>1, <2>2
<1>6. Cardinality(T) = Cardinality(S)
  <2>1. PICK f : f = [e \in S |-> Back(e)]
    OBVIOUS
  <2>2. f \in Surjection(S, T) /\ f \in Injection(S, T)
    <3>1. f \in [S -> T]
      BY <1>2, <2>1
    <3>2. \A y \in T : \E e \in S : f[e] = y
      BY <1>2, <2>1
    <3>3. \A d, e \in S : f[d] = f[e] => d = e
      BY <1>5, <2>1
    <3>4. f \in Surjection(S, T)
      BY <3>1, <3>2 DEF Surjection
    <3>5. f \in Injection(S, T)
      BY <3>1, <3>3 DEF Injection, IsInjective
    <3> QED BY <3>4, <3>5
  <2> QED BY <1>4, <2>2, FS_Surjection
<1>7. PICK D : D = 1 .. Cardinality(S)
  OBVIOUS
<1>8. SUFFICES ASSUME NEW s \in InitialStates(q) PROVE s \in InitialStates(r)
  BY <1>1
<1>9. PICK t \in SetToSeqs(T) : s = BuildState(q.context, t)
  BY <1>3 DEF InitialStates
<1>10. t \in [D -> T] /\ \A i, j \in D : i # j => t[i] # t[j]
  BY <1>6, <1>7, <1>9 DEF SetToSeqs
<1>11. PICK u : u = [i \in D |-> CHOOSE e \in S : Back(e) = t[i]]
  OBVIOUS
<1>12. \A i \in D : u[i] \in S /\ Back(u[i]) = t[i]
  <2> TAKE i \in D
  <2>1. \E e \in S : Back(e) = t[i]
    BY <1>2, <1>10
  <2> QED BY <1>11, <2>1
<1>13. u \in SetToSeqs(S)
  <2>1. u \in [D -> S]
    BY <1>11, <1>12
  <2>2. \A i, j \in D : i # j => u[i] # u[j]
    BY <1>10, <1>12
  <2> QED BY <1>7, <2>1, <2>2 DEF SetToSeqs
<1>14. AllAlike(t, u)
  <2>1. PICK n \in Nat : n = Cardinality(S) /\ D = 1 .. n
    BY <1>4, <1>7, FS_CardinalityType
  <2>2. Len(t) = n /\ Len(u) = n /\ t \in Seq(T) /\ u \in Seq(S)
    <3>1. u \in [1 .. n -> S] /\ t \in [1 .. n -> T]
      BY <1>10, <1>11, <1>12, <2>1
    <3> QED BY <3>1
  <2>3. t \in Seq(Range(t)) /\ u \in Seq(Range(u))
    BY ONLY <2>2, InRange
  <2>4. \A i \in 1 .. n : EntryAlike(t[i], u[i])
    BY <1>4, <1>12, <2>1, BackIs
  <2> QED BY <2>2, <2>3, <2>4 DEF AllAlike
<1>15. FoldLeft(Inject, EmptyState, t) = FoldLeft(Inject, EmptyState, u)
  BY <1>14, StateAlike
<1>16. s = BuildState(r.context, u)
  BY <1>3, <1>9, <1>15 DEF BuildState
<1> QED BY <1>2, <1>13, <1>16 DEF InitialStates

\* A call is one of those that are made, and what runs for it is the request that it
\* carried, in a state that this may start in.
CallInv ==
    /\ \A c \in call : c \in Calls /\ call = {c} /\ reply = {}
    /\ running => req.remote /\ call # {}
    /\ running => \A c \in call : c.by = "client" => req = FromProto(Converted(c.request, ToWire[MaxDepth]))
    /\ running /\ pc = "Reasoning" => state \in InitialStates(req)

LEMMA ConvertedFields ==
    ASSUME NEW r, NEW convert
    PROVE  /\ Converted(r, convert).context.facts = r.context.facts
           /\ Converted(r, convert).config = r.config /\ Converted(r, convert).remote = r.remote
BY DEF Converted

\* What crosses the wire for a call comes from afar and has its facts named.
LEMMA SomeFalse == \E no : no = FALSE
OBVIOUS

LEMMA CallsAreNamed ==
    ASSUME NEW c \in Calls
    PROVE  FactsNamed(FromProto(OnWire(c))) /\ FromProto(OnWire(c)).remote
<1>1. c.by \in {"client", "raw", "backend"}
  BY CallAssumption
<1>2. PICK w, r : w = OnWire(c) /\ r = FromProto(w)
  OBVIOUS
<1>3. r.context.facts = w.context.facts /\ r.config = w.config /\ r.remote = w.remote
  BY <1>2, ConvertedFields DEF FromProto
<1>4. CASE c.by = "backend"
  <2>1. PICK facts : facts = <<>>
    OBVIOUS
  <2>2. PICK yes : yes = TRUE
    OBVIOUS
  <2>a. w = BackendRequest(c.request)
    BY <1>2, <1>4 DEF OnWire
  <2>b. PICK task : task = BackendRequest(c.request).task
    OBVIOUS
  <2>c. PICK policy : policy = BackendRequest(c.request).policy
    OBVIOUS
  <2>d. PICK context : context = [state |-> {}, facts |-> facts]
    OBVIOUS
  <2>e. w = [task |-> task, context |-> context, policy |-> policy, config |-> {}, remote |-> yes, times |-> req.times]
    BY <2>1, <2>2, <2>a, <2>b, <2>c, <2>d, Zenon DEF BackendRequest
  <2>3. w.context.facts = facts /\ w.config = {} /\ w.remote = yes
    BY <2>d, <2>e
  <2>4. facts \in Seq(Range(facts)) /\ Range(facts) = {}
    BY <2>1 DEF Range
  <2> QED BY <1>2, <1>3, <2>2, <2>3, <2>4 DEF FactsNamed
<1>5. CASE c.by # "backend"
  <2>1. c.request.config = {} /\ c.request.remote /\ FactsNamed(c.request)
    BY <1>5, CallAssumption
  <2>2. w = c.request \/ w = Converted(c.request, ToWire[MaxDepth])
    BY <1>1, <1>2, <1>5 DEF OnWire
  <2>3. w.context.facts = c.request.context.facts /\ w.config = c.request.config /\ w.remote = c.request.remote
    BY <2>2, ConvertedFields
  <2> QED BY <1>2, <1>3, <2>1, <2>3 DEF FactsNamed
<1> QED BY <1>4, <1>5

\* No step of the kernel itself leads to its first step, but for the one that begins.
LEMMA NoneStarts ==
    ASSUME Next
    PROVE  Begin \/ (pc' # "Reasoning" /\ req' = req)
<1>1. ASSUME NEW step \in Range(Steps), NEW rendering \in Renderings(state), NEW out \in Outputs[step],
             RunStep(step, out, rendering)
      PROVE  pc' # "Reasoning" /\ req' = req
  <2>1. pc' \in {Following(step), Done} /\ req' = req
    BY <1>1 DEF RunStep
  <2> QED BY <2>1 DEF Following, Done
<1>2. ASSUME StepFails PROVE pc' # "Reasoning" /\ req' = req
  BY <1>2 DEF StepFails
<1>3. ASSUME BuildProposal PROVE pc' # "Reasoning" /\ req' = req
  BY <1>3 DEF BuildProposal
<1>4. ASSUME NEW j \in Judged, Judge(j) PROVE pc' # "Reasoning" /\ req' = req
  BY <1>4 DEF Judge
<1> QED BY <1>1, <1>2, <1>3, <1>4 DEF Next

\* Every step of the server and its clients keeps that.
LEMMA CallKeeps ==
    ASSUME CallInv, [RpcNext]_allVars
    PROVE  CallInv'
<1>1. CASE Next /\ UNCHANGED rpc
  <2>1. ~running \/ ~Begin
    BY DEF CallInv, Begin
  <2>2. call' = call /\ reply' = reply /\ running' = running
    BY <1>1 DEF rpc
  <2>3. running => pc' # "Reasoning" /\ req' = req
    BY <1>1, <2>1, NoneStarts
  <2> QED BY <2>2, <2>3 DEF CallInv
<1>2. ASSUME UNCHANGED <<pc, req, state, call, running, reply>> PROVE CallInv'
  BY <1>2 DEF CallInv
<1>3. CASE LoadModel \/ Listen \/ Connect
  BY <1>2, <1>3 DEF LoadModel, Listen, Connect, vars
<1>4. ASSUME NEW c \in Calls, Send(c) PROVE CallInv'
  <2>1. ~running
    BY <1>4 DEF Send, CallInv
  <2> QED BY <1>4, <2>1 DEF Send, CallInv
<1>5. CASE Accept
  <2>1. PICK c \in call : Run(FromProto(OnWire(c)))
    BY <1>5 DEF Accept
  <2>2. call' = call /\ reply' = reply /\ req' = FromProto(OnWire(c)) /\ state' \in InitialStates(req')
    BY <1>5, <2>1 DEF Accept, Run
  <2>3. c \in Calls /\ call = {c}
    BY DEF CallInv
  <2>4. req'.remote
    BY <2>2, <2>3, CallsAreNamed
  <2>5. c.by = "client" => req' = FromProto(Converted(c.request, ToWire[MaxDepth]))
    BY <2>2 DEF OnWire
  <2> QED BY <2>2, <2>3, <2>4, <2>5 DEF CallInv
<1>6. CASE Refuse
  <2>1. call' = {} /\ ~running /\ running' = running
    BY <1>6 DEF Refuse
  <2> QED BY <2>1 DEF CallInv
<1>7. CASE Respond
  <2>1. call' = {} /\ ~running'
    BY <1>7 DEF Respond
  <2> QED BY <2>1 DEF CallInv
<1>8. ASSUME call' = {}, call = {}, UNCHANGED running PROVE CallInv'
  BY <1>8 DEF CallInv
<1>9. ASSUME NEW chat \in Chats, Stream(chat) PROVE CallInv'
  BY <1>8, <1>9 DEF Stream
<1>10. CASE Ask
  <2>1. call = {} /\ call' = {} /\ UNCHANGED running
    BY <1>10, Zenon DEF Ask
  <2> QED BY <1>8, <2>1
<1>11. CASE UNCHANGED allVars
  BY <1>2, <1>11 DEF allVars, vars, rpc
<1> QED BY <1>1, <1>3, <1>4, <1>5, <1>6, <1>7, <1>9, <1>10, <1>11 DEF RpcNext

LEMMA CallsAreTheirs == RpcSpec => []CallInv
<1>1. RpcInit => CallInv
  BY DEF RpcInit, CallInv
<1> QED BY <1>1, CallKeeps, PTL DEF RpcSpec

\* What a call does to the chain is what a request from anywhere does.
THEOREM RpcServes == RpcSpec => Served
<1>1. ASSUME CallInv, [RpcNext]_allVars
      PROVE  [Next \/ \E request : FactsNamed(request) /\ Run(request)]_vars
  <2>1. CASE Next
    BY <2>1
  <2>2. LoadModel \/ Listen \/ Connect \/ Refuse \/ Respond \/ Ask => UNCHANGED vars
    BY Zenon DEF LoadModel, Listen, Connect, Refuse, Respond, Ask
  <2>3. ASSUME NEW c \in Calls, Send(c) PROVE UNCHANGED vars
    BY <2>3 DEF Send
  <2>4. CASE Accept
    <3>1. PICK c \in call : Run(FromProto(OnWire(c)))
      BY <2>4 DEF Accept
    <3>2. FactsNamed(FromProto(OnWire(c)))
      BY <1>1, CallsAreNamed DEF CallInv
    <3> QED BY <3>1, <3>2
  <2>5. ASSUME NEW chat \in Chats, Stream(chat) PROVE UNCHANGED vars
    BY <2>5 DEF Stream
  <2>6. CASE UNCHANGED allVars
    BY <2>6 DEF allVars
  <2> QED BY <1>1, <2>1, <2>2, <2>3, <2>4, <2>5, <2>6 DEF RpcNext
<1>2. RpcInit => Init
  BY DEF RpcInit
<1> QED BY <1>1, <1>2, CallsAreTheirs, PTL DEF RpcSpec, Served

\* So the chain keeps behind the server what it keeps at home: its proposals speak for
\* it and are replayed, and planning is given what was said (run_kernel).
THEOREM RpcKeepsTheChain ==
    RpcSpec => [](ProposalSpeaksForChain /\ ReplayGivenOrder /\ PlanningKnowsWhatWasSaid)
BY RpcServes, ServedProposalsSpeak, ServedCarries, CarriedIsKnown, PTL

\* A reply for what ran is told of the last request, which came from afar.
ReplyInv == \A r \in reply : r.run => req.remote /\ pc \in {"idle", "judged"} /\ ToldTheSame(r)

Demoted(a, sort, oks, told, effort) ==
    [a EXCEPT !.kind = sort, !.results = oks, !.truths = told, !.replayability = effort]

OfKind(a, sort) == [a EXCEPT !.kind = sort]

WithResults(a, oks) == [a EXCEPT !.results = oks]

WithTruths(a, told) == [a EXCEPT !.truths = told]

WithEffort(a, effort) == [a EXCEPT !.replayability = effort]

LEMMA OfKindIs ==
    \A id, kind, payload, results, truths, confidence, human, replayability, v :
        OfKind(ProposalOf(id, kind, payload, results, truths, confidence, human, replayability), v)
            = ProposalOf(id, v, payload, results, truths, confidence, human, replayability)
BY DEF ProposalOf, OfKind

LEMMA WithResultsIs ==
    \A id, kind, payload, results, truths, confidence, human, replayability, v :
        WithResults(ProposalOf(id, kind, payload, results, truths, confidence, human, replayability), v)
            = ProposalOf(id, kind, payload, v, truths, confidence, human, replayability)
BY DEF ProposalOf, WithResults

LEMMA WithTruthsIs ==
    \A id, kind, payload, results, truths, confidence, human, replayability, v :
        WithTruths(ProposalOf(id, kind, payload, results, truths, confidence, human, replayability), v)
            = ProposalOf(id, kind, payload, results, v, confidence, human, replayability)
BY DEF ProposalOf, WithTruths

LEMMA WithEffortIs ==
    \A id, kind, payload, results, truths, confidence, human, replayability, v :
        WithEffort(ProposalOf(id, kind, payload, results, truths, confidence, human, replayability), v)
            = ProposalOf(id, kind, payload, results, truths, confidence, human, v)
BY DEF ProposalOf, WithEffort

LEMMA DemotedIs ==
    \A id, kind, payload, results, truths, confidence, human, replayability, sort, oks, told, effort :
        Demoted(ProposalOf(id, kind, payload, results, truths, confidence, human, replayability), sort, oks, told, effort)
            = ProposalOf(id, sort, payload, oks, told, confidence, human, effort)
<1>1. \A a, sort, oks, told, effort : Demoted(a, sort, oks, told, effort) = WithEffort(WithTruths(WithResults(OfKind(a, sort), oks), told), effort)
  BY DEF Demoted, OfKind, WithResults, WithTruths, WithEffort
<1> QED BY <1>1, OfKindIs, WithResultsIs, WithTruthsIs, WithEffortIs

\* What a call has come to is told as it is (rust_replayability_to_proto and the
\* conversions around it).
LEMMA RespondTells ==
    ASSUME AnswerOK, CallInv, Respond
    PROVE  \A r \in reply' : ToldTheSame(r)'
<1>1. PICK c \in call, error \in {"ModelNotLoaded", "ContextLengthExceeded", "InferenceError", "AdapterNotFound"} :
         reply' = {[by |-> c.by, run |-> TRUE,
                    status |-> IF answer # NoAnswer THEN "ok"
                               ELSE IF c.by = "backend" THEN "InferenceError" ELSE Status(error),
                    proposal |-> IF answer = NoAnswer THEN NoAnswer
                                 ELSE IF c.by = "backend" THEN ToBackend(ToProto(answer)) ELSE ToProto(answer)]}
  BY DEF Respond
<1>2. answer' = answer
  BY DEF Respond, vars
<1>3. PICK status : status = IF answer # NoAnswer THEN "ok"
                             ELSE IF c.by = "backend" THEN "InferenceError" ELSE Status(error)
  OBVIOUS
<1>4. PICK proposal :
         proposal = IF answer = NoAnswer THEN NoAnswer
                    ELSE IF c.by = "backend" THEN ToBackend(ToProto(answer)) ELSE ToProto(answer)
  OBVIOUS
<1>5. PICK yes : yes = TRUE
  OBVIOUS
<1>6. SUFFICES ASSUME NEW r, r = [by |-> c.by, run |-> yes, status |-> status, proposal |-> proposal]
               PROVE  ToldTheSame(r)'
  BY <1>1, <1>3, <1>4, <1>5
<1>7. r.by = c.by /\ r.status = status /\ r.proposal = proposal
  BY <1>6
<1>8. status = "ok" <=> answer # NoAnswer
  BY <1>3 DEF Status
<1>9. ASSUME answer # NoAnswer
      PROVE  /\ proposal.id = answer.id /\ proposal.payload = answer.payload
             /\ proposal.human = answer.human /\ proposal.confidence = answer.confidence
             /\ Rank(proposal.replayability) <= Rank(answer.replayability)
             /\ c.by # "backend" => proposal = answer
  <2>1. answer = Proposal(chain, req)
    BY <1>9 DEF AnswerOK
  <2>2. PICK id, kind, payload, results, truths, confidence, human, replayability :
           answer = ProposalOf(id, kind, payload, results, truths, confidence, human, replayability)
    <3>1. PICK kind : kind = IF chain.completed THEN "Plan" ELSE "Reasoning"
      OBVIOUS
    <3>2. PICK payload : payload = IF chain.completed THEN chain.final ELSE Last(chain.traces).output
      OBVIOUS
    <3>3. PICK results : results = [i \in DOMAIN chain.traces |-> chain.traces[i].valid]
      OBVIOUS
    <3>4. PICK truths : truths = [t \in req.policy.truths |-> chain.completed]
      OBVIOUS
    <3>5. PICK confidence :
             confidence = IF chain.completed THEN 27
                          ELSE 10 * Cardinality({i \in DOMAIN chain.traces : chain.traces[i].valid})
      OBVIOUS
    <3>6. PICK replayability : replayability = Replayability(req.policy, {})
      OBVIOUS
    <3> QED BY <2>1, <3>1, <3>2, <3>3, <3>4, <3>5, <3>6 DEF Proposal, ProposalOf
  <2>3. ToProto(answer) = answer
    BY <2>2 DEF ToProto, ReplayabilityToProto, ProposalOf
  <2>4. CASE c.by # "backend"
    <3>1. proposal = answer
      BY <1>4, <1>9, <2>3, <2>4
    <3>2. Rank(answer.replayability) <= Rank(answer.replayability)
      BY DEF Rank
    <3> QED BY <3>1, <3>2
  <2>5. CASE c.by = "backend"
    <3>1. proposal = ToBackend(answer)
      BY <1>4, <1>9, <2>3, <2>5
    <3>2. PICK none : none = [t \in {} |-> TRUE]
      OBVIOUS
    <3>a. ToBackend(answer) = Demoted(answer, "Reasoning", <<>>, none, "BestEffort")
      BY <3>2 DEF ToBackend, Demoted
    <3>3. ToBackend(answer) = ProposalOf(id, "Reasoning", payload, <<>>, none, confidence, human, "BestEffort")
      BY <2>2, <3>a, DemotedIs
    <3>4. /\ proposal.id = id /\ proposal.payload = payload /\ proposal.human = human
          /\ proposal.confidence = confidence /\ proposal.replayability = "BestEffort"
      BY <3>1, <3>3 DEF ProposalOf
    <3>5. answer.id = id /\ answer.payload = payload /\ answer.human = human /\ answer.confidence = confidence
      BY <2>2 DEF ProposalOf
    <3>6. Rank(proposal.replayability) <= Rank(answer.replayability)
      BY <3>4 DEF Rank
    <3> QED BY <2>5, <3>4, <3>5, <3>6
  <2> QED BY <2>4, <2>5
<1> QED BY <1>2, <1>7, <1>8, <1>9 DEF ToldTheSame

\* Every step keeps what was told true.
LEMMA ReplyKeeps ==
    ASSUME ReplyInv, CallInv, ChainInv, [RpcNext]_allVars
    PROVE  ReplyInv'
<1>1. CASE Next /\ UNCHANGED rpc
  <2>1. reply' = reply
    BY <1>1 DEF rpc
  <2>2. SUFFICES ASSUME NEW r \in reply, r.run
                 PROVE  req'.remote /\ pc' \in {"idle", "judged"} /\ ToldTheSame(r)'
    BY <2>1 DEF ReplyInv
  <2>3. req.remote /\ pc \in {"idle", "judged"} /\ ToldTheSame(r)
    BY <2>2 DEF ReplyInv
  <2>4. CASE Begin
    BY <2>3, <2>4 DEF Begin
  <2>5. ASSUME NEW step \in Range(Steps), NEW rendering \in Renderings(state), NEW out \in Outputs[step],
               RunStep(step, out, rendering)
        PROVE  FALSE
    BY <2>3, <2>5, StepsAre DEF RunStep
  <2>6. CASE StepFails
    BY <2>3, <2>6, StepsAre DEF StepFails
  <2>7. CASE BuildProposal
    BY <2>3, <2>7 DEF BuildProposal
  <2>8. ASSUME NEW j \in Judged, Judge(j)
        PROVE  req'.remote /\ pc' \in {"idle", "judged"} /\ ToldTheSame(r)'
    BY <2>3, <2>8 DEF Judge, ToldTheSame
  <2> QED BY <1>1, <2>4, <2>5, <2>6, <2>7, <2>8 DEF Next
<1>2. ASSUME UNCHANGED <<pc, req, answer, reply>> PROVE ReplyInv'
  BY <1>2 DEF ReplyInv, ToldTheSame
<1>3. CASE LoadModel \/ Listen \/ Connect
  BY <1>2, <1>3 DEF LoadModel, Listen, Connect, vars
<1>4. ASSUME \A r \in reply' : ~r.run PROVE ReplyInv'
  BY <1>4 DEF ReplyInv
<1>5. ASSUME NEW c \in Calls, Send(c) PROVE ReplyInv'
  BY <1>4, <1>5 DEF Send
<1>6. CASE Accept
  <2>1. reply' = {}
    BY <1>6 DEF Accept, CallInv
  <2> QED BY <1>4, <2>1
<1>7. PICK no : no = FALSE
  BY ONLY SomeFalse
<1>8. CASE Refuse
  <2>1. PICK c \in call : reply' = {[by |-> c.by, status |-> "invalid_argument", run |-> no]}
    BY <1>7, <1>8 DEF Refuse
  <2>2. \A r \in reply' : r.run = no
    BY <2>1
  <2> QED BY <1>4, <1>7, <2>2
<1>9. CASE Respond
  <2>1. pc' = "idle" /\ req' = req /\ running
    BY <1>9 DEF Respond, vars
  <2>2. req'.remote
    BY <2>1 DEF CallInv
  <2>3. \A r \in reply' : ToldTheSame(r)'
    BY <1>9, RespondTells DEF ChainInv
  <2> QED BY <2>1, <2>2, <2>3 DEF ReplyInv
<1>10. ASSUME NEW chat \in Chats, Stream(chat) PROVE ReplyInv'
  <2>1. PICK calls : calls = IF chat.tools = {} THEN <<>> ELSE DetectToolCalls(chat.says)
    OBVIOUS
  <2>2. PICK status : status = IF calls = <<>> THEN "Eos" ELSE "ToolCall"
    OBVIOUS
  <2>3. reply' = {[by |-> "chat", chat |-> chat, prompt |-> ChatTemplate(chat), calls |-> calls,
                   status |-> status, run |-> no]}
    BY <1>7, <1>10, <2>1, <2>2 DEF Stream
  <2>4. \A r \in reply' : r.run = no
    BY <2>3
  <2> QED BY <1>4, <1>7, <2>4
<1>11. CASE Ask
  <2>1. PICK ask : reply' = {[by |-> "ask", status |-> AskStatus(ask), run |-> no]}
    BY <1>7, <1>11, Zenon DEF Ask
  <2>2. \A r \in reply' : r.run = no
    BY <2>1
  <2> QED BY <1>4, <1>7, <2>2
<1>12. CASE UNCHANGED allVars
  BY <1>2, <1>12 DEF allVars, vars, rpc
<1> QED BY <1>1, <1>3, <1>5, <1>6, <1>8, <1>9, <1>10, <1>11, <1>12 DEF RpcNext

\* A client's request starts as it would at home, by the induction on its values above.
LEMMA ClientStarts ==
    ASSUME CallInv, running, pc = "Reasoning", NEW c \in call
    PROVE  PromptsAlike(c)
<1>1. c \in Calls /\ state \in InitialStates(req)
  BY DEF CallInv
<1>2. SUFFICES ASSUME c.by = "client"
               PROVE  state \in InitialStates(c.request) /\ req.policy = c.request.policy /\ req.task = c.request.task
  BY DEF PromptsAlike
<1>3. c.request.config = {} /\ EntriesOf(c.request.context.state, JsonUpTo[MaxDepth])
  BY <1>1, <1>2, CallAssumption
<1>4. req = FromProto(Converted(c.request, ToWire[MaxDepth]))
  BY <1>2 DEF CallInv
<1>5. state \in InitialStates(c.request)
  BY <1>1, <1>3, <1>4, ConvertedStarts
<1> QED BY <1>4, <1>5, ConvertedIs

\* A request that crosses the wire starts the kernel as at home, and its caller is told
\* what the kernel proposed (convert.rs, inject_json_value, run_kernel, GrpcBackend).
THEOREM RemoteRunsLikeLocal == RpcSpec => []RemoteIsLikeLocal
<1>1. RpcInit => ReplyInv
  BY DEF RpcInit, ReplyInv
<1>2. CallInv /\ ReplyInv => RemoteIsLikeLocal
  BY ClientStarts DEF RemoteIsLikeLocal, ReplyInv
<1> QED BY <1>1, <1>2, ReplyKeeps, CallsAreTheirs, RpcServes, ServedChainInvariance, PTL DEF RpcSpec

----------------------------------------------------------------------------
(* Tool calls *)

\* The search for tool calls behind a place, by what it finds further on.
BehindStep(out, f, from) ==
    LET opens == {i \in from .. Len(out) : out[i] = "open"}
        closes == {i \in Min(opens) + 1 .. Len(out) : out[i] = "close"}
    IN  IF opens = {} \/ closes = {} THEN <<>>
        ELSE (IF Parses(SubSeq(out, Min(opens) + 1, Min(closes) - 1)) THEN <<Min(opens)>> ELSE <<>>)
             \o f[Min(closes) + 1]

BehindFn(out, f, low) == f = [from \in low .. Len(out) + 1 |-> BehindStep(out, f, from)]

\* The first place of a tag.
FirstTag(out, tag, from, o) ==
    o \in from .. Len(out) /\ out[o] = tag /\ \A i \in from .. o - 1 : out[i] # tag

Found(out, o, c) == IF Parses(SubSeq(out, o + 1, c - 1)) THEN <<o>> ELSE <<>>

LEMMA FirstIs ==
    ASSUME NEW out, Len(out) \in Nat, NEW tag, NEW from \in Nat,
           NEW S, S = {i \in from .. Len(out) : out[i] = tag}, S # {}
    PROVE  FirstTag(out, tag, from, Min(S))
<1>1. PICK N \in Nat : N = Len(out)
  OBVIOUS
<1>2. S \subseteq Nat
  BY <1>1
<1>3. Min(S) \in S /\ \A y \in S : Min(S) <= y
  BY <1>2, MinIs
<1>4. PICK o : o = Min(S)
  OBVIOUS
<1>5. o \in from .. N /\ out[o] = tag
  BY <1>1, <1>3, <1>4
<1>6. \A i \in from .. o - 1 : out[i] # tag
  BY <1>1, <1>3, <1>4, <1>5
<1> QED BY <1>1, <1>4, <1>5, <1>6 DEF FirstTag

\* There is no opening tag any more, or none that is closed, or there is a first one and
\* a first closing tag behind it.
LEMMA BehindIs ==
    ASSUME NEW out, Len(out) \in Nat, NEW f, NEW from \in 1 .. Len(out) + 1
    PROVE  \/ BehindStep(out, f, from) = <<>> /\ \A i \in from .. Len(out) : out[i] # "open"
           \/ /\ BehindStep(out, f, from) = <<>>
              /\ \E o : FirstTag(out, "open", from, o) /\ \A i \in o + 1 .. Len(out) : out[i] # "close"
           \/ \E o, c : /\ FirstTag(out, "open", from, o) /\ FirstTag(out, "close", o + 1, c)
                        /\ BehindStep(out, f, from) = Found(out, o, c) \o f[c + 1]
<1>1. PICK opens : opens = {i \in from .. Len(out) : out[i] = "open"}
  OBVIOUS
<1>2. PICK o : o = Min(opens)
  OBVIOUS
<1>3. PICK closes : closes = {i \in o + 1 .. Len(out) : out[i] = "close"}
  OBVIOUS
<1>4. BehindStep(out, f, from) = IF opens = {} \/ closes = {} THEN <<>> ELSE Found(out, o, Min(closes)) \o f[Min(closes) + 1]
  BY <1>1, <1>2, <1>3 DEF BehindStep, Found
<1>5. CASE opens = {}
  BY <1>1, <1>4, <1>5
<1>6. CASE opens # {}
  <2>1. from \in Nat
    OBVIOUS
  <2>2. FirstTag(out, "open", from, o)
    BY <1>1, <1>2, <1>6, <2>1, FirstIs
  <2>3. o + 1 \in Nat
    BY <2>1, <2>2 DEF FirstTag
  <2>4. CASE closes = {}
    BY <1>3, <1>4, <2>2, <2>4
  <2>5. CASE closes # {}
    <3>1. FirstTag(out, "close", o + 1, Min(closes))
      BY <1>3, <2>3, <2>5, FirstIs
    <3> QED BY <1>4, <1>6, <2>2, <2>5, <3>1
  <2> QED BY <2>4, <2>5
<1> QED BY <1>5, <1>6

\* There is such a function from any place on: one place less is one more value.
LEMMA BehindExists ==
    ASSUME NEW out, Len(out) \in Nat
    PROVE  \E f : BehindFn(out, f, 1)
<1>1. PICK N \in Nat : N = Len(out)
  OBVIOUS
<1> DEFINE T == {n \in 0 .. N : ~\E f : BehindFn(out, f, N + 1 - n)}
<1>2. SUFFICES ASSUME T # {} PROVE FALSE
  <2>1. N \notin T => \E f : BehindFn(out, f, N + 1 - N)
    OBVIOUS
  <2> QED BY <2>1
<1>3. PICK n \in T : \A y \in T : ~(y < n)
  <2>1. T \subseteq Nat
    OBVIOUS
  <2> HIDE DEF T
  <2> QED BY <1>2, <2>1, Least
<1>4. PICK low \in 1 .. N + 1 : low = N + 1 - n
  OBVIOUS
<1>5. PICK f : \A from \in low + 1 .. N + 1 : f[from] = BehindStep(out, f, from)
  <2>1. CASE n = 0
    BY <1>4, <2>1
  <2>2. CASE n > 0
    <3>1. n - 1 \in 0 .. N /\ n - 1 < n
      BY <2>2
    <3>a. n - 1 \notin T
      <4> HIDE DEF T
      <4> QED BY <1>3, <3>1
    <3>2. PICK f : BehindFn(out, f, N + 1 - (n - 1))
      BY <3>1, <3>a
    <3>3. N + 1 - (n - 1) = low + 1
      BY <1>4
    <3>4. f = [from \in low + 1 .. N + 1 |-> BehindStep(out, f, from)]
      BY <1>1, <3>2, <3>3 DEF BehindFn
    <3> QED BY <3>4
  <2> QED BY <2>1, <2>2
<1>6. PICK g : g = [from \in low .. N + 1 |-> BehindStep(out, f, from)]
  OBVIOUS
<1>7. \A c \in low + 1 .. N + 1 : g[c] = f[c]
  BY <1>4, <1>5, <1>6
<1>8. ASSUME NEW from \in low .. N + 1 PROVE BehindStep(out, f, from) = BehindStep(out, g, from)
  <2>1. PICK opens : opens = {i \in from .. Len(out) : out[i] = "open"}
    OBVIOUS
  <2>2. PICK o : o = Min(opens)
    OBVIOUS
  <2>3. PICK closes : closes = {i \in o + 1 .. Len(out) : out[i] = "close"}
    OBVIOUS
  <2>4. \A h : BehindStep(out, h, from)
                 = IF opens = {} \/ closes = {} THEN <<>> ELSE Found(out, o, Min(closes)) \o h[Min(closes) + 1]
    BY <2>1, <2>2, <2>3 DEF BehindStep, Found
  <2>5. CASE opens # {} /\ closes # {}
    <3>1. from \in Nat
      BY <1>4
    <3>2. FirstTag(out, "open", from, o)
      BY <1>1, <2>1, <2>2, <2>5, <3>1, FirstIs
    <3>3. o + 1 \in Nat
      BY <3>1, <3>2 DEF FirstTag
    <3>4. FirstTag(out, "close", o + 1, Min(closes))
      BY <1>1, <2>3, <2>5, <3>3, FirstIs
    <3>5. Min(closes) + 1 \in low + 1 .. N + 1
      BY <1>1, <1>4, <3>2, <3>4 DEF FirstTag
    <3>6. f[Min(closes) + 1] = g[Min(closes) + 1]
      BY <1>7, <3>5
    <3> QED BY <2>4, <3>6
  <2> QED BY <2>4, <2>5
<1>9. BehindFn(out, g, low)
  BY <1>1, <1>6, <1>8 DEF BehindFn
<1> QED BY <1>3, <1>4, <1>9

LEMMA DetectIs ==
    ASSUME NEW out, Len(out) \in Nat
    PROVE  \E f : BehindFn(out, f, 1) /\ DetectToolCalls(out) = f[1]
<1>1. PICK g : g = CHOOSE f : BehindFn(out, f, 1)
  OBVIOUS
<1>2. BehindFn(out, g, 1)
  BY <1>1, BehindExists
<1>3. DetectToolCalls(out) = g[1]
  BY <1>1 DEF DetectToolCalls, BehindFn, BehindStep
<1> QED BY <1>2, <1>3

\* A call stands whole at a place, for who looks from another one on.
OpenFrom(out, from, i) ==
    \E j \in from .. i - 1 : out[j] = "open" /\ \A k \in j .. i - 1 : out[k] # "close"

WholeFrom(out, from, i) ==
    /\ i + 2 <= Len(out) /\ out[i] = "open" /\ out[i + 1] = "json" /\ out[i + 2] = "close"
    /\ ~OpenFrom(out, from, i)

\* The calls that stand whole from there on, in their order.
WholeCalls(out, from, s) ==
    /\ s \in Seq(Nat)
    /\ \A i \in from .. Len(out) : WholeFrom(out, from, i) <=> \E k \in 1 .. Len(s) : s[k] = i
    /\ \A k \in 1 .. Len(s) : s[k] \in from .. Len(out)
    /\ \A k, l \in 1 .. Len(s) : k < l => s[k] < s[l]

LEMMA NoCalls ==
    ASSUME NEW out, NEW from, \A i \in from .. Len(out) : ~WholeFrom(out, from, i)
    PROVE  WholeCalls(out, from, <<>>)
<1>1. PICK s : s = <<>>
  OBVIOUS
<1>2. s \in Seq(Nat) /\ Len(s) = 0
  BY <1>1
<1>3. ~\E k \in 1 .. Len(s) : TRUE
  BY <1>2
<1> QED BY <1>1, <1>2, <1>3 DEF WholeCalls

\* One opening tag and what closes it first: it is whole if its text is a call, nothing up
\* to the closing tag is, and behind that tag it makes no difference.
LEMMA OneTag ==
    ASSUME NEW out, NEW N \in Nat, N = Len(out), out \in Seq(Range(out)), NEW from \in 1 .. N + 1, NEW o, NEW c,
           FirstTag(out, "open", from, o), FirstTag(out, "close", o + 1, c)
    PROVE  /\ o \in from .. N /\ c \in o + 1 .. N
           /\ WholeFrom(out, from, o) <=> Parses(SubSeq(out, o + 1, c - 1))
           /\ \A i \in from .. c : i # o => ~WholeFrom(out, from, i)
           /\ \A i \in c + 1 .. N : WholeFrom(out, from, i) <=> WholeFrom(out, c + 1, i)
<1>1. /\ o \in from .. N /\ out[o] = "open" /\ \A i \in from .. o - 1 : out[i] # "open"
      /\ c \in o + 1 .. N /\ out[c] = "close" /\ \A i \in o + 1 .. c - 1 : out[i] # "close"
  BY DEF FirstTag
<1>2. from \in Nat /\ o \in Nat /\ c \in Nat /\ from >= 1 /\ o >= from /\ c >= o + 1 /\ c <= N
  BY <1>1
<1>3. ~OpenFrom(out, from, o)
  BY <1>1, <1>2 DEF OpenFrom
<1>4. Parses(SubSeq(out, o + 1, c - 1)) <=> c = o + 2 /\ out[o + 1] = "json"
  <2>1. PICK s : s = SubSeq(out, o + 1, c - 1)
    OBVIOUS
  <2>2. Len(s) = c - 1 - o /\ (c = o + 2 => s[1] = out[o + 1])
    BY <1>2, <2>1
  <2>3. s \in Seq(Range(out))
    BY <1>2, <2>1
  <2>4. s = <<"json">> <=> c - 1 - o = 1 /\ s[1] = "json"
    <3>1. s = <<"json">> => Len(s) = 1 /\ s[1] = "json"
      OBVIOUS
    <3>2. Len(s) = 1 /\ s[1] = "json" => s = <<"json">>
      BY <2>3
    <3> QED BY <2>2, <3>1, <3>2
  <2> QED BY <1>2, <2>1, <2>2, <2>4 DEF Parses
<1>5. WholeFrom(out, from, o) <=> c = o + 2 /\ out[o + 1] = "json"
  <2>1. ASSUME WholeFrom(out, from, o) PROVE c = o + 2 /\ out[o + 1] = "json"
    <3>1. o + 2 <= N /\ out[o + 1] = "json" /\ out[o + 2] = "close"
      BY <2>1 DEF WholeFrom
    <3>2. c # o + 1
      BY <1>1, <3>1
    <3>3. ~(o + 2 \in o + 1 .. c - 1)
      BY <1>1, <3>1
    <3> QED BY <1>2, <3>1, <3>2, <3>3
  <2>2. ASSUME c = o + 2, out[o + 1] = "json" PROVE WholeFrom(out, from, o)
    BY <1>1, <1>2, <1>3, <2>2 DEF WholeFrom
  <2> QED BY <2>1, <2>2
<1>6. ASSUME NEW i \in from .. c, i # o PROVE ~WholeFrom(out, from, i)
  <2>1. CASE i < o
    <3>1. i \in from .. o - 1
      BY <1>2, <2>1
    <3> QED BY <1>1, <3>1 DEF WholeFrom
  <2>2. CASE i > o
    <3>1. o \in from .. i - 1 /\ \A k \in o .. i - 1 : k = o \/ k \in o + 1 .. c - 1
      BY <1>2, <2>2
    <3>2. OpenFrom(out, from, i)
      BY <1>1, <3>1 DEF OpenFrom
    <3> QED BY <3>2 DEF WholeFrom
  <2> QED BY <1>2, <1>6, <2>1, <2>2
<1>7. ASSUME NEW i \in c + 1 .. N PROVE OpenFrom(out, from, i) <=> OpenFrom(out, c + 1, i)
  <2>1. ASSUME NEW j \in from .. i - 1, out[j] = "open", \A k \in j .. i - 1 : out[k] # "close"
        PROVE  j \in c + 1 .. i - 1
    <3>1. ~(c \in j .. i - 1)
      BY <1>1, <2>1
    <3> QED BY <1>2, <3>1
  <2>2. c + 1 .. i - 1 \subseteq from .. i - 1
    BY <1>2
  <2> QED BY <2>1, <2>2 DEF OpenFrom
<1>8. \A i \in c + 1 .. N : WholeFrom(out, from, i) <=> WholeFrom(out, c + 1, i)
  BY <1>7 DEF WholeFrom
<1> QED BY <1>1, <1>4, <1>5, <1>6, <1>8

\* The calls behind the closing tag and, if it is one, the call in front of them.
LEMMA OneMoreCall ==
    ASSUME NEW out, NEW N \in Nat, N = Len(out), out \in Seq(Range(out)), NEW from \in 1 .. N + 1, NEW o, NEW c,
           FirstTag(out, "open", from, o), FirstTag(out, "close", o + 1, c), NEW s, WholeCalls(out, c + 1, s)
    PROVE  WholeCalls(out, from, Found(out, o, c) \o s)
<1>1. /\ o \in from .. N /\ c \in o + 1 .. N
      /\ WholeFrom(out, from, o) <=> Parses(SubSeq(out, o + 1, c - 1))
      /\ \A i \in from .. c : i # o => ~WholeFrom(out, from, i)
      /\ \A i \in c + 1 .. N : WholeFrom(out, from, i) <=> WholeFrom(out, c + 1, i)
  BY OneTag
<1>2. from \in Nat /\ o \in Nat /\ c \in Nat /\ from >= 1 /\ o >= from /\ c >= o + 1 /\ c <= N
  BY <1>1
<1>3. PICK m \in Nat : m = Len(s) /\ s \in Seq(Nat)
  BY DEF WholeCalls
<1>4. /\ \A i \in c + 1 .. N : WholeFrom(out, c + 1, i) <=> \E k \in 1 .. m : s[k] = i
      /\ \A k \in 1 .. m : s[k] \in c + 1 .. N
      /\ \A k, l \in 1 .. m : k < l => s[k] < s[l]
  BY <1>3 DEF WholeCalls
<1>5. CASE ~Parses(SubSeq(out, o + 1, c - 1))
  <2>1. PICK none : none = <<>> /\ none = Found(out, o, c)
    BY <1>5 DEF Found
  <2>2. none \o s = s
    BY <1>3, <2>1
  <2>3. \A i \in from .. N : WholeFrom(out, from, i) <=> \E k \in 1 .. m : s[k] = i
    <3> TAKE i \in from .. N
    <3>1. CASE i \in from .. c
      <4>1. ~WholeFrom(out, from, i)
        BY <1>1, <1>5, <3>1
      <4>2. \A k \in 1 .. m : s[k] # i
        BY <1>2, <1>4, <3>1
      <4> QED BY <4>1, <4>2
    <3>2. CASE i \in c + 1 .. N
      BY <1>1, <1>4, <3>2
    <3> QED BY <1>2, <3>1, <3>2
  <2>4. \A k \in 1 .. m : s[k] \in from .. N
    BY <1>2, <1>4
  <2>5. WholeCalls(out, from, s)
    BY <1>3, <1>4, <2>3, <2>4 DEF WholeCalls
  <2> QED BY <2>1, <2>2, <2>5
<1>6. CASE Parses(SubSeq(out, o + 1, c - 1))
  <2>1. PICK one : one = <<o>> /\ one = Found(out, o, c)
    BY <1>6 DEF Found
  <2>2. one \in Seq(Nat) /\ Len(one) = 1 /\ one[1] = o
    BY <1>2, <2>1
  <2>3. PICK t : t = one \o s
    OBVIOUS
  <2>4. /\ t \in Seq(Nat) /\ Len(t) = 1 + m
        /\ \A i \in 1 .. 1 + m : t[i] = IF i <= 1 THEN one[i] ELSE s[i - 1]
    <3>1. PICK n \in Nat : n = 1 /\ n = Len(one)
      BY <2>2
    <3>2. one \in Seq(Nat) /\ s \in Seq(Nat) /\ m = Len(s)
      BY <1>3, <2>2
    <3>3. n = Len(one)
      BY <3>1
    <3>4. t \in Seq(Nat) /\ Len(t) = n + m /\ \A i \in 1 .. n + m : t[i] = IF i <= n THEN one[i] ELSE s[i - n]
      BY ONLY <2>3, <3>2, <3>3, n \in Nat, m \in Nat, ConcatIs
    <3> QED BY <3>1, <3>4
  <2>5. t[1] = o /\ \A k \in 1 .. m : t[k + 1] = s[k]
    <3>1. t[1] = o
      BY <2>2, <2>4
    <3>2. ASSUME NEW k \in 1 .. m PROVE t[k + 1] = s[k]
      <4>1. k + 1 \in 1 .. 1 + m /\ ~(k + 1 <= 1) /\ k + 1 - 1 = k
        OBVIOUS
      <4> QED BY <2>4, <4>1
    <3> QED BY <3>1, <3>2
  <2>6. \A i : (\E k \in 1 .. 1 + m : t[k] = i) <=> i = o \/ \E k \in 1 .. m : s[k] = i
    <3> TAKE i
    <3>1. ASSUME NEW k \in 1 .. 1 + m, t[k] = i PROVE i = o \/ \E l \in 1 .. m : s[l] = i
      <4>1. CASE k = 1
        BY <2>5, <3>1, <4>1
      <4>2. CASE k > 1
        <5>1. k - 1 \in 1 .. m /\ k - 1 + 1 = k
          BY <4>2
        <5> QED BY <2>5, <3>1, <5>1
      <4> QED BY <4>1, <4>2
    <3>2. ASSUME NEW k \in 1 .. m, s[k] = i PROVE \E l \in 1 .. 1 + m : t[l] = i
      <4>1. k + 1 \in 1 .. 1 + m
        OBVIOUS
      <4> QED BY <2>5, <3>2, <4>1
    <3>3. 1 \in 1 .. 1 + m
      OBVIOUS
    <3> QED BY <2>5, <3>1, <3>2, <3>3
  <2>7. \A i \in from .. N : WholeFrom(out, from, i) <=> \E k \in 1 .. 1 + m : t[k] = i
    <3> TAKE i \in from .. N
    <3>1. CASE i \in from .. c
      <4>1. WholeFrom(out, from, i) <=> i = o
        BY <1>1, <1>6, <3>1
      <4>2. \A k \in 1 .. m : s[k] # i
        BY <1>2, <1>4, <3>1
      <4> QED BY <2>6, <4>1, <4>2
    <3>2. CASE i \in c + 1 .. N
      <4>1. i # o
        BY <1>2, <3>2
      <4> QED BY <1>1, <1>4, <2>6, <3>2, <4>1
    <3> QED BY <1>2, <3>1, <3>2
  <2>8. ASSUME NEW k \in 1 .. 1 + m
        PROVE  t[k] \in from .. N /\ (k = 1 => t[k] = o) /\ (k > 1 => t[k] = s[k - 1] /\ k - 1 \in 1 .. m)
    <3>1. CASE k = 1
      BY <1>1, <2>5, <3>1
    <3>2. CASE k > 1
      <4>1. k - 1 \in 1 .. m /\ k - 1 + 1 = k
        BY <3>2
      <4>2. t[k] = s[k - 1] /\ s[k - 1] \in c + 1 .. N
        BY <1>4, <2>5, <4>1
      <4> QED BY <1>2, <3>2, <4>1, <4>2
    <3> QED BY <3>1, <3>2
  <2>9. \A k, l \in 1 .. 1 + m : k < l => t[k] < t[l]
    <3> TAKE k, l \in 1 .. 1 + m
    <3> HAVE k < l
    <3>1. l > 1 /\ t[l] = s[l - 1] /\ l - 1 \in 1 .. m
      BY <2>8
    <3>2. CASE k = 1
      <4>1. t[k] = o /\ s[l - 1] \in c + 1 .. N
        BY <1>4, <2>8, <3>1, <3>2
      <4> QED BY <1>2, <3>1, <4>1
    <3>3. CASE k > 1
      <4>1. t[k] = s[k - 1] /\ k - 1 \in 1 .. m /\ k - 1 < l - 1
        BY <2>8, <3>3
      <4> QED BY <1>4, <3>1, <4>1
    <3> QED BY <3>2, <3>3
  <2>10. WholeCalls(out, from, t)
    <3>1. \A k \in 1 .. 1 + m : t[k] \in from .. N
      BY <2>8
    <3> QED BY <2>4, <2>7, <2>9, <3>1 DEF WholeCalls
  <2> QED BY <2>1, <2>3, <2>10
<1> QED BY <1>5, <1>6

\* The search finds the calls that stand whole, from each place on.
LEMMA SearchFinds ==
    ASSUME NEW out, out \in Seq(Range(out))
    PROVE  WholeCalls(out, 1, DetectToolCalls(out))
<1>1. PICK N \in Nat : N = Len(out)
  OBVIOUS
<1>2. PICK f : BehindFn(out, f, 1) /\ DetectToolCalls(out) = f[1]
  BY <1>1, DetectIs
<1> DEFINE T == {n \in 0 .. N : ~WholeCalls(out, N + 1 - n, f[N + 1 - n])}
<1>3. SUFFICES ASSUME T # {} PROVE FALSE
  <2>1. N \notin T => WholeCalls(out, N + 1 - N, f[N + 1 - N])
    OBVIOUS
  <2>2. N + 1 - N = 1
    OBVIOUS
  <2> QED BY <1>2, <2>1, <2>2
<1>4. PICK n \in T : \A y \in T : ~(y < n)
  <2>1. T \subseteq Nat
    OBVIOUS
  <2> HIDE DEF T
  <2> QED BY <1>3, <2>1, Least
<1>5. PICK from \in 1 .. N + 1 : from = N + 1 - n
  OBVIOUS
<1>6. f[from] = BehindStep(out, f, from)
  BY <1>1, <1>2 DEF BehindFn
<1>7. CASE f[from] = <<>> /\ \A i \in from .. N : out[i] # "open"
  <2>1. \A i \in from .. N : ~WholeFrom(out, from, i)
    BY <1>7 DEF WholeFrom
  <2>2. WholeCalls(out, from, <<>>)
    BY <1>1, <2>1, NoCalls
  <2> QED BY <1>4, <1>5, <1>7, <2>2
<1>8. ASSUME f[from] = <<>>, NEW o, FirstTag(out, "open", from, o), \A i \in o + 1 .. N : out[i] # "close"
      PROVE  FALSE
  <2>1. o \in from .. N /\ \A i \in from .. o - 1 : out[i] # "open"
    BY <1>1, <1>8 DEF FirstTag
  <2>2. ASSUME NEW i \in from .. N, WholeFrom(out, from, i) PROVE FALSE
    <3>1. out[i] = "open" /\ i + 2 <= N /\ out[i + 2] = "close"
      BY <1>1, <2>2 DEF WholeFrom
    <3>2. ~(i \in from .. o - 1)
      BY <2>1, <3>1
    <3>3. i + 2 \in o + 1 .. N
      BY <2>1, <3>1, <3>2
    <3> QED BY <1>8, <3>1, <3>3
  <2>3. WholeCalls(out, from, <<>>)
    BY <1>1, <2>2, NoCalls
  <2> QED BY <1>4, <1>5, <1>8, <2>3
<1>9. ASSUME NEW o, NEW c, FirstTag(out, "open", from, o), FirstTag(out, "close", o + 1, c),
             f[from] = Found(out, o, c) \o f[c + 1]
      PROVE  FALSE
  <2>1. o \in from .. N /\ c \in o + 1 .. N
    BY <1>1, <1>9 DEF FirstTag
  <2>2. PICK m \in 0 .. N : c + 1 = N + 1 - m
    <3>1. N - c \in 0 .. N /\ c + 1 = N + 1 - (N - c)
      BY <2>1
    <3> QED BY <3>1
  <2>3. m < n
    BY <1>5, <2>1, <2>2
  <2>4. WholeCalls(out, c + 1, f[c + 1])
    BY <1>4, <2>2, <2>3
  <2>5. WholeCalls(out, from, f[from])
    BY <1>1, <1>9, <2>4, OneMoreCall
  <2> QED BY <1>4, <1>5, <2>5
<1>10. Len(out) \in Nat /\ from \in 1 .. Len(out) + 1
  BY <1>1
<1> QED BY <1>1, <1>6, <1>7, <1>8, <1>9, <1>10, BehindIs

\* A reply to a chat has the calls of what was said.
ChatInv ==
    \A r \in reply :
        r.by = "chat" => r.chat \in Chats /\ (r.chat.tools # {} => r.calls = DetectToolCalls(r.chat.says))

LEMMA ChatKeeps ==
    ASSUME ChatInv, CallInv, [RpcNext]_allVars
    PROVE  ChatInv'
<1>1. ASSUME reply' = reply \/ reply' = {} PROVE ChatInv'
  BY <1>1 DEF ChatInv
<1>2. CASE Next /\ UNCHANGED rpc
  BY <1>1, <1>2 DEF rpc
<1>3. CASE LoadModel \/ Listen \/ Connect \/ Accept
  BY <1>1, <1>3 DEF LoadModel, Listen, Connect, Accept
<1>4. ASSUME NEW c \in Calls, Send(c) PROVE ChatInv'
  BY <1>1, <1>4 DEF Send
<1>5. ASSUME \A r \in reply' : r.by # "chat" PROVE ChatInv'
  BY <1>5 DEF ChatInv
<1>6. \A c \in call : c.by # "chat"
  <2>1. \A c \in call : c \in Calls
    BY DEF CallInv
  <2>2. \A c \in Calls : c.by \in {"client", "raw", "backend"}
    BY CallAssumption
  <2> QED BY <2>1, <2>2
<1>7. PICK no : no = FALSE
  OBVIOUS
<1>8. CASE Refuse
  <2>1. PICK c \in call : reply' = {[by |-> c.by, status |-> "invalid_argument", run |-> no]}
    BY <1>7, <1>8 DEF Refuse
  <2>2. \A r \in reply' : r.by = c.by
    BY <2>1
  <2> QED BY <1>5, <1>6, <2>2
<1>9. CASE Respond
  <2>1. PICK yes : yes = TRUE
    OBVIOUS
  <2>2. PICK c \in call :
           \E status, proposal : reply' = {[by |-> c.by, run |-> yes, status |-> status, proposal |-> proposal]}
    BY <1>9, <2>1, Zenon DEF Respond
  <2>3. \A r \in reply' : r.by = c.by
    BY <2>2
  <2> QED BY <1>5, <1>6, <2>3
<1>10. CASE Ask
  <2>1. PICK ask : reply' = {[by |-> "ask", status |-> AskStatus(ask), run |-> no]}
    BY <1>7, <1>10, Zenon DEF Ask
  <2>2. \A r \in reply' : r.by = "ask"
    BY <2>1
  <2> QED BY <1>5, <2>2
<1>11. ASSUME NEW chat \in Chats, Stream(chat) PROVE ChatInv'
  <2>1. PICK calls : calls = IF chat.tools = {} THEN <<>> ELSE DetectToolCalls(chat.says)
    OBVIOUS
  <2>2. PICK status : status = IF calls = <<>> THEN "Eos" ELSE "ToolCall"
    OBVIOUS
  <2>3. reply' = {[by |-> "chat", chat |-> chat, prompt |-> ChatTemplate(chat), calls |-> calls,
                   status |-> status, run |-> no]}
    BY <1>7, <1>11, <2>1, <2>2 DEF Stream
  <2>4. \A r \in reply' : r.chat = chat /\ r.calls = calls
    BY <2>3
  <2> QED BY <2>1, <2>4 DEF ChatInv
<1>12. CASE UNCHANGED allVars
  BY <1>1, <1>12 DEF allVars, rpc
<1> QED BY <1>2, <1>3, <1>4, <1>8, <1>9, <1>10, <1>11, <1>12 DEF RpcNext

\* Every complete tool call of a text is found, in order, and nothing else, however long
\* the text is (detect_tool_calls).
THEOREM CallsAreFound == RpcSpec => []CompleteCallsAreFound
<1>1. RpcInit => ChatInv
  BY DEF RpcInit, ChatInv
<1>2. ChatInv => CompleteCallsAreFound
  <2>1. SUFFICES ASSUME ChatInv, NEW r \in reply, r.by = "chat", r.chat.tools # {}
                 PROVE  LET out == r.chat.says
                            Open(i) == \E j \in 1 .. i - 1 : out[j] = "open" /\ \A k \in j .. i - 1 : out[k] # "close"
                            Whole(i) == /\ i + 2 <= Len(out) /\ out[i] = "open" /\ out[i + 1] = "json"
                                        /\ out[i + 2] = "close" /\ ~Open(i)
                        IN  /\ Range(r.calls) = {i \in DOMAIN out : Whole(i)}
                            /\ \A i, j \in DOMAIN r.calls : i < j => r.calls[i] < r.calls[j]
    BY DEF CompleteCallsAreFound
  <2>2. PICK out, s : out = r.chat.says /\ s = r.calls
    OBVIOUS
  <2>3. out \in Seq(Range(out)) /\ s = DetectToolCalls(out)
    BY <2>1, <2>2, CallAssumption DEF ChatInv
  <2>4. PICK N \in Nat : N = Len(out) /\ DOMAIN out = 1 .. N
    BY <2>3
  <2>5. WholeCalls(out, 1, s)
    BY <2>3, SearchFinds
  <2>6. PICK m \in Nat : m = Len(s) /\ DOMAIN s = 1 .. m
    BY <2>5 DEF WholeCalls
  <2>7. Range(s) = {i \in 1 .. N : WholeFrom(out, 1, i)}
    <3>1. \A i \in Range(s) : \E k \in 1 .. m : s[k] = i
      BY <2>6 DEF Range
    <3>2. \A k \in 1 .. m : s[k] \in Range(s) /\ s[k] \in 1 .. N
      BY <2>4, <2>5, <2>6 DEF Range, WholeCalls
    <3>3. \A i \in 1 .. N : WholeFrom(out, 1, i) <=> \E k \in 1 .. m : s[k] = i
      BY <2>4, <2>5, <2>6 DEF WholeCalls
    <3> QED BY <3>1, <3>2, <3>3
  <2>8. \A i, j \in 1 .. m : i < j => s[i] < s[j]
    BY <2>5, <2>6 DEF WholeCalls
  <2> QED BY <2>2, <2>4, <2>6, <2>7, <2>8 DEF WholeFrom, OpenFrom
<1> QED BY <1>1, <1>2, ChatKeeps, CallsAreTheirs, PTL DEF RpcSpec
=============================================================================
