---------------------------- MODULE Application ----------------------------
(***************************************************************************)
(* The converge program (crates/application): its terminal interface          *)
(* (ui/app.rs, ui/views.rs), its `run` and `eval` commands (main.rs,           *)
(* evals.rs, packs.rs); and, as a fourth program, any that embeds the          *)
(* suggestors of module Suggestors.  The program reads one key at a time and   *)
(* draws before each: a state of the terminal is one that has been drawn.  It  *)
(* registers only suggestors that never accept what it puts into a context     *)
(* (seeds), so a run of its engine is one step with an outcome.               *)
(***************************************************************************)
EXTENDS Suggestors

CONSTANTS
    Packs,       \* the packs compiled in
    Typeable,    \* those whose name has none of the letters q, b, j and k
    Fixtures,    \* the eval fixtures there may be in the directory
    MaxJobs      \* bound: jobs submitted in one session

ASSUME ApplicationAssumption == Typeable \subseteq Packs /\ MaxJobs \in Nat

VARIABLES
    program,     \* "embedding", "tui", "run" or "eval"
    view,        \* the shown view of the terminal
    crumbs,      \* the breadcrumb: views, of a job detail with the job
    jobs,        \* the listed jobs, newest first
    cache,       \* the jobs whose details are kept
    detail,      \* the job of the shown details; 0: none
    context,     \* the job whose facts the context view shows; 0: none
    selected,    \* of each list view the selected row, from 0, or None
    form,        \* the submission form
    todo,        \* eval: fixtures to be run, in order
    results,     \* eval: the fixtures run and whether they passed
    exit         \* the exit code; Running before

terminal == <<view, crumbs, jobs, cache, detail, context, selected, form>>
evaluation == <<todo, results>>
appVars == <<program, terminal, evaluation, exit, vars>>

None == -1
Running == -1
all == <<"Jobs", "Packs", "Submit", "Context", "Agents">>
Lists == {"Jobs", "Packs", "Context", "Agents"}
Text == {"", "other"} \cup Packs
Seeds == {"", "garbage", "seed"}
Crumb(v, id) == [view |-> v, id |-> id]

----------------------------------------------------------------------------
(* A run of the engine on seeds alone *)

Outcome(seeds) ==
    [ok : {FALSE}, error : {"invariant", "other"}]
    \cup [ok : {TRUE}, converged : BOOLEAN, cycles : 1..2, facts : {seeds}]

----------------------------------------------------------------------------
(* The terminal *)

NewForm == [pack |-> "", seeds |-> "", field |-> 0, error |-> FALSE, success |-> 0]

JobRows(list) == Len(list)

PackRows == Cardinality(Packs)

\* The facts of a job are its seeds.
ContextRows(id, list) == Cardinality({i \in DOMAIN list : list[i].id = id /\ list[i].seeds = "seed"})

AgentRows == 2

Rows(v, list, ctx) ==
    CASE v = "Jobs" -> JobRows(list)
      [] v = "Packs" -> PackRows
      [] v = "Context" -> ContextRows(ctx, list)
      [] v = "Agents" -> AgentRows

\* Drawing a list puts its selection within its rows (ratatui's stateful widgets).
Clamped(row, rows) == IF rows = 0 THEN None ELSE IF row >= rows THEN rows - 1 ELSE row

Drawn(v, list, ctx) ==
    IF v \in Lists THEN [selected EXCEPT ![v] = Clamped(@, Rows(v, list, ctx))] ELSE selected

Show(v) ==
    /\ view' = v
    /\ crumbs' = IF v = "JobDetail" THEN <<Crumb("Jobs", 0), Crumb(v, detail')>> ELSE <<Crumb(v, 0)>>
    /\ selected' = Drawn(v, jobs', context')

Index == IF view = "JobDetail" THEN 0 ELSE CHOOSE i \in 0..4 : all[i + 1] = view

NextView ==
    /\ UNCHANGED <<jobs, cache, detail, context, form>>
    /\ Show(all[((Index + 1) % 5) + 1])

PrevView ==
    /\ UNCHANGED <<jobs, cache, detail, context, form>>
    /\ Show(all[((Index + 4) % 5) + 1])

Goto ==
    /\ UNCHANGED <<jobs, cache, detail, context, form>>
    /\ \E v \in {"Jobs", "Packs", "Submit", "Context", "Agents"} : Show(v)

Back ==
    /\ Len(crumbs) > 1
    /\ UNCHANGED <<jobs, cache, detail, context, form>>
    /\ crumbs' = Front(crumbs) /\ view' = Last(crumbs').view
    /\ selected' = Drawn(view', jobs, context)

\* Up and down, in a list and among the three fields of the form.
Move(step) ==
    /\ UNCHANGED <<view, crumbs, jobs, cache, detail, context>>
    /\ \/ /\ view \in Lists /\ Rows(view, jobs, context) > 0
          /\ LET row == IF selected[view] = None THEN 0 ELSE selected[view]
                 n == Rows(view, jobs, context)
             IN  selected' = [selected EXCEPT ![view] = (row + n + step) % n]
          /\ UNCHANGED form
       \/ /\ view = "Submit"
          /\ form' = [form EXCEPT !.field = (@ + 3 + step) % 3]
          /\ UNCHANGED selected

HandleChar ==
    /\ view = "Submit"
    /\ \E pack \in (Typeable \cup {"other"}) \ {form.pack}, seeds \in {"garbage", "seed"} :
        form' = CASE form.field = 0 -> [form EXCEPT !.pack = pack, !.error = FALSE]
                  [] form.field = 1 -> [form EXCEPT !.seeds = seeds, !.error = FALSE]
                  [] form.field = 2 -> [form EXCEPT !.error = FALSE]
    /\ UNCHANGED <<view, crumbs, jobs, cache, detail, context, selected>>

\* A field loses its last character; the error stays.
HandleBackspace ==
    /\ view = "Submit"
    /\ \E pack \in (Typeable \cup {"", "other"}), seeds \in Seeds :
        /\ form.pack = "" => pack = ""
        /\ form.seeds = "" => seeds = ""
        /\ form' = CASE form.field = 0 -> [form EXCEPT !.pack = pack]
                     [] form.field = 1 -> [form EXCEPT !.seeds = seeds]
                     [] form.field = 2 -> form
    /\ UNCHANGED <<view, crumbs, jobs, cache, detail, context, selected>>

\* Mutant: the facts of the context view are not replaced.
EnterDetailKeepContext ==
    /\ view = "Jobs" /\ selected["Jobs"] \in 0..(Len(jobs) - 1)
    /\ UNCHANGED <<jobs, cache, form, context>>
    /\ detail' = jobs[selected["Jobs"] + 1].id
    /\ Show("JobDetail")

EnterJobDetail ==
    /\ view = "Jobs" /\ selected["Jobs"] \in 0..(Len(jobs) - 1)
    /\ UNCHANGED <<jobs, cache, form>>
    /\ detail' = jobs[selected["Jobs"] + 1].id
    /\ context' = IF detail' \in cache THEN detail' ELSE context
    /\ Show("JobDetail")

EnterField ==
    /\ view = "Submit" /\ form.field < 2
    /\ form' = [form EXCEPT !.field = @ + 1]
    /\ UNCHANGED <<view, crumbs, jobs, cache, detail, context, selected>>

\* An error of the form or of the engine is shown before a success, and only typing
\* removes it.
SubmitJob ==
    /\ view = "Submit" /\ form.field = 2 /\ Len(jobs) < MaxJobs
    /\ UNCHANGED <<view, crumbs, selected>>
    /\ \/ /\ form.pack \notin Packs \/ form.seeds = "garbage"
          /\ form' = [form EXCEPT !.error = TRUE]
          /\ UNCHANGED <<jobs, cache, detail, context>>
       \/ /\ form.pack \in Packs /\ form.seeds # "garbage"
          /\ LET id == Len(jobs) + 1
                 cleared == [form EXCEPT !.pack = "", !.seeds = ""]
             IN  \E o \in Outcome(form.seeds) :
                 /\ jobs' = <<[id |-> id, pack |-> form.pack, seeds |-> form.seeds,
                               status |-> IF o.ok /\ o.converged THEN "Converged" ELSE "Failed"]>> \o jobs
                 /\ IF o.ok
                    THEN /\ cache' = cache \cup {id} /\ detail' = id /\ context' = id
                         /\ form' = [cleared EXCEPT !.success = id]
                    ELSE /\ form' = [cleared EXCEPT !.error = TRUE]
                         /\ UNCHANGED <<cache, detail, context>>

\* q and Esc where they do not go back: a form with a pack is emptied, else the
\* program ends.
Quit ==
    /\ view # "JobDetail"
    /\ IF view = "Submit" /\ form.pack # ""
       THEN form' = NewForm /\ UNCHANGED exit
       ELSE exit' = 0 /\ UNCHANGED form
    /\ UNCHANGED <<view, crumbs, jobs, cache, detail, context, selected>>

PressKey ==
    \/ /\ UNCHANGED exit
       /\ \/ NextView \/ PrevView \/ Goto \/ Back \/ \E step \in {-1, 1} : Move(step)
          \/ HandleChar \/ HandleBackspace \/ EnterJobDetail \/ EnterField \/ SubmitJob
    \/ Quit

----------------------------------------------------------------------------
(* converge run *)

\* The template must be one of the packs and the seeds must parse; an error of the
\* program itself exits with 1 in every mode.
RunJob ==
    \E template \in Text, seeds \in Seeds, quiet \in BOOLEAN, o \in Outcome({"seed"}) :
        exit' = IF template \notin Packs \/ seeds = "garbage" THEN 1
                ELSE IF o.ok THEN (IF quiet /\ ~o.converged THEN 2 ELSE 0)
                ELSE IF quiet /\ o.error = "other" THEN 3 ELSE 1

----------------------------------------------------------------------------
(* converge eval run *)

\* A directory with some of the fixtures; those that do not parse are left out.
LoadFixtures(dir) ==
    SetToSortSeq({f \in dir : f.parses}, LAMBDA f, g : f.id < g.id)

\* The keys run_eval knows by name.
KnownKeys == {"Seeds", "Signals", "Competitors", "Strategies", "Evaluations", "Hypotheses", "Constraints"}

\* What an expectation of a fixture means for the outcome of its run.
Meets(e, o, latency) ==
    CASE e.kind = "converged" -> o.converged = e.is
      [] e.kind = "max_cycles" -> o.cycles <= e.is
      [] e.kind = "min_facts" -> Cardinality(o.facts) >= e.is
      [] e.kind \in {"min_strategies", "min_evaluations"} -> e.is = 0
      [] e.kind = "max_latency_ms" -> latency <= e.is
      [] e.kind = "must_contain" -> e.is \in o.facts
      [] e.kind = "must_not_contain" -> e.is \notin o.facts
      [] e.kind = "required_key" -> e.is = "Seeds" /\ o.facts # {}

\* A key it does not know is no check.
RunEval(f, o, latency) ==
    /\ o.ok
    /\ \A e \in f.expects : (e.kind = "required_key" /\ e.is \notin KnownKeys) \/ Meets(e, o, latency)

RunNext ==
    /\ todo # <<>>
    /\ \E o \in Outcome(Head(todo).seeds), latency \in 0..1 :
        results' = results \cup {[fixture |-> Head(todo), outcome |-> o, latency |-> latency,
                                  passed |-> RunEval(Head(todo), o, latency)]}
    /\ todo' = Tail(todo)
    /\ UNCHANGED exit

\* Nothing to run is no failure.
PrintResults ==
    /\ todo = <<>>
    /\ exit' = IF \A r \in results : r.passed THEN 0 ELSE 1
    /\ UNCHANGED evaluation

----------------------------------------------------------------------------

AppInit ==
    /\ Init
    /\ program \in {"embedding", "tui", "run", "eval"}
    /\ view = "Jobs" /\ crumbs = <<Crumb("Jobs", 0)>> /\ jobs = <<>> /\ cache = {}
    /\ detail = 0 /\ context = 0 /\ form = NewForm
    /\ selected = [v \in Lists |-> IF v = "Jobs" THEN None ELSE 0]
    /\ results = {} /\ exit = Running
    /\ \E dir \in SUBSET Fixtures, id \in {f.id : f \in Fixtures} \cup {0} :
        todo = IF program # "eval" THEN <<>>
               ELSE LoadFixtures({f \in dir : id = 0 \/ f.id = id})
    /\ program # "embedding" => ~later

AppNext ==
    /\ exit = Running
    /\ UNCHANGED program
    /\ \/ program = "embedding" /\ Next /\ UNCHANGED <<terminal, evaluation, exit>>
       \/ program = "tui" /\ PressKey /\ UNCHANGED <<evaluation, vars>>
       \/ program = "run" /\ RunJob /\ UNCHANGED <<terminal, evaluation, vars>>
       \/ program = "eval" /\ (RunNext \/ PrintResults) /\ UNCHANGED <<terminal, vars>>

AppSpec == AppInit /\ [][AppNext]_appVars

----------------------------------------------------------------------------
(* Properties *)

\* The context view has the facts of the job whose details were opened or submitted
\* last (enter_job_detail, submit_job), unless that job failed and has none kept.
ContextIsOfDetail == detail \in cache => context = detail
=============================================================================
