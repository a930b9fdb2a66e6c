------------------------------ MODULE EventLog ------------------------------
(***************************************************************************)
(* The event log as an app's routes use it (api-server/src/main.rs): events   *)
(* are appended for an org and an app, and queried in a table                 *)
(* (local/event.rs) or in Firestore, where they lie under orgs/.../apps/...   *)
(* /events (remote/event.rs).  Synchronisation is in EventSync.               *)
(***************************************************************************)
EXTENDS Ordering, Sequences

CONSTANTS
    Org, App, Type,     \* org and app ids and event types
    Unset,              \* what is not asked for, or not given
    MaxEvents           \* bound: events appended

ASSUME EventLogAssumption == Unset \notin Org \cup App \cup Type /\ "" \notin Org /\ MaxEvents \in Nat

VARIABLE log            \* the stored events, as they were appended

NoEvents == <<>>

\* append_event: the org of the request, or that of the token, or none.  Ids are random, and
\* requests that overlap may be late with the time at which they came.
AppendEvent(org, claim, app, type, local_dev) ==
    LET org_id == IF org # Unset THEN org ELSE IF claim # Unset THEN claim ELSE "" IN
    /\ Len(log) < MaxEvents
    /\ \/ /\ local_dev \/ org_id # ""
          /\ \E id \in 1..MaxEvents \ {log[i].id : i \in DOMAIN log}, at \in 1..MaxEvents :
                log' = Append(log, [id |-> id, at |-> at, org |-> org_id, app |-> app, type |-> type])
       \/ ~local_dev /\ UNCHANGED log     \* refused, failed

EventQuery ==
    [org : Org \cup {Unset}, app : App \cup {Unset}, type : Type \cup {Unset}, since : 0..MaxEvents,
     limit : 1..MaxEvents]

Asked(i, q) ==
    /\ q.org \in {Unset, log[i].org} /\ q.app \in {Unset, log[i].app} /\ q.type \in {Unset, log[i].type}
    /\ log[i].at > q.since

\* The table is in the order of ids.
ById(events) == Ordered(events, {p \in events \X events : log[p[1]].id < log[p[2]].id})

OldestFirst(rows) == StableSort(rows, LAMBDA i, j : log[i].at < log[j].at)

\* Mutant: the rows are cut before they are sorted.
EventsCutFirst(q) == OldestFirst(Truncated(ById({i \in DOMAIN log : Asked(i, q)}), q.limit))

\* query_inner
QueryEvents(q) == Truncated(OldestFirst(ById({i \in DOMAIN log : Asked(i, q)})), q.limit)

\* The query is sent to the app's collection, to all collections of events, or, for an app
\* without an org, to one that does not exist; and with filters on the fields org_id and
\* app_id, which append does not write.  The order is by names, which are random.
RunEventQuery(q) ==
    LET scope == IF q.app = Unset THEN DOMAIN log
                 ELSE IF q.org # Unset THEN {i \in DOMAIN log : log[i].org = q.org /\ log[i].app = q.app}
                 ELSE {}
        found == {i \in scope : q.org = Unset /\ q.app = Unset /\ q.type \in {Unset, log[i].type}
                                  /\ log[i].at > q.since}
    IN  {s \in SUBSET found : Cardinality(s) = IF Cardinality(found) > q.limit THEN q.limit ELSE Cardinality(found)}

----------------------------------------------------------------------------
(* Properties *)

\* What a caller may find for a query: the answers that are possible.
Answers(q, local_dev) ==
    IF local_dev THEN {{QueryEvents(q)[k] : k \in DOMAIN QueryEvents(q)}} ELSE RunEventQuery(q)

\* "append_then_query_returns_event", event.rs:41 of the storage contract, and "an explicit
\* filter is harmless", remote/event.rs:97: who asks for the events of an org and an app
\* is given every one that was appended.
AppendedIsFound(local_dev) == \A i \in DOMAIN log :
    LET q == [org |-> log[i].org, app |-> log[i].app, type |-> Unset, since |-> 0, limit |-> MaxEvents] IN
    log[i].org # "" => \A answer \in Answers(q, local_dev) : i \in answer

\* An answer has nothing but what was asked for, and as much as there is of it; of a table
\* it is the oldest, the oldest first.  In Firestore it is so for a query without org and app.
EventsAnswered(local_dev) == \A q \in EventQuery :
    local_dev \/ (q.org = Unset /\ q.app = Unset) => \A answer \in Answers(q, local_dev) :
        LET asked == {i \in DOMAIN log : Asked(i, q)} IN
        /\ answer \subseteq asked
        /\ answer # asked => Cardinality(answer) = q.limit
        /\ local_dev =>
            /\ \A i \in answer, j \in asked \ answer : log[i].at <= log[j].at
            /\ \A k, l \in DOMAIN QueryEvents(q) :
                   k < l => log[QueryEvents(q)[k]].at <= log[QueryEvents(q)[l]].at
=============================================================================
