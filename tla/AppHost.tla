------------------------------- MODULE AppHost -------------------------------
(***************************************************************************)
(* A host of an app (runway-app-host, api-server): it opens its storage,      *)
(* initialises the app's modules one by one, and serves requests behind auth's *)
(* layer.  LOCAL_DEV chooses both: a local host has local storage and lets     *)
(* the token "dev" in, another has remote storage and the provider's tokens.  *)
(* What a protected route does is the app's: here its handler makes one call  *)
(* of one of the stores, or appends an event.                                 *)
(***************************************************************************)
EXTENDS ObjectStore, VectorStore, DocumentStore, EventLog, Auth

CONSTANT Modules    \* how many modules the app mounts

ASSUME HostAssumption == Modules \in Nat /\ Caller = Request /\ Loader = Request

VARIABLES
    local_dev,  \* HostConfig::local_dev
    domain,     \* which store the app uses, or "none"
    booted      \* how many modules are initialised; -1: not running

storeVars == <<objectVars, vectorVars, documentVars, log>>
hostVars == <<local_dev, domain, booted, storeVars, authVars>>

Stores == {"objects", "vectors", "documents", "events"}

HostInit ==
    /\ ObjectInit /\ VectorInit /\ DocumentInit /\ log = NoEvents /\ AuthInit
    /\ local_dev \in BOOLEAN
    /\ domain \in IF local_dev THEN Stores ELSE Stores \cup {"none"}
    /\ domain # "none" => published = Kid
    /\ booted = -1

Serving == booted = Modules

\* StorageKit::local or ::remote; what is stored is as it was.
OpenStorage == booted = -1 /\ booted' = 0

\* The first module that fails ends the process.
InitModule == booted \in 0..(Modules - 1) /\ booted' \in {booted + 1, -1}

Busy(r) == call[r] # Idle \/ batch[r] # NoBatch

\* A handler is at work for one who was let in.
ObjectCall(r) == domain = "objects" /\ IF local_dev THEN LocalStep(r) ELSE RemoteStep(r)

VectorCall(r) ==
    /\ domain = "vectors"
    /\ \/ \E ns \in Namespace, items \in Batches : Embed(r, ns, items)
       \/ UpsertFails(r)
       \/ local_dev /\ (Upsert(r) \/ (batch[r] = NoBatch /\ \E ns \in Namespace, i \in Id : Remove(ns, i)))
       \/ ~local_dev /\ (UpsertDatapoint(r) \/ (batch[r] = NoBatch /\ \E i \in Id : RemoveDatapoint(i)))

DocumentCall ==
    /\ domain = "documents"
    /\ \/ \E p \in Puts : IF local_dev THEN PutRow(p[1], p[2]) ELSE PatchDocument(p[1], p[2])
       \/ \E d \in Doc : IF local_dev THEN DeleteRow(d) ELSE DeleteDocument(d)

EventCall ==
    /\ domain = "events"
    /\ \E org, claim \in Org \cup {Unset}, app \in App, type \in Type :
          AppendEvent(org, claim, app, type, local_dev)

Handle(r) ==
    /\ req[r].at = "admitted"
    /\ \/ ObjectCall(r) /\ UNCHANGED <<vectorVars, documentVars, log>>
       \/ VectorCall(r) /\ UNCHANGED <<objectVars, documentVars, log>>
       \/ DocumentCall /\ UNCHANGED <<objectVars, vectorVars, log>>
       \/ EventCall /\ UNCHANGED <<objectVars, vectorVars, documentVars>>

Answer(r) ==
    /\ req[r].at = "admitted" /\ ~Busy(r)
    /\ req' = [req EXCEPT ![r] = NoRequest]

\* The process dies, and with it its requests and the cached keys.
Crash ==
    /\ booted # -1 /\ booted' = -1
    /\ CallersDie
    /\ batch' = [l \in Loader |-> NoBatch] /\ UNCHANGED <<table, index, documentVars, log>>
    /\ req' = [r \in Request |-> NoRequest] /\ cache' = NoCache /\ lock' = Free
    /\ UnchangedKeys

\* As a bound, the keys and the clock change only for an app that stores nothing.
Outside ==
    /\ domain = "none" /\ (Tick \/ \E k \in Kid : Rotate(k))
    /\ UNCHANGED <<booted, storeVars>>

HostNext ==
    /\ UNCHANGED <<local_dev, domain>>
    /\ \/ (OpenStorage \/ InitModule) /\ UNCHANGED <<storeVars, authVars>>
       \/ /\ Serving /\ UNCHANGED booted
          /\ \E r \in Request :
               \/ (Arrive(r, local_dev) \/ Verify(r)) /\ UNCHANGED storeVars
               \/ Handle(r) /\ UNCHANGED authVars
               \/ Answer(r) /\ UNCHANGED <<now, published, gone, cache, lock, storeVars>>
       \/ Crash \/ Outside

HostSpec == HostInit /\ [][HostNext]_hostVars

----------------------------------------------------------------------------
(* Properties *)

\* What a store is asked for it answers from what it holds, while requests of others go on
\* and after a restart: a search of vectors, a query of documents and one of events.
StoresAnswer ==
    CASE domain = "vectors" -> local_dev => SearchesNamespace
      [] domain = "documents" -> IF local_dev THEN TableAnswers ELSE FirestoreAnswers
      [] domain = "events" -> EventsAnswered(local_dev)
      [] OTHER -> TRUE

\* Whoever asks for the events of an org and an app finds what was appended.
AppendedEventsAreFound == AppendedIsFound(local_dev)
=============================================================================
