# TLA+ models of runtime-runway

Runtime Runway is a Rust workspace: storage kits with an offline-to-cloud sync,
an application host with a realtime event hub and an auth layer, an account and
billing service, a reasoning-kernel server around local language models with
adapters, recall and a decision chain, and a terminal application. This
directory holds TLA+ specifications of them, the TLC configurations that check
the specifications on small instances, and TLAPS proofs of safety properties.

`PROJECT.json` is the index: components, runs, the source lines each definition
stands for, hazards, findings, theorems, and for each checked property a
*mutant*: an operator in the module (`PushFailedAcked`, `CachedForever`, ...)
that replaces the definition next to it the way a plausible bug would, and with
which TLC must find the property violated.

## The system

| Component | State it keeps | Operations | Hard part |
|---|---|---|---|
| Event log and push sync (`runway-storage/local/{event,sync}.rs`, `remote/event.rs`) | redb tables EVENTS and UNSYNCED; the remote log | `append`, `query`, `query_unsynced`, `mark_synced`, `push_events` | lost answers, crashes before marking, overlapping cycles; two backends that must answer alike |
| Document store and pull sync (`local/{document,sync}.rs`, `remote/document.rs`) | documents on both sides, `sync/checkpoint.json` | `put`, `delete`, `query`, `pull_documents` | writes that race a pull, half-done pulls; filters, order and limits over values of mixed kinds |
| Object and vector stores (`local/{object,vector}.rs`, `remote/...`, `embedding/`) | files and temporary files, a bucket; a table of vectors, an index | `put`, `get`, `delete`, `list`; `upsert`, `upsert_batch`, `search`, `delete` | a process that dies between write and rename, lists while others put, ranges built from strings |
| Realtime hub (`runway-app-host/{realtime,approvals,sse}.rs`) | replay buffer, broadcast channel | `publish`, `subscribe_with_cursor`, approve, reject | two-step publish, eviction, lag, cursors |
| Authentication (`runway-auth`) | the provider's keys, cached | `verify`, the layer's `call` | requests that queue on a write lock, keys that are withdrawn meanwhile, late answers |
| Host, API server (`runway-app-host`, `api-server`) | storage kit, modules | boot; routes over the stores | dying and starting again between any two steps of requests |
| Kernel server and engine (`llm/server/service.rs`, `engine.rs`) | one engine behind a mutex: adapter, life cycle, weights, saved copy | `run_kernel`, `stream_generate`, `load_adapter`, `detach_adapter` | multi-step load and detach that fail or panic, streams with back-pressure |
| Decision chain and kernel (`llm/{chain,kernel,execution_plan,prompt,validation,trace}.rs`) | the state handed from step to step | compile a plan, three steps, propose | texts that validator and chain read differently, entries that replace each other, what may be called replayable |
| The kernel from afar (`llm/server/{convert,streaming,health}.rs`, `grpc_backend.rs`, `bin/server.rs`) | server and connection | start, connect, call, stream | conversions of numbers and nested objects, missing parts, refused calls |
| Generation (`llm/{inference,gemma,tokenizer,model}.rs`) | the tokens so far | four generation paths | characters and stop sequences split over tokens, sampling at boundaries |
| Adapter registry and records (`llm/{adapter,adapter_registry,storage_registry,lora_merge}.rs`) | a directory per adapter, governance records | `save`, `load`, `delete`, `sync_adapter`; transitions, rollback; merge plans | files written one by one, layers in the order of a hash map |
| Recall (`llm/recall`) | a corpus in memory and in a JSONL file, its fingerprint | `open`, `add_record`, `recall`, `recall_with_policy`, embedder checks | an append cut in its line, a stale fingerprint, ties |
| Suggestors and the application (`llm/{agent,provider}.rs`, `application`) | the engine's context; the terminal's views, lists, breadcrumb and form | accept and execute in each cycle; keys; `run`, `eval` | asking again, silencing each other; views set by different keys |
| Accounts and billing (`runway-accounts`) | four document collections; token claims at the identity provider | `get_me`, invites, members, checkout, webhooks, minting | read-then-overwrite without transactions, webhooks in any order |
| Secrets, middleware, telemetry, deployment | none | wiring | |

They interact through the storage kit (accounts, API server and sync all use a
`StorageKit`), through the hub (modules and approval routes publish, clients
subscribe), through token claims (accounts mints what the middleware reads), and
through the engine (server, chain and suggestors prompt it; adapters change it).
Correctness means: nothing is dropped from the queue before the cloud has it;
the stores keep and find what they are given; a client that stays or comes back
gets its events; the engine computes with the model it reports; a proposal tells
what happened and how far it can be replayed; recall answers with the best of
its corpus and says so; and accounts, orgs, members, invites, tokens and the plan
mirror stay consistent although each is written on its own.

## Modules

| Module | Models | Proofs |
|---|---|---|
| `ReliableLog` | what the push sync promises: accept once, deliver at least once and unchanged, confirm only what was delivered | |
| `EventSync` | the push half of `SyncEngine` over both event logs | `DeliveryProofs` |
| `DocumentSync` | the pull half | `DeliveryProofs` |
| `EventHub` | the hub, with approvals | `DeliveryProofs` |
| `KernelService` | the gRPC handlers and the engine's adapter life cycle | `KernelServiceProofs` |
| `Accounts` | account, invite, member and billing handlers, the provider and mint tasks | `AccountsProofs` |
| `AdapterRegistry` | the registries, governance records, merge plans | `LlmProofs` |
| `Validation`, `Prompt` | output contracts and their checks; states, hints and rendering | |
| `DecisionChain` | the kernel: plan, three steps, proposal (extends both) | `DecisionChainProofs` |
| `KernelRpc` | server, wire and clients around it (extends `DecisionChain`) | `DecisionChainProofs` |
| `Generation` | one engine generating text, on four paths | `AgentProofs` |
| `Embedder`, `RecallStore`, `Recall` | embedders and their checks; the corpus and its file; queries (each extends the one before) | `LlmProofs` |
| `Suggestors`, `Application` | suggestors in an engine's run; terminal and commands (extends it) | `AgentProofs` |
| `ObjectStore`, `VectorStore`, `DocumentStore`, `EventLog`, `Auth` | the stores as an app uses them, and the auth layer | `AppHostProofs` (all of them in `AppHost`) |
| `Ordering` | the library's stable sorts, its filters and what a limit leaves of a list, as the modules use them | `OrderingProofs` |
| `KeyRange` | the order of the local tables' string keys and the ranges they are read by (extended by `VectorStore` and `DocumentStore`) | `AppHostProofs` |
| `AppHost` | the composition of those five: a host that starts, serves and dies | |

A module of theorems about several components names them together, so `DocumentSync`
says `PullInit`, `PullNext`, `PullSpec` for the formulas that are `Init`, `Next` and
`Spec` elsewhere, and likewise `HubInit` (`EventHub`), `RegistryInit`
(`AdapterRegistry`) and `GenInit` (`Generation`). `MC<Module>` gives a small instance; `MC*.cfg` are the runs. `MCSuggestors` holds
the suggestors of `MCApplication`.

### EventSync
`events`, `syncedAt` and `unsynced` are the two redb tables (the record's
`synced_at` is kept apart from its body), `remote` the cloud log. A redb
transaction is one step; each remote request is one step with three outcomes
(`PushOk`, `PushAnswerLost`, `PushFailed`), and `Crash` may fall between any
two. `sync` takes `&self`, so `Cycle` has two members: one called on connect,
one by the timer. A remote append is a PATCH and overwrites; that this never
changes a record is proved (`RemoteNeverChanges`), not assumed.
`ImplementsReliableLog` is the refinement: accepted = EVENTS, delivered = remote
log, confirmed = what has left the queue.

### DocumentSync
Time is the number of remote writes, and the time of a document's last write
stands for both its `updated_at` and its content. `Backend` chooses the query's
meaning: redb compares the document's `updated_at`; Firestore compares a field
`updated_at` of the data, which `put` never writes. The run and the theorems are
about redb. `sync` takes `&self` and no lock, so each `Caller` (one on connect, one
periodic) has a cycle of its own, with the checkpoint it loaded (`since`), the
collection it is at, its batch and the time it will save; they interleave at every
request and every put. Two history variables: `raced`, the documents last written
after a running cycle had queried their collection, and `overlapped`, the running
cycles that ran together with another one. A failed call and a crash are both
`Abort`. In `sync` a pull runs after a push that returned without error; the
pull half therefore starts at any time, and its liveness also needs the push not
to fail for ever.

### EventHub
`publish` is two steps, `Buffer` under the lock and `Send` after it;
`subscribe_with_cursor` is `Attach` and `Snapshot`. `sent` is everything sent,
`pos` a receiver's place in it, and a receiver more than `Ring` behind gets a lag
error (`Lagged`). A module numbers its events and buffers them in that order;
approvals carry 0. `gone` and `lagged` are history: what had been evicted before
a client's snapshot and what lag made it skip. A client keeps its filter: one that
comes back asks for what it asked before, so that what it consumed stands for what
it wants (`Attach`). `subscribe` without a cursor,
which the SSE route uses, is no action: it has no catch-up to check.

### KernelService
Weights are the sequence of adapters merged into the base model. `Lock` takes
the engine mutex; a load is `BeginLoad`, `CheckAdapter`, `SaveWeights`, `Merge`,
each with its failure; `Rejected`, `Unmatched` and `Malformed` are the adapters
that fail the checks, match no tensor, or make the tensor library panic, in
which case the guard is dropped by unwinding and nothing is rolled back. A
detach is `BeginDetach` and `Restore`. A chain is up to three `ChainStep`s under
one lock. A stream computes its answer and sends it through a bounded channel
with the lock held; the client reads or hangs up at any time.

### DecisionChain, over Validation and Prompt, and KernelRpc around it
A text of the model is a sequence of words of the kinds that either the
validator or the chain looks for, so that a text both read differently (a number
before the score, a list marker, a percentage, a "therefore") is one of the
model's answers. `Begin` compiles the plan and the initial state: `Inject` opens an
object level by level, down to `MaxDepth` of them, and puts its entries under
longer keys (`Leaves`); each step
prompts (`Render`: what was asked, the state that is shown, in any order of the hash
maps), judges the answer against
its contract, makes its trace and merges its signals (of a reasoning step the
conclusion is the rest of the first CONCLUSION line, and nothing when that is empty,
though the conclusion may stand on the next line); `BuildProposal` fills the
proposal, its replayability and its trace link. `before` keeps the request before
with its outcome, for `ReplayGivenOrder`. `Judge` is any other caller of the
validator. `KernelRpc` extends this with the server (`loading`, `ready`,
`serving`, `exited`), a connection, values on the wire and one call or stream at
a time; a remote call runs the chain above. How calls share the engine is
`KernelService`'s.

### Generation
The logits are any of a set of functions, a probability is a power of two and
quotients are rounded down, so that comparisons at the boundaries of top-k,
nucleus and seed happen exactly. A text is a sequence of bytes; one token is
half of a character. `GenSpec` is one engine used by one call after another on any
of the four paths: the reference engine's two, Gemma's and Llama's. Burn's own
generator is outside the repository, so the Llama path returns any of the texts
`Said`; before that it checks the parameters and the adapter of the envelope
(`ValidAdapter`), and after it counts the tokens and nothing else.

### AdapterRegistry
A directory holds a manifest, absent, torn or whole, and a weights file that may
stop inside a layer. `save` is one step per file operation, any of which may stop
the call or the process. A delete removes the files one by one, in either order, and
may stop after any of them (`CutDelete`), which `halved` remembers until a delete of
the adapter ends. Loads, deletes and syncs of other callers come between.
A merge plan takes layers in the order of a hash map. The governance record and
its trail are a sequential part of the same module.

### Embedder, RecallStore, Recall
The corpus is what is in memory and what is in the JSONL file: text, newline or
a torn piece. `add_record` is four steps of a thread: outside the lock it opens
and writes, under the lock it pushes; writes fail or stop half way, `Stop` and
`Open` (with any embedder) follow. A query changes nothing: it is an operator,
and the properties ask every question in every state without an add. Vectors are
small integer vectors and a cosine is compared by its signed square in
hundredths.

### Suggestors and Application
`Suggestors` is an engine's run: in each cycle the suggestors that accept are
executed on what the context holds, and what they propose is decided in that
cycle or left pending (`later`). An id is the sequence of its pieces, so that a
prefix and a dash inside an id are found wherever the code's substring test finds
them (`Includes`, `Dashed`). `Application` has four programs: an embedding
one that runs `Suggestors`, the terminal with one action per key and view, and
the two commands. A state of the terminal is one that was drawn, since it reads
one key and then draws.

### ObjectStore, VectorStore, DocumentStore, EventLog, Auth in AppHost
Each store module has the local and the remote implementation of one trait: in
`ObjectStore` a local call is one system call a step, so puts, walks and deletes
of two callers and a dying process interleave. A list takes the prefix for a
directory, is empty when there is none, and gets that directory entry by entry and
then those inside it (`ReadDir`, `NextEntry`, `LastEntry`); what is put meanwhile may
be given or not. `VectorStore` embeds a batch and then stores it one by one; a search
reads the key range from `(ns, "")` to `(ns, "\u{10ffff}")` of a table of all
namespaces (`InRange`), sorts it by score and truncates it. `DocumentStore` (the same
range of collections and ids, filters, order, limit) and `EventLog` state what a query
returns on either side. `Auth` is `FirebaseTokenVerifier` with its key cache: read the
cache, wait for the write lock, fetch, keep. `AppHost` composes them: a host
picks local or remote by `LOCAL_DEV`, starts its modules, lets two requests
through the auth layer, whose handlers then use the store, and may die at any
step.

### Accounts
Each handler is a job whose label says which `await` it is at; every store call
is one step that reads or overwrites one document, as the code does. A failure
or a crash (`Fail`) drops a job between two steps. `mints` are spawned mint
tasks, which finish in any order. The provider keeps the events of each payer in
a set, delivered in any order and again if the answer was lost; the code answers
200 even when it could not use one. The customer in an org
document is the payer who linked last, `sub` the payer whose subscription the plan is
of. `joined` and `linkers` are history: who was admitted to an org, and who linked a
payment to it. Plan contents are abstracted to the number of the subscription version. Handlers that only read are not modelled;
`create_invite` and `remove_member` read only what never changes (an org's owner)
and then write one document, so they are one step. A caller can address the orgs
it has seen: the one of its account and the one in its token.

## Runs

Every passing run is exhaustive for its bounds.

| Run | Result | What it shows |
|---|---|---|
| `event_sync` | pass, 28 000 states | nothing is synced that the cloud lacks, the tables agree, `ReliableLog` is implemented, the queue empties |
| `document_sync` | pass, 107 000 | only raced writes are lost, a copy regresses only by overlapping cycles, updates arrive |
| `event_hub` | pass, 141 000 | no event falls between snapshot and stream, catch-up is complete, each event or a lag error; clients with two filters |
| `kernel_service` | pass, 101 000 | weights match the reported adapter, a chain sees one model, every call is answered |
| `accounts` | pass, 680 000 | owners stay admins, membership is earned, plan and customer of a paid org are of payers who linked themselves |
| `adapters` | pass, 1 084 000 | a synced adapter loads whole unless a save or a delete of it was cut, equal layers merge alike, the trail explains the state |
| `decision_chain` | pass, 110 000 | the proposal tells what happened, planning knows what was said, replay given the order, checks are announced, remote like local, tool calls found |
| `recall_store` | pass, 75 000 | acknowledged records survive, answers are the best, auditable, and fixed by their provenance |
| `generation` | pass, 4 300 | stop sequences end the text of the two paths that look for them, what was streamed is what is returned, samples are likely |
| `application` | pass, 927 000 | every suggestor answers once and llm and provider suggestors are silenced only by their own answer, the context view is that of the shown job |
| `app_host` | pass, 1 364 000 | values are whole, lists complete within the directory of the prefix, queries answered with the best or the first, withdrawn keys expire |
| `event_query` | violation | see Findings |

Several properties exclude a case in which the code does something else; each
exclusion is a known disagreement listed below: `raced` writes in
`MissedOnlyIfRaced`, overlapped cycles with a raced document in `NeverRegresses`,
overlapping publishers (`SentInOrder`) in `CatchUpComplete`,
`failures = 0` in `WeightsMatchAdapter`, cut saves and stopped deletes (`cut`, `halved`)
in the adapter properties, `tainted` keys in `NoPartialReadsAlone`, keys outside the
directory of the prefix (`InDirectory`) in `ListHasAll`, ids past the end of their
range (`PastTheEnd`) in `StoresAnswer`, the order of maps and the first prompt in
`ReplayGivenOrder`, an empty conclusion line in `PlanningKnowsWhatWasSaid`,
payers in `OwnerIsAdmin`, `fresh` providers in `ProvenanceFixesAnswer`, the streaming
and the Llama path in `StopSequencesEndTheText`, and in `EachAnswersOnce` suggestors
whose prefix another's ids hold (`NameApart`, `OwnPrefix`).

### Bounds
Two cycles, publishers, clients, callers, threads or handlers are enough for each
race here, since each is between one step and one that overtakes it; the proofs
lift the bound where they exist.

* `event_sync`: 2 local and 1 cloud event, 2 bodies; `MaxCrashes` = 2 crashes a
  cycle and its retry.
* `document_sync`: `MaxWrites` = 2, for each overtaking is of one write by another;
  two callers, of whom one is periodic.
* `event_hub`: 4 events, of which one an approval, and clients that want all or some; `Capacity` and `Ring` of 2
  make eviction and lag happen.
* `kernel_service`: an adapter of every kind, `MaxFailures` = 1 failed
  restoration, `Chunks` = `Buffer` = 1 fills the channel.
* `accounts`: 3 users, 2 orgs, 1 invite, 1 mint task in flight (one more fails at
  once, as a mint task may at any time), 2 payers with 1 subscription version each.
  `MCApart` is a constraint: in a behaviour either orgs are shared by invites and
  nobody pays, or one pays and nobody is invited, or two payers share an org, who
  were invited one step after the other and pay at the same time. Where one pays and
  there are two orgs, a payment fails only after the link was used and while no mint
  task is under way. Org ids are drawn at most once each.
* `adapters`: one adapter of two layers, `MaxCuts` = 1 save or delete that is cut.
* `decision_chain`: a handful of texts a step that pass, fail or are read in two
  ways, and all short texts of other callers; `ExactFloat` = 8 stands for 2^53,
  `MaxDepth` is deeper than any context of the run;
  a request is made at most twice; one call or stream at a time.
* `recall_store`: two records, `MaxPieces` = 4 pieces in the file, embedders that
  share a name but no dimension.
* `generation`: contexts of 4 tokens, calls of up to 3 new ones, `Grain` = 4
  draws of a seed.
* `application`: `MaxJobs` = 2 and `MaxCalls` = 3, two packs, four fixtures; six
  suggestors, of all four kinds, one whose name begins with another's and one whose
  name ends with another's.
* `app_host`: two keys, one of them in a directory, whose name and the beginning of
  whose name are prefixes; pages of 1. One caller lists at a time, and the local list
  only until two puts have met in a temporary file. Two namespaces, one the
  beginning of the other; 3 ids and 4 documents, of each one past the end of the range;
  values of three kinds, `MaxWrites` = 3, 2 events; `Ttl` = 2, `Delay` = 1 and `MaxTime` = 4 let a key be fetched,
  withdrawn and expire. An app uses one store, and keys rotate and the clock runs
  only for the app that uses none: auth reads nothing the stores write.

Symmetry is used only in runs without temporal properties, over requests,
threads, orgs, handlers and callers, none of which the specifications compare.
Deadlock is not checked where a program ends or the input is used up
(`decision_chain`, `application`).

## Fairness

* `EventSync`, `DocumentSync`: `sync` is called periodically (weak fairness of
  starting a cycle and of its local steps, for the periodic callers only); a request or transaction that is
  tried again and again succeeds some time (strong fairness of `PushOk`,
  `MarkSynced` and the pull's steps), which is what retrying every 30 s hopes
  for. Crashes are bounded.
* `EventHub`: a publisher that buffered goes on to send, since no await lies in
  between; a connected client keeps reading.
* `KernelService`: threads run on; tokio's mutex queues its waiters (strong
  fairness of `Lock`); a client reads its stream or hangs up. Without the last
  one stalled stream blocks all calls, because the sender holds the mutex.
* The other modules have no liveness property: nothing in their code promises a
  retry, and a provider event, mint task or request may be lost.

## Proofs

Each proof gives an inductive invariant `IInv`, shows that `Init` implies it and
each action preserves it, and derives the properties. The only assumptions are
the named `ASSUME`s of the modules: they type the constants and keep `None`-like
values apart from the rest.

* `DeliveryProofs`, for `EventSync`: `Invariance`, `SyncedEventsAreRemote`, `QueueMatchesRecords`,
  `RemoteNeverChanges`, `Refinement`. That the queue holds everything the remote
  lacks is not inductive alone: a marking cycle may only remove what the remote
  holds (`AckedIsRemote`), which needs every batch to be a copy of local records
  (`BatchIsLocal`) and the remote copy to be the local body (`RemoteIsLocal`);
  the last also gives `RemoteNeverChanges` and the refinement.
* `DeliveryProofs`, for `DocumentSync`: `OnlyRacedUpdatesAreLost` and `CopiesNeverRegress`, for the
  redb backend and any number of overlapping cycles. For the first (`PullInv`), a
  document that is not up to date changed after the checkpoint and after every time
  that a running cycle began with or will save (`BehindIsAhead`); what a cycle has
  queried is up to date or in its batch (`QueriedIsHandled`), and a batch of a
  document that was not raced is of its last write (`BatchIsFresh`). For the second
  (`CopyInv`), a cycle that is not marked runs alone (`RunsAlone`) and holds nothing
  older than the local copies (`AloneIsNewer`); of a document that was not raced all
  batches hold the same version (`BatchesAgree`); nothing is newer than the remote
  (`CloudIsLatest`).
* `AccountsProofs`: `OwnersStayAdmins`, `MembersEarnedIt`, `PaidOrgsStayLinked`
  (`Invariance`). Documents are overwritten one by one, so the invariant says what
  each job may rely on at its `await` (`MayRely`): the org it is about to overwrite
  has the owner of its copy, and the copy, if it has a plan, names a subscription and a
  customer of payers who linked themselves to this org (`LinkedDoc`, `OrgsAreLinked`);
  the user it makes a token for has joined. An owner is seated only two awaits after its org was
  written; until then nobody else knows that org (`Unknown`, `MadeUnseen`), and an
  org that anybody knows has its owner seated (`KnownIsSeated`). Two handlers never
  make the same org (`CreatorsAreApart`). An action that writes one document keeps
  the rest (`WriteKeeps`), one that only moves a job keeps all documents
  (`JobMoves`), and each action is one of them with a fact or two of its own.
* `DeliveryProofs`, for `EventHub`: `NoEventMissed`. Everything published is buffered or evicted
  and no receiver is past the end of the channel, so what a snapshot does not
  contain is still to be sent or was sent after the attach. `CatchUpMissesNothing`
  needs more (`CatchUp`): everything numbered up to the last sequence a client
  consumed, and everything sent before its place in the channel, is settled, that is
  consumed, evicted, skipped by lag or overtaken. A publisher whose event was
  overtaken breaks `SentInOrder` when it sends, and then nothing is claimed.
* `KernelServiceProofs`: `EngineReportsItsWeights`, `ChainsSeeOneModel`. Mutual
  exclusion, the life cycle that belongs to each label, and that the saved copy
  is the base model whenever an adapter is attached and nothing failed.
* `AppHostProofs`, for the whole composition: `KeysExpire`, `ReadsAreNotPartial`,
  `ListsAreComplete`, `RequestsAreAnswered`. For the first, every place that holds keys is dated: an answer
  under way (`AnswerIsDated`), the cache (`CacheIsDated`) and a request let in
  (`AdmittedIsDated`) name only keys that were published at their date or withdrawn
  since (`Since`), and an answer is under way at most `Delay`; the steps of the
  stores change none of it. For the objects (`ObjectInv`): two puts in one temporary
  file at once are both marked as crossed (`MeetMarked`), one that is not marked has
  written there exactly what it has written so far, in order (`WritesAlone`,
  `PartsInOrder`), and a key that no marked put ever stored is whole (`CleanKey`). A
  key in the directory of the prefix that was there all along has been given, or is
  among the entries still to come, or is in a directory that is one of these or that
  is still to be read (`WalkSees`).
  For what the other stores answer (`RequestsAreAnswered`) the state need only be
  typed (`HeldInv`); the rest is about queries. The order of JSON values is one
  order although each kind has its own: a third value comes after the lesser or
  before the greater of two (`ComparedThird`), since the texts of the other kinds
  lie on one side of all strings, of all numbers, and of both booleans
  (`JsonAssumption`: what JSON text is like, of the values that are put). Two numbers
  that floating point does not tell apart, which the code calls equal in order, and
  NaN, with which it says its order is not total (`local/document.rs:242`), are
  outside the model. So the sort is one of rows
  (`AfterOrders`, `SortedIs`), and the first of a list that the limit allows are as
  many as there should be (`FirstIs`). What a range of the table holds is, of its own
  namespace or collection, all whose id is not past the end, and of no other
  (`KeyRange`'s order is that of code points); sorting it and truncating it leaves
  the best vectors, the first documents, the oldest events.
* `LlmProofs`, for `AdapterRegistry`: `SyncedIsUsable`, `LoadsTakeAllLayers`,
  `TrailIsComplete`, `MergesReplay`.
  Of an adapter none of whose saves was cut and none of whose deletes stopped
  (`Uncut`, which also says what a stopped delete may leave), the weights are there in full
  or not at all unless a save is writing them, and a file that is not as it should
  be is one that a save is about to write, unless a delete is under way. Steps about
  other adapters keep that (`Others`), so each file operation is looked at for its
  own adapter only. The record's part is inductive as it stands, with its types.
  A plan holds an artifact of the layers it names (`PlansMade`); an artifact is
  their deltas sorted by tensor, and of deltas whose tensors differ there is one
  sorted list, so equal layers give equal artifacts (`MergesReplay`).
* `LlmProofs`, for `RecallStore` and `Recall`: `AckedSurvives`, `RecallFindsTheBest`,
  `RecallIsAuditable`, `VerifiedAnswersAgree`, `ProvenanceIsEnough`. `StoreInv` says
  what the file, memory and the adds under way may hold of each other; the theorems
  about answers then speak of any corpus of its types. An answer is the best of the
  wanted records in three cuts (the limit asked for, the policy's, the threshold):
  each keeps a sorted list sorted and drops only what scores no more. Embedders whose
  rankings agree put the places of a corpus in one order, and so do two clamped lists
  of scores. For provenance, equal hashes mean that each record occurs as often in
  both corpora (`Occurs`), and lists that are ordered by one strict order and
  hold each element as often are equal: at the first place where they differ
  (`FirstDifference`) they would have different numbers of elements before it.
* `OrderingProofs`: a finite set numbered by a strict total order (`Ordered`) lists
  each element once, in that order, because as many elements are below an element as
  its place says; hence what a stable sort and a filter return (`SameListing`,
  `SortedOccurs` and the lemmas before them), and that a filter of a list with one
  more element has that element at its end or not at all (`OnlyGrows`). `LlmProofs`,
  `AgentProofs` and `AppHostProofs` cite them.
* `AgentProofs`, for `Suggestors` and `Application`: `AgentsAnswerOnce`,
  `ContextFollowsDetail`. In the first, one call for what
  is promoted is said of every suggestor, and that only its own contribution silences it
  of the llm and provider kinds; the other two kinds stop at any hypothesis or
  constraint. For it (`SuggestInv`), every id begins as the ids of
  its agent do (`IdsAreSpoken`), what is proposed in a cycle comes of one call of each
  agent asked (`EffectsAreAsked`), and an agent that knows its own contributions is
  asked only when it has none (`AskedIsNew`), since what an id begins with leads back
  to its agent (`HeldIsOwn`, `StartOfSpoken`). The second is inductive as it stands.
* `AgentProofs`, for `Generation`: `StopsEndTheText`, `StreamIsReturned`. The first is
  about `generate` of the reference engine and about Gemma's path. While a call
  is under way its text holds no stop sequence (`NoStopYet`); one more token puts one
  there only at its end (`OnlyAtTheEnd`), where `generate` returns, and what is left
  before the first of Gemma's holds none (`CutHoldsNone`). What one token gives the
  callback is what it adds to the characters of one byte in the decoded text
  (`EmittedIs`, `ToldGrows`), although the callback decodes the token by itself and
  the call all of them.
* `DecisionChainProofs`: `ProposalsSpeak`, `DeterministicIsReplayable`,
  `OnlyAnnouncedChecksFail`, `PlanningKnows`. `ChainInv` says that the chain is
  a record of its request: each trace is what its step makes of a prompt and a text,
  and shows the state which the trace before left (`Traced`); between steps the state
  is that one (`PcOK`); the answer is the proposal of the chain (`AnswerOK`), and so
  was the one before (`BeforeOK`). With that a seeded request whose twin went before
  takes the same texts as long as its prompts are the same (`Retraces`): the first
  by assumption, each other because the state it shows follows from the traces so
  far and equal states are rendered alike. For planning, the state between steps is
  what the traces so far merge to (`Carried`).
* `DecisionChainProofs`, for `KernelRpc`: runs of *any* request keep the invariant
  (`ServedChainInvariance`, `ServedProposalsSpeak`), and a call that is accepted is
  such a run (`RpcServes`), so requests that come over gRPC are served as those from
  home (`RpcKeepsTheChain`). What runs is what the caller asked, since the call waits
  as long as it runs (`CallInv`), and its state is the one that the request would have
  had at home (`RemoteRunsLikeLocal`): a JSON value and what both conversions make of
  it have the same leaves at every depth (`AlikeIs`, `LeavesAlike`). `CallsAreFound`
  is about the search for tool calls in a text. Both go by induction on a number, the
  depth and the place in the text, as a least counterexample (`Least`).

Proofs that did not go through showed six things about the models. Replay was
claimed of equal requests as such, but entries of a context can come to one key
(`"a.b"` and `b` inside `a`), and then the order of the map decides which is kept, so
that the first prompts may differ: the property now says so. A catch-up cursor is
only meaningful for a client that keeps its filter. And a context's objects are
opened by folds up to `MaxDepth` instead of by recursion, about which nothing can
be proved. Planning was claimed to get a score
that the validator judged: the chain takes the first number from 0 to 1, the validator
reads one that follows a mention of confidence as something else, so after
`80 confidence 0.90` planning is given a number that was never judged; the property
now names that case, and says that a score is there. A fifth: what a query wants
(`Wanted`) had left out two of the filter's fields, the source and the adapter, which
no record of the run's instance told apart.
And that an agent's name is apart (`NameApart`) had looked at other agents' names,
but what an agent writes may begin with a prefix that is not its name.

Only model-checked:
* all liveness: out of the prover's reach;
* `SampledIsLikely`: sums of weights over finite sets, which are defined by
  recursion over the set.

## Findings

`event_query` ends in a violation of what the repository's text says: an event
appended by a remote host is not found by a query for its org and app, because
the query filters on fields that `append` does not write (`remote/event.rs:98`).

Other disagreements between code and text, or surprises, were met while
modelling. No run is kept for them; the properties that pass are stated so that
they do not claim the contrary.

Sync and hub
* A remote write that races a running pull is never pulled: the checkpoint is a
  time after the queries (`local/sync.rs:120`). Two overlapping pulls can put an older
  answer over a newer copy (`local/sync.rs:54`, `100`). With a Firestore remote no later
  write is pulled, since the field asked for is never stored
  (`remote/document.rs:161`). A remote deletion is never pulled (`local/sync.rs:111`).
* Approvals carry sequence 0 and so are left out of every catch-up
  (`approvals.rs:82`). Two publishers that overlap can send in the order opposite
  to the buffer's; a client that consumed the later sequence and reconnects with
  it never gets the earlier event (`realtime.rs:173`). The SSE route drops a lag
  error silently (`sse.rs:25`).

Stores and auth
* Two overlapping puts of one key, or of keys that differ only in their
  extension, share a temporary file, so a part of a value can be read although
  `local/object.rs:34` says "(no partial reads)". The local list returns
  temporary files, a crash leaves them, and key `a.tmp` is written in place.
* `traits/object.rs:17` says "List all keys with the given prefix."; the local list
  takes the prefix for a directory, and returns nothing when there is none
  (`local/object.rs:70`), so `su` lists no `sub/b`.
* Ids that begin with `\u{10ffff}` and go on are past the end of the range, so that
  neither a search nor a query finds them, although `local/vector.rs:93` and
  `local/document.rs:132` say that every valid id falls within it.
* The bucket's list reads one page and takes an error body for an empty list.
  Remote vectors ignore namespace, text and metadata although
  `traits/vector.rs:17` speaks of a "Vertex AI index namespace"; `upsert_batch`
  stops half way.
* A Firestore document query sends only an equality filter and the `updated_at`
  one; the contract suite asks for and/or, comparisons and order. Integers above
  i64 become floats. A remote append with an empty org has an empty path segment.
* An unknown key id refetches the keys each time, under the write lock, and the
  cache is not looked at again after the wait. `BuiltHost` has no auth layer and
  does not use `route_prefix`.

Kernel and engine
* A detach whose restoration failed is followed by one that reports success while
  the weights are merged (`engine.rs:555`). A panic in a merge leaves the life
  cycle at Loading (`engine.rs:420`); a request without adapter runs on merged
  weights (`engine.rs:893`); an adapter whose merge was blocked is attached
  (`engine.rs:460`); the saved copy is in half precision (`engine.rs:600`).
* A deterministic request can be answered differently: prompts render hash maps
  in their order (`prompt.rs:912`), and entries of a context that come to one key
  replace each other in that order (`kernel.rs:415`). Chain ids restart with the
  process; a trace hash is only of id, number of steps and completion.
* Validator and chain read one text by different rules: `THEREFORE:` satisfies the
  contract but only `CONCLUSION:` is extracted; "1." is a step inside "11.";
  the default format refuses a numbered list; percentages are judged but not
  handed on. Planned recalls are never performed, and the audit then reports the
  metadata missing. A conclusion on the line after the marker is not handed on, since
  an empty rest of the line yields no signal (`chain.rs:643`).
* `generate` fails on a partial character and `generate_streaming` ignores context
  length and stop sequences; so does the Llama path (`engine.rs:989`), although
  `inference.rs:32` says "generation stops when any is produced"; the same
  seed draws the same value for every token; seeds beyond u32 are clamped (`gemma.rs:409`).
* The gRPC client backend reports all checks passed also for a failed chain, sends
  only the last message and drops the seed; `load_adapter` of the shipped server is
  always unimplemented; the listener opens only after the model is loaded although
  `bin/server.rs` says health is "available immediately".
* The adapter id does not fix the weights when a weights file is cut. A delete that
  stops after the weights leaves the manifest, and then `sync_adapter` says Ok for an
  adapter that cannot be loaded (`adapter_registry.rs:128`).

Recall
* `add_record` does not update the content hash although `corpus.rs:54` says
  "Updated whenever records are added/removed from the corpus."; the filter is not
  in the envelope; `open` compares no embedder; `HashEmbedder`'s settings lack its
  dimensions; an answer's reason may differ from its envelope's when it is late; a
  policy that disables recall answers with the reason `BelowThreshold`;
  `ReachedTopK` and `BudgetExhausted` never occur; a zero vector fails the
  tolerance check against itself; rankings are verified by place and recall breaks
  ties by id; the stored summary keeps what redaction removed from the embedded text.

Accounts
* One invite admits two users who accept at once (`invites.rs:112`). Two concurrent
  first requests provision two orgs and the account moves from one to the other
  (`http/accounts.rs:27`). An org provisioned by the checkout webhook has no
  member, its owner included (`http/billing.rs:324`), although `accounts.rs:47` says
  "Billing owner is always admin."; a subscription event that arrives before the
  link is dropped with a 200 (`http/billing.rs:256`); a second payer of an org replaces
  the customer of the first (`http/billing.rs:97`), whose later events are then
  dropped too, while the plan may be one the first paid for; removing a member leaves its
  account and claims (`members.rs:77`).

Application
* The letters j, k, q and b cannot be typed in the form; Esc on the empty form
  quits although the view says "Clear"; Enter moves between fields until the
  last; nothing is selected after the first submission until j or k. The two
  agents of the terminal never accept; `LlmAgent` fails without weights and is
  asked again in every cycle; an agent whose name begins with another's and a dash
  silences it. The
  strategic and the risk agent are silenced by any hypothesis or constraint, whoever
  contributed it (`agents.rs:162`). `eval` exits 0 when no fixture matches and skips unknown keys.

## Plan

Done, in this order: `EventSync`, `ReliableLog`, `DocumentSync`, `EventHub`,
`KernelService`, `Accounts`; then `AdapterRegistry`, `Validation`, `Prompt`,
`DecisionChain`, `KernelRpc`, `Generation`, `RecallStore` and `Recall`, `Suggestors`
and `Application`, the stores, `Auth` and `AppHost`. Next:

1. Clock skew in `DocumentSync`; the SSE route in `EventHub`.
2. The composition of `KernelService` with `KernelRpc`: health and streams while
   the engine is locked.

## Not modelled

Tensor arithmetic, scores that are no numbers, the ranking of the remote vector index,
the vectors of embedding services, and texts beyond the words
that a check or a conversion looks for; HTTP, gRPC and Firestore encodings
beyond the fields a query or a property compares; the checks of a token's claims
(one condition); the Anthropic client, counters and the streaming handler, which
only observe; the portal, summaries and lists of the account service, which only
read; configuration, secrets, middleware, telemetry and deployment.
`PROJECT.json` lists each component with its status and each hazard with the
properties about it.

## Running

    tlc -workers 2 -config MCEventSync.cfg MCEventSync
    tlapm DeliveryProofs.tla
