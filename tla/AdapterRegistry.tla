--------------------------- MODULE AdapterRegistry ---------------------------
(***************************************************************************)
(* Adapters outside the engine (llm/src/adapter.rs, adapter_registry.rs,     *)
(* storage_registry.rs, lora_merge.rs): the local directory of an adapter,    *)
(* its synchronisation from an object store, what a loader reads from it and   *)
(* plans to merge, and the governance record with its audit trail.            *)
(* A manifest is absent, Torn (not written in full) or Whole.  The weights file  *)
(* is the set of what it holds: "file" when it exists, the layers that are there  *)
(* in full, and "rest" when it ends inside the header or inside a layer.         *)
(***************************************************************************)
EXTENDS Ordering, SequencesExt

CONSTANTS
    Adapter,     \* adapter ids; an id contains the hash of its content
    Proc,        \* callers of the registries
    Remote,      \* the adapters the object store holds
    Layers,      \* Layers[a]: the layer names in the adapter's weights
    Paths,       \* Paths[l]: the model tensors a layer name stands for
    NoAdapter,   \* not an adapter
    MaxCuts      \* bound: saves and deletes that fail or are cut by a crash

VARIABLES
    dirs,        \* adapters that have a local directory
    manifest,    \* manifest[a], weights[a]: the two files in it
    weights,
    pc,          \* pc[p]: the step of p's call
    job,         \* job[p]: the adapter it is about, NoAdapter when idle
    plan,        \* plan[p]: the merge artifact of p's last load, if any
    saved,       \* history: adapters a save or sync reported Ok for, not deleted since
    cut,         \* history: adapters one of whose saves was cut, or overlapped a delete
    halved,      \* history: adapters one of whose deletes stopped part way, none ended since
    cuts,        \* history: number of cut saves and deletes
    record       \* the governance record of one adapter

files == <<dirs, manifest, weights>>
history == <<saved, cut, halved, cuts>>
registryVars == <<files, pc, job, plan, history, record>>

State == {"Draft", "Approved", "Active", "Deprecated", "RolledBack"}
SaveStep == {"dir", "manifest", "manifest2", "weights", "weights2", "weights3"}

ASSUME AdapterAssumption ==
    /\ Remote \subseteq Adapter /\ NoAdapter \notin Adapter /\ MaxCuts \in Nat
    /\ \A a \in Adapter : \A l \in Layers[a] : Paths[l] \subseteq Nat /\ IsFiniteSet(Paths[l])
    /\ \A a \in Adapter : IsFiniteSet(Layers[a]) /\ Layers[a] \cap {"file", "rest"} = {}

TypeOK ==
    /\ dirs \subseteq Adapter
    /\ manifest \in [Adapter -> {"absent", "Torn", "Whole"}]
    /\ DOMAIN weights = Adapter /\ \A a \in Adapter : weights[a] \subseteq Layers[a] \cup {"file", "rest"}
    /\ pc \in [Proc -> SaveStep \cup {"idle", "fetch", "delete", "load"}]
    /\ job \in [Proc -> Adapter \cup {NoAdapter}] /\ DOMAIN plan = Proc
    /\ saved \subseteq Adapter /\ cut \subseteq Adapter /\ halved \subseteq Adapter /\ cuts \in 0 .. MaxCuts
    /\ record \in [state : State, events : Seq([from : State, to : State]), rollback : State \cup {"none"}]

RegistryInit ==
    /\ dirs = {}
    /\ manifest = [a \in Adapter |-> "absent"]
    /\ weights = [a \in Adapter |-> {}]
    /\ pc = [p \in Proc |-> "idle"]
    /\ job = [p \in Proc |-> NoAdapter]
    /\ plan = [p \in Proc |-> {}]
    /\ saved = {} /\ cut = {} /\ halved = {} /\ cuts = 0
    /\ record = [state |-> "Draft", events |-> <<>>, rollback |-> "none"]

-----------------------------------------------------------------------------
(* Saving: directory, manifest, weights; a write truncates, then fills.      *)

Start(p, a, step) ==
    /\ pc[p] = "idle"
    /\ pc' = [pc EXCEPT ![p] = step]
    /\ job' = [job EXCEPT ![p] = a]
    /\ UNCHANGED <<plan, record>>

Step(p, from, to) ==
    /\ pc[p] = from
    /\ pc' = [pc EXCEPT ![p] = to]
    /\ job' = IF to = "idle" THEN [job EXCEPT ![p] = NoAdapter] ELSE job
    /\ UNCHANGED <<plan, record>>

Save(p, a) == Start(p, a, "dir") /\ UNCHANGED <<files, history>>

MakeDir(p) ==
    /\ Step(p, "dir", "manifest")
    /\ dirs' = dirs \cup {job[p]}
    /\ UNCHANGED <<manifest, weights, history>>

\* Without the directory the write fails and the save with it.
WriteManifest(p) ==
    /\ job[p] \in dirs
    /\ \/ /\ Step(p, "manifest", "manifest2")
          /\ manifest' = [manifest EXCEPT ![job[p]] = "Torn"]
       \/ /\ Step(p, "manifest2", "weights")
          /\ manifest' = [manifest EXCEPT ![job[p]] = "Whole"]
    /\ UNCHANGED <<dirs, weights, history>>

\* Mutant: save reports Ok after the manifest.
WriteWeightsNever(p) ==
    /\ Step(p, "weights", "idle")
    /\ saved' = saved \cup {job[p]}
    /\ UNCHANGED <<files, cut, halved, cuts>>

WriteWeights(p) ==
    /\ job[p] \in dirs
    /\ \/ /\ Step(p, "weights", "weights2")
          /\ weights' = [weights EXCEPT ![job[p]] = {"file", "rest"}]
          /\ UNCHANGED saved
       \/ /\ Step(p, "weights2", "weights3")
          \* the layers are written in the order of a hash map; the write may
          \* stop between two of them, where the file looks complete
          /\ \E some \in SUBSET Layers[job[p]], rest \in SUBSET {"rest"} :
                weights' = [weights EXCEPT ![job[p]] = {"file"} \cup some \cup rest]
          /\ UNCHANGED saved
       \/ /\ Step(p, "weights3", "idle")
          /\ weights' = [weights EXCEPT ![job[p]] = {"file"} \cup Layers[job[p]]]
          /\ saved' = saved \cup {job[p]}
    /\ UNCHANGED <<dirs, manifest, cut, halved, cuts>>

\* A write fails, the disk is full, or the process dies: what was written stays.
CutSave(p) ==
    /\ pc[p] \in SaveStep /\ (cuts < MaxCuts \/ job[p] \notin dirs)
    /\ Step(p, pc[p], "idle")
    /\ cut' = cut \cup {job[p]}
    /\ cuts' = IF cuts < MaxCuts THEN cuts + 1 ELSE cuts
    /\ UNCHANGED <<files, saved, halved>>

-----------------------------------------------------------------------------
(* Synchronising from the object store.                                      *)

Exists(a) == manifest[a] # "absent"

\* sync_adapter returns Ok at once when the manifest exists locally.
SyncCached(p, a) ==
    /\ pc[p] = "idle" /\ Exists(a)
    /\ saved' = saved \cup {a}
    /\ UNCHANGED <<files, pc, job, plan, cut, halved, cuts, record>>

SyncBegin(p, a) == ~Exists(a) /\ Start(p, a, "fetch") /\ UNCHANGED <<files, history>>

\* Both objects are fetched before anything is written; either may be missing.
Fetched(p) == job[p] \in Remote /\ Step(p, "fetch", "dir") /\ UNCHANGED <<files, history>>

FetchFails(p) == Step(p, "fetch", "idle") /\ UNCHANGED <<files, history>>

-----------------------------------------------------------------------------
(* Deleting: the files in any order, then the directory.                     *)

Overlapping(p, a) == \E q \in Proc \ {p} : pc[q] \in SaveStep /\ job[q] = a

Delete(p, a) ==
    /\ a \in dirs /\ Start(p, a, "delete")
    /\ saved' = saved \ {a}
    /\ UNCHANGED <<files, cut, halved, cuts>>

RemoveNext(p) ==
    /\ \/ /\ Step(p, "delete", "delete") /\ Exists(job[p])
          /\ manifest' = [manifest EXCEPT ![job[p]] = "absent"]
          /\ UNCHANGED <<dirs, weights, cut, halved>>
       \/ /\ Step(p, "delete", "delete") /\ weights[job[p]] # {}
          /\ weights' = [weights EXCEPT ![job[p]] = {}]
          /\ UNCHANGED <<dirs, manifest, cut, halved>>
       \/ /\ Step(p, "delete", "idle")
          /\ ~Exists(job[p]) /\ weights[job[p]] = {}
          /\ dirs' = dirs \ {job[p]}
          \* with nothing left an earlier cut leaves no trace
          /\ cut' = IF Overlapping(p, job[p]) THEN cut \cup {job[p]} ELSE cut \ {job[p]}
          /\ halved' = halved \ {job[p]}
          /\ UNCHANGED <<manifest, weights>>
    /\ saved' = saved \ {job[p]}
    /\ UNCHANGED cuts

\* A file cannot be removed, a save puts one into the directory that is being removed,
\* or the process dies: what is not removed yet stays, in whatever combination.
CutDelete(p) ==
    /\ Step(p, "delete", "idle") /\ cuts < MaxCuts
    /\ halved' = halved \cup {job[p]}
    /\ cuts' = cuts + 1
    /\ UNCHANGED <<files, saved, cut>>

-----------------------------------------------------------------------------
(* Loading.  The manifest is read and checked, then the weights are read and  *)
(* mapped to the model's tensors.  A torn manifest is refused; of the weights   *)
(* every layer up to the end of the file is taken, whatever the header lists.   *)

LoadBegin(p, a) ==
    /\ manifest[a] = "Whole" /\ Start(p, a, "load")
    /\ UNCHANGED <<files, history>>

\* LayerMapper and from_adapter: one delta for each tensor of each layer name.
Deltas(layers) == UNION {{<<t, l>> : t \in Paths[l]} : l \in layers}

\* Mutant: the deltas stay in the order in which they were added.
ArtifactInOrder(order) == order

\* MergeArtifactBuilder::build: the deltas sorted by tensor, one hash each.
Artifact(order) == StableSort(order, LAMBDA d, e : d[1] < e[1])

\* What deserialize_weights makes of the file: nothing but the end of the data
\* tells it that the layers are all there.
Readable(a) == "file" \in weights[a] /\ "rest" \notin weights[a]

\* Mutant: only one layer is read.
FoundOne(a) ==
    LET all == weights[a] \ {"file"} IN IF all = {} THEN {} ELSE {CHOOSE l \in all : TRUE}

Found(a) == weights[a] \ {"file"}

\* The layers are a hash map, so the deltas come in any order.
LoadWeights(p) ==
    LET a == job[p] IN
    /\ pc[p] = "load" /\ Readable(a)
    /\ \A l \in Found(a) : Paths[l] # {}
    /\ pc' = [pc EXCEPT ![p] = "idle"] /\ job' = [job EXCEPT ![p] = NoAdapter]
    /\ \E order \in SetToSeqs(Deltas(Found(a))) :
          plan' = [plan EXCEPT ![p] =
                     {[adapter |-> a, layers |-> Found(a), hashes |-> Artifact(order),
                       quiet |-> a \notin cut /\ ~Overlapping(p, a)]}]
    /\ UNCHANGED <<files, history, record>>

LoadFails(p) ==
    /\ pc[p] = "load"
    /\ ~(Readable(job[p]) /\ \A l \in Found(job[p]) : Paths[l] # {})
    /\ Step(p, "load", "idle")
    /\ UNCHANGED <<files, history>>

\* MergeArtifact::verify_matches.
Verified(x, y) == x.adapter = y.adapter /\ x.hashes = y.hashes

-----------------------------------------------------------------------------
(* Governance.                                                               *)

\* validate_transition of converge-core, as the tests of adapter.rs use it.
Allowed ==
    {<<"Draft", "Approved">>, <<"Draft", "Deprecated">>, <<"Approved", "Active">>,
     <<"Approved", "RolledBack">>, <<"Active", "Deprecated">>, <<"Active", "RolledBack">>}

Event(to) == [from |-> record.state, to |-> to]

Ungoverned == UNCHANGED <<files, pc, job, plan, history>>

\* approve, activate, deprecate and transition itself.
Transition(to) ==
    /\ <<record.state, to>> \in Allowed
    /\ record' = [record EXCEPT !.state = to, !.events = Append(@, Event(to))]
    /\ Ungoverned

\* Mutant: the record is written before the transition is checked.
RollbackUnchecked ==
    /\ record' = IF <<record.state, "RolledBack">> \in Allowed
                 THEN [state |-> "RolledBack", events |-> Append(record.events, Event("RolledBack")),
                       rollback |-> record.state]
                 ELSE [record EXCEPT !.rollback = record.state]
    /\ Ungoverned

\* rollback keeps the state it left.
Rollback ==
    /\ <<record.state, "RolledBack">> \in Allowed
    /\ record' = [state |-> "RolledBack", events |-> Append(record.events, Event("RolledBack")),
                  rollback |-> record.state]
    /\ Ungoverned

-----------------------------------------------------------------------------
Call(p, a) == Save(p, a) \/ SyncCached(p, a) \/ SyncBegin(p, a) \/ Delete(p, a) \/ LoadBegin(p, a)

Run(p) ==
    \/ MakeDir(p) \/ WriteManifest(p) \/ WriteWeights(p) \/ CutSave(p)
    \/ Fetched(p) \/ FetchFails(p) \/ RemoveNext(p) \/ CutDelete(p)
    \/ LoadWeights(p) \/ LoadFails(p)

RegistryNext ==
    \/ \E p \in Proc : Run(p) \/ \E a \in Adapter : Call(p, a)
    \/ Rollback \/ \E to \in State : Transition(to)

RegistrySpec == RegistryInit /\ [][RegistryNext]_registryVars

-----------------------------------------------------------------------------
(* Properties.                                                               *)

Busy(a) == \E p \in Proc : pc[p] \in SaveStep \cup {"delete"} /\ job[p] = a

Usable(a) == manifest[a] = "Whole" /\ weights[a] = {"file"} \cup Layers[a]

\* Once sync_adapter or save has returned Ok for an adapter, and nobody saves or
\* deletes it any more, it can be loaded, provided none of its saves was cut and no
\* delete of it stopped part way (save, delete): the manifest is written first, may be
\* removed last, and is all that exists() looks at.
SyncedIsUsableUnlessCut ==
    \A a \in saved : ~Busy(a) /\ a \notin cut \cup halved => Usable(a)

\* A load that met no save of the adapter, and none that was cut, plans the merge
\* of all its layers, deletes or not, even one that stopped part way (deserialize_weights, MergePlan::from_adapter).
LoadsAreWhole ==
    \A p \in Proc : \A x \in plan[p] : x.quiet => x.layers = Layers[x.adapter]

Aliased(a) == \E l, m \in Layers[a] : l # m /\ Paths[l] \cap Paths[m] # {}

\* Two merge artifacts match exactly when they merge the same layers of the same
\* adapter, in whatever order the layers came, unless an adapter names one tensor
\* twice: "Deterministic merge artifact for audit and replay"
\* (MergeArtifactBuilder::build, verify_matches).
MergesAreReplayable ==
    \A p, q \in Proc : \A x \in plan[p], y \in plan[q] :
        ~Aliased(x.adapter) =>
            (Verified(x, y) <=> x.adapter = y.adapter /\ x.layers = y.layers)

\* The trail leads from Draft to the state without a gap, every step in it was
\* allowed, and a rollback record is there only for the state the last event
\* left for RolledBack (AdapterRecord::transition, rollback).
TrailExplainsState ==
    LET e == record.events
        at(i) == IF i = 0 THEN "Draft" ELSE e[i].to
    IN  /\ record.state = at(Len(e))
        /\ \A i \in 1 .. Len(e) : e[i].from = at(i - 1) /\ <<e[i].from, e[i].to>> \in Allowed
        /\ record.rollback # "none" =>
               e # <<>> /\ Last(e) = [from |-> record.rollback, to |-> "RolledBack"]
=============================================================================
