------------------------------ MODULE LlmProofs ------------------------------
(***************************************************************************)
(* The parts of the llm crate that keep something on disk.  The adapter        *)
(* registry, for any adapters, processes and crashes: what is there can be      *)
(* loaded, and a merge can be replayed from its record.  Recall, for any        *)
(* records, embedders, filters and policies: nothing acknowledged is lost, an   *)
(* answer is the best there is, and what is said of it can be relied on.        *)
(***************************************************************************)
EXTENDS AdapterRegistry, Recall, OrderingProofs, TLAPS

-----------------------------------------------------------------------------
(* The adapter registry: AdapterRegistry.                                    *)

\* The steps of a save after it has begun to write the manifest.
Past == {"manifest2", "weights", "weights2", "weights3"}

At(p, a, S) == pc[p] \in S /\ job[p] = a

Deleting(a) == \E p \in Proc : At(p, a, {"delete"})

Full(a) == {"file"} \cup Layers[a]

\* The weights are there in full or not at all, unless a save is writing them.
WeightsFull(a) ==
    weights[a] \notin {{}, Full(a)} => \E p \in Proc : At(p, a, {"weights2", "weights3"})

\* While nobody deletes them, the files that are not as they should be are about to be
\* written by a save, and no save has lost what it wrote.
Written(a) ==
    /\ manifest[a] = "Torn" => \E p \in Proc : At(p, a, {"manifest2"})
    /\ Exists(a) /\ weights[a] # Full(a) => \E p \in Proc : At(p, a, Past)
    /\ ~Exists(a) => a \notin saved /\ \A p \in Proc : ~At(p, a, Past)

Uncut(a) == a \notin cut => WeightsFull(a) /\ (~Deleting(a) /\ a \notin halved => Written(a))

PlansWhole == \A p \in Proc : \A x \in plan[p] : x.quiet => x.layers = Layers[x.adapter]

FilesOK ==
    /\ dirs \subseteq Adapter
    /\ manifest \in [Adapter -> {"absent", "Torn", "Whole"}]
    /\ DOMAIN weights = Adapter /\ \A a \in Adapter : weights[a] \subseteq Layers[a] \cup {"file", "rest"}
    /\ saved \subseteq Adapter /\ cut \subseteq Adapter /\ halved \subseteq Adapter /\ cuts \in 0 .. MaxCuts

CallsOK ==
    /\ pc \in [Proc -> SaveStep \cup {"idle", "fetch", "delete", "load"}]
    /\ job \in [Proc -> Adapter \cup {NoAdapter}] /\ DOMAIN plan = Proc
    /\ \A p \in Proc : pc[p] # "idle" => job[p] \in Adapter

RecordOK ==
    record \in [state : State, events : Seq([from : State, to : State]), rollback : State \cup {"none"}]

FilesInv == FilesOK /\ CallsOK /\ \A a \in Adapter : Uncut(a)

IInv == FilesInv /\ PlansWhole /\ RecordOK /\ TrailExplainsState

----------------------------------------------------------------------------
(* Calls *)

\* What a step of p is about, nobody else's call notices.
LEMMA StepMoves ==
    ASSUME CallsOK, NEW p \in Proc, NEW from, NEW to \in SaveStep \cup {"idle", "delete"},
           Step(p, from, to), from # "idle"
    PROVE  /\ CallsOK' /\ job[p] \in Adapter /\ pc[p] = from
           /\ pc'[p] = to /\ (to # "idle" => job'[p] = job[p]) /\ (to = "idle" => job'[p] = NoAdapter)
           /\ \A q \in Proc \ {p} : pc'[q] = pc[q] /\ job'[q] = job[q]
BY DEF CallsOK, Step, SaveStep

\* A call that starts was idle.
LEMMA StartMoves ==
    ASSUME CallsOK, NEW p \in Proc, NEW a \in Adapter, NEW step \in {"dir", "fetch", "delete", "load"},
           Start(p, a, step)
    PROVE  /\ CallsOK' /\ pc[p] = "idle" /\ pc'[p] = step /\ job'[p] = a
           /\ \A q \in Proc \ {p} : pc'[q] = pc[q] /\ job'[q] = job[q]
BY DEF CallsOK, Start, SaveStep

\* An adapter whose files and history stay keeps what is known of it, if the calls about it
\* are where they were.
LEMMA Elsewhere ==
    ASSUME NEW a \in Adapter, Uncut(a),
           manifest'[a] = manifest[a], weights'[a] = weights[a],
           a \in saved' => a \in saved, a \in cut => a \in cut', a \in halved => a \in halved',
           \A q \in Proc, S \in {{"delete"}, {"manifest2"}, {"weights2", "weights3"}, Past} :
               At(q, a, S)' <=> At(q, a, S)
    PROVE  Uncut(a)'
BY DEF Uncut, WeightsFull, Written, Deleting, Exists, Full

\* A call that is about b says nothing of a.
LEMMA Others ==
    ASSUME FilesInv, NEW p \in Proc, NEW b, NEW a \in Adapter \ {b},
           pc[p] = "idle" \/ job[p] = b, pc'[p] = "idle" \/ job'[p] = b,
           \A q \in Proc \ {p} : pc'[q] = pc[q] /\ job'[q] = job[q],
           manifest'[a] = manifest[a], weights'[a] = weights[a],
           a \in saved' => a \in saved, a \in cut => a \in cut', a \in halved => a \in halved'
    PROVE  Uncut(a)'
<1>1. ASSUME NEW q \in Proc, NEW S \in {{"delete"}, {"manifest2"}, {"weights2", "weights3"}, Past}
      PROVE  At(q, a, S)' <=> At(q, a, S)
    <2>1. "idle" \notin S
        BY <1>1 DEF Past
    <2> QED
        BY <2>1 DEF At
<1> QED
    BY <1>1, Elsewhere DEF FilesInv

\* Before a save writes the manifest, and in what is no save and no delete, no call
\* bears on the files.
LEMMA FilesUntouched ==
    ASSUME FilesInv, NEW p \in Proc, NEW a \in Adapter,
           pc[p] \notin Past \cup {"delete"}, pc'[p] \notin Past \cup {"delete"},
           \A q \in Proc \ {p} : pc'[q] = pc[q] /\ job'[q] = job[q],
           UNCHANGED <<manifest, weights, saved>>, cut \subseteq cut', halved \subseteq halved'
    PROVE  Uncut(a)'
<1>1. ASSUME NEW q \in Proc, NEW S \in {{"delete"}, {"manifest2"}, {"weights2", "weights3"}, Past}
      PROVE  At(q, a, S)' <=> At(q, a, S)
    <2>1. S \subseteq Past \cup {"delete"}
        BY <1>1 DEF Past
    <2> QED
        BY <2>1 DEF At
<1> QED
    BY <1>1, Elsewhere DEF FilesInv

----------------------------------------------------------------------------
(* Files *)

\* A call that begins changes no file.
LEMMA BeginKeeps ==
    ASSUME FilesInv, NEW p \in Proc, NEW a \in Adapter,
           Save(p, a) \/ SyncBegin(p, a) \/ LoadBegin(p, a)
    PROVE  FilesInv' /\ UNCHANGED <<plan, record>>
<1>1. PICK step \in {"dir", "fetch", "load"} : Start(p, a, step) /\ UNCHANGED <<files, history>>
    BY DEF Save, SyncBegin, LoadBegin
<1>2. /\ CallsOK' /\ pc[p] = "idle" /\ pc'[p] = step
      /\ \A q \in Proc \ {p} : pc'[q] = pc[q] /\ job'[q] = job[q]
    BY <1>1, StartMoves DEF FilesInv
<1>3. FilesOK' /\ UNCHANGED <<manifest, weights, saved, cut, halved>>
    BY <1>1 DEF FilesInv, FilesOK, files, history
<1>4. pc[p] \notin Past \cup {"delete"} /\ pc'[p] \notin Past \cup {"delete"}
    BY <1>1, <1>2 DEF Past
<1>5. \A b \in Adapter : Uncut(b)'
    BY <1>2, <1>3, <1>4, FilesUntouched
<1> QED
    BY <1>1, <1>2, <1>3, <1>5 DEF FilesInv, Start

\* What is not there is not said to be synchronised.
LEMMA SyncCachedKeeps ==
    ASSUME FilesInv, NEW p \in Proc, NEW a \in Adapter, SyncCached(p, a)
    PROVE  FilesInv' /\ UNCHANGED <<plan, record>>
<1>1. /\ Exists(a) /\ saved' = saved \cup {a}
      /\ UNCHANGED <<dirs, manifest, weights, pc, job, plan, cut, halved, cuts, record>>
    BY DEF SyncCached, files
<1>2. FilesOK' /\ CallsOK'
    BY <1>1 DEF FilesInv, FilesOK, CallsOK
<1>3. ASSUME NEW b \in Adapter
      PROVE  Uncut(b)'
    BY <1>1 DEF FilesInv, Uncut, WeightsFull, Written, Deleting, Exists, Full, At
<1> QED
    BY <1>1, <1>2, <1>3 DEF FilesInv

\* A directory, an answer and a load that fails change neither file.
LEMMA QuietStepsKeep ==
    ASSUME FilesInv, NEW p \in Proc, MakeDir(p) \/ Fetched(p) \/ FetchFails(p) \/ LoadFails(p)
    PROVE  FilesInv' /\ UNCHANGED <<plan, record>>
<1>1. PICK from \in {"dir", "fetch", "load"}, to \in {"manifest", "dir", "idle"} : Step(p, from, to)
    BY DEF MakeDir, Fetched, FetchFails, LoadFails
<1>2. /\ CallsOK' /\ job[p] \in Adapter /\ pc[p] = from /\ pc'[p] = to
      /\ \A q \in Proc \ {p} : pc'[q] = pc[q] /\ job'[q] = job[q]
    BY <1>1, StepMoves DEF FilesInv, SaveStep
<1>3. FilesOK' /\ UNCHANGED <<manifest, weights, saved, cut, halved>>
    BY <1>2 DEF MakeDir, Fetched, FetchFails, LoadFails, FilesInv, FilesOK, files, history
<1>4. pc[p] \notin Past \cup {"delete"} /\ pc'[p] \notin Past \cup {"delete"}
    BY <1>2 DEF Past
<1>5. \A b \in Adapter : Uncut(b)'
    BY <1>2, <1>3, <1>4, FilesUntouched
<1> QED
    BY <1>1, <1>2, <1>3, <1>5 DEF FilesInv, Step

\* A manifest that is being written has its writer.
LEMMA WriteManifestKeeps ==
    ASSUME FilesInv, NEW p \in Proc, WriteManifest(p)
    PROVE  FilesInv' /\ UNCHANGED <<plan, record>>
<1>1. UNCHANGED <<dirs, weights, saved, cut, halved, cuts>> /\ UNCHANGED <<plan, record>>
    BY DEF WriteManifest, history, Step
<1>2. PICK b : b = job[p]
    OBVIOUS
<1>3. PICK m \in {"Torn", "Whole"}, from \in {"manifest", "manifest2"}, to \in {"manifest2", "weights"} :
         /\ Step(p, from, to) /\ manifest' = [manifest EXCEPT ![b] = m]
         /\ \/ from = "manifest" /\ to = "manifest2" /\ m = "Torn"
            \/ from = "manifest2" /\ to = "weights" /\ m = "Whole"
    BY <1>2 DEF WriteManifest
<1>4. /\ CallsOK' /\ b \in Adapter /\ pc[p] = from /\ pc'[p] = to /\ job'[p] = b
      /\ \A q \in Proc \ {p} : pc'[q] = pc[q] /\ job'[q] = job[q]
    BY <1>2, <1>3, StepMoves DEF FilesInv, SaveStep
<1>5. FilesOK' /\ manifest'[b] = m /\ \A a \in Adapter \ {b} : manifest'[a] = manifest[a]
    BY <1>1, <1>3, <1>4 DEF FilesInv, FilesOK
<1>6. \A a \in Adapter \ {b} : Uncut(a)'
    BY <1>1, <1>2, <1>4, <1>5, Others
<1>7. Uncut(b)'
    <2> SUFFICES ASSUME b \notin cut
                 PROVE  WeightsFull(b)' /\ Written(b)'
        BY <1>1 DEF Uncut
    <2>1. WeightsFull(b)'
        <3>1. WeightsFull(b)
            BY <1>4 DEF FilesInv, Uncut
        <3>2. \A q \in Proc : At(q, b, {"weights2", "weights3"}) => At(q, b, {"weights2", "weights3"})'
            BY <1>3, <1>4 DEF At
        <3> QED
            BY <1>1, <3>1, <3>2 DEF WeightsFull, Full
    <2>2. At(p, b, Past)' /\ (m = "Torn" => At(p, b, {"manifest2"})')
        BY <1>3, <1>4 DEF At, Past
    <2> QED
        BY <1>5, <2>1, <2>2 DEF Written, Exists
<1> QED
    BY <1>1, <1>4, <1>5, <1>6, <1>7 DEF FilesInv

\* Weights that are being written have their writer, and a save that ends has written
\* them after the manifest.
LEMMA WriteWeightsKeeps ==
    ASSUME FilesInv, NEW p \in Proc, WriteWeights(p)
    PROVE  FilesInv' /\ UNCHANGED <<plan, record>>
<1>1. UNCHANGED <<dirs, manifest, cut, halved, cuts, plan, record>>
    BY DEF WriteWeights, Step
<1>2. PICK b : b = job[p]
    OBVIOUS
<1>3. PICK from \in {"weights", "weights2", "weights3"}, to \in {"weights2", "weights3", "idle"},
           w \in SUBSET (Layers[b] \cup {"file", "rest"}) :
         /\ Step(p, from, to) /\ weights' = [weights EXCEPT ![b] = w]
         /\ \/ to # "idle" /\ saved' = saved
            \/ to = "idle" /\ saved' = saved \cup {b} /\ w = Full(b)
    BY <1>2 DEF WriteWeights, Full
<1>4. /\ CallsOK' /\ b \in Adapter /\ pc[p] = from /\ pc'[p] = to /\ (to # "idle" => job'[p] = b)
      /\ \A q \in Proc \ {p} : pc'[q] = pc[q] /\ job'[q] = job[q]
    BY <1>2, <1>3, StepMoves DEF FilesInv, SaveStep
<1>5. FilesOK' /\ weights'[b] = w /\ \A a \in Adapter \ {b} : weights'[a] = weights[a]
    BY <1>1, <1>3, <1>4 DEF FilesInv, FilesOK
<1>6. \A a \in Adapter \ {b} : Uncut(a)'
    BY <1>1, <1>2, <1>3, <1>4, <1>5, Others
<1>7. Uncut(b)'
    <2> SUFFICES ASSUME b \notin cut
                 PROVE  WeightsFull(b)' /\ (~Deleting(b)' /\ b \notin halved => Written(b)')
        BY <1>1 DEF Uncut
    <2>1. CASE to # "idle"
        <3>1. At(p, b, {"weights2", "weights3"})' /\ At(p, b, Past)'
            BY <1>3, <1>4, <2>1 DEF At, Past
        <3>2. ASSUME ~Deleting(b)', b \notin halved
              PROVE  Written(b)'
            <4>1. ~Deleting(b)
                BY <1>3, <1>4, <3>2 DEF Deleting, At
            <4>2. Written(b) /\ At(p, b, Past)
                BY <1>2, <1>3, <1>4, <3>2, <4>1 DEF FilesInv, Uncut, At, Past
            <4>3. \A q \in Proc : At(q, b, {"manifest2"}) => At(q, b, {"manifest2"})'
                BY <1>3, <1>4 DEF At
            <4> QED
                BY <1>1, <3>1, <4>2, <4>3 DEF Written, Exists
        <3> QED
            BY <3>1, <3>2 DEF WeightsFull
    <2>2. CASE to = "idle"
        <3>1. w = Full(b) /\ saved' = saved \cup {b}
            BY <1>3, <2>2
        <3>2. WeightsFull(b)'
            BY <1>5, <3>1 DEF WeightsFull, Full
        <3>3. ASSUME ~Deleting(b)', b \notin halved
              PROVE  Written(b)'
            <4>1. ~Deleting(b)
                BY <1>3, <1>4, <3>3 DEF Deleting, At
            <4>2. Written(b) /\ At(p, b, Past)
                BY <1>2, <1>3, <1>4, <3>3, <4>1 DEF FilesInv, Uncut, At, Past
            <4>3. \A q \in Proc : At(q, b, {"manifest2"}) => At(q, b, {"manifest2"})'
                BY <1>3, <1>4 DEF At
            <4> QED
                BY <1>1, <1>5, <3>1, <4>2, <4>3 DEF Written, Exists, Full
        <3> QED
            BY <3>2, <3>3
    <2> QED
        BY <2>1, <2>2
<1> QED
    BY <1>1, <1>4, <1>5, <1>6, <1>7 DEF FilesInv

\* What a cut save has left is not spoken of.
LEMMA CutSaveKeeps ==
    ASSUME FilesInv, NEW p \in Proc, CutSave(p)
    PROVE  FilesInv' /\ UNCHANGED <<plan, record>>
<1>1. PICK b : b = job[p]
    OBVIOUS
<1>2. /\ pc[p] \in SaveStep /\ Step(p, pc[p], "idle") /\ cut' = cut \cup {b}
      /\ cuts' = (IF cuts < MaxCuts THEN cuts + 1 ELSE cuts)
      /\ UNCHANGED <<dirs, manifest, weights, saved, halved, plan, record>>
    BY <1>1 DEF CutSave, files, Step
<1>3. /\ CallsOK' /\ b \in Adapter /\ pc'[p] = "idle"
      /\ \A q \in Proc \ {p} : pc'[q] = pc[q] /\ job'[q] = job[q]
    BY <1>1, <1>2, StepMoves DEF FilesInv, SaveStep
<1>4. FilesOK'
    BY <1>2, <1>3, AdapterAssumption DEF FilesInv, FilesOK
<1>5. \A a \in Adapter \ {b} : Uncut(a)'
    BY <1>1, <1>2, <1>3, Others
<1>6. Uncut(b)'
    BY <1>2 DEF Uncut
<1> QED
    BY <1>2, <1>3, <1>4, <1>5, <1>6 DEF FilesInv

\* From now until it ends a delete accounts for what is missing.
LEMMA DeleteKeeps ==
    ASSUME FilesInv, NEW p \in Proc, NEW a \in Adapter, Delete(p, a)
    PROVE  FilesInv' /\ UNCHANGED <<plan, record>>
<1>1. /\ Start(p, a, "delete") /\ saved' = saved \ {a}
      /\ UNCHANGED <<dirs, manifest, weights, cut, halved, cuts, plan, record>>
    BY DEF Delete, files, Start
<1>2. /\ CallsOK' /\ pc[p] = "idle" /\ pc'[p] = "delete" /\ job'[p] = a
      /\ \A q \in Proc \ {p} : pc'[q] = pc[q] /\ job'[q] = job[q]
    BY <1>1, StartMoves DEF FilesInv
<1>3. FilesOK'
    BY <1>1 DEF FilesInv, FilesOK
<1>4. \A b \in Adapter \ {a} : Uncut(b)'
    BY <1>1, <1>2, Others
<1>5. Uncut(a)'
    <2>1. Deleting(a)'
        BY <1>2 DEF Deleting, At
    <2>2. \A q \in Proc : At(q, a, {"weights2", "weights3"}) => At(q, a, {"weights2", "weights3"})'
        BY <1>2 DEF At
    <2> QED
        BY <1>1, <2>1, <2>2 DEF FilesInv, Uncut, WeightsFull, Full
<1> QED
    BY <1>1, <1>2, <1>3, <1>4, <1>5 DEF FilesInv

\* A delete that ends has left nothing, or has met a save.
LEMMA RemoveNextKeeps ==
    ASSUME FilesInv, NEW p \in Proc, RemoveNext(p)
    PROVE  FilesInv' /\ UNCHANGED <<plan, record>>
<1>1. PICK b : b = job[p]
    OBVIOUS
<1>2. PICK to \in {"delete", "idle"} : Step(p, "delete", to)
    BY DEF RemoveNext
<1>3. /\ CallsOK' /\ b \in Adapter /\ pc[p] = "delete" /\ pc'[p] = to /\ (to # "idle" => job'[p] = b)
      /\ \A q \in Proc \ {p} : pc'[q] = pc[q] /\ job'[q] = job[q]
    BY <1>1, <1>2, StepMoves DEF FilesInv, SaveStep
<1>4. saved' = saved \ {b} /\ UNCHANGED <<cuts, plan, record>>
    BY <1>1, <1>2 DEF RemoveNext, Step
<1>5. CASE Step(p, "delete", "delete")
    <2>1. /\ UNCHANGED <<dirs, cut, halved>>
          /\ \/ manifest' = [manifest EXCEPT ![b] = "absent"] /\ UNCHANGED weights
             \/ weights' = [weights EXCEPT ![b] = {}] /\ UNCHANGED manifest
        BY <1>1, <1>3, <1>5 DEF RemoveNext, Step, FilesInv, CallsOK
    <2>2. /\ FilesOK' /\ weights'[b] \in {weights[b], {}}
          /\ \A a \in Adapter \ {b} : manifest'[a] = manifest[a] /\ weights'[a] = weights[a]
        BY <1>3, <1>4, <2>1 DEF FilesInv, FilesOK
    <2>3. \A a \in Adapter \ {b} : Uncut(a)'
        BY <1>1, <1>3, <1>4, <2>1, <2>2, Others
    <2>4. Uncut(b)'
        <3>1. pc'[p] = "delete" /\ job'[p] = b
            BY <1>1, <1>3, <1>5 DEF Step, FilesInv, CallsOK
        <3>2. Deleting(b)' /\ \A q \in Proc : At(q, b, {"weights2", "weights3"}) => At(q, b, {"weights2", "weights3"})'
            BY <1>3, <3>1 DEF Deleting, At
        <3> QED
            BY <1>3, <2>1, <2>2, <3>2 DEF FilesInv, Uncut, WeightsFull, Full
    <2> QED
        BY <1>3, <1>4, <2>2, <2>3, <2>4 DEF FilesInv
<1>6. CASE Step(p, "delete", "idle")
    <2>1. /\ manifest[b] = "absent" /\ weights[b] = {} /\ dirs' = dirs \ {b} /\ UNCHANGED <<manifest, weights>>
          /\ cut' = IF Overlapping(p, b) THEN cut \cup {b} ELSE cut \ {b}
          /\ halved' = halved \ {b}
        BY <1>1, <1>3, <1>6 DEF RemoveNext, Step, FilesInv, CallsOK, Exists
    <2>2. FilesOK'
        BY <1>3, <1>4, <2>1 DEF FilesInv, FilesOK
    <2>3. \A a \in Adapter \ {b} : Uncut(a)'
        BY <1>1, <1>3, <1>4, <2>1, Others
    <2>4. Uncut(b)'
        <3>1. pc'[p] = "idle"
            BY <1>6, <1>3 DEF Step, FilesInv, CallsOK
        <3>2. ASSUME ~Overlapping(p, b), NEW q \in Proc
              PROVE  ~At(q, b, Past)'
            BY <1>3, <3>1, <3>2 DEF Overlapping, At, Past, SaveStep
        <3> QED
            BY <1>4, <2>1, <3>2 DEF Uncut, WeightsFull, Written, Exists
    <2> QED
        BY <1>3, <1>4, <2>2, <2>3, <2>4 DEF FilesInv
<1> QED
    BY <1>2, <1>5, <1>6

\* A delete that stops leaves the weights as they are, and is remembered.
LEMMA CutDeleteKeeps ==
    ASSUME FilesInv, NEW p \in Proc, CutDelete(p)
    PROVE  FilesInv' /\ UNCHANGED <<plan, record>>
<1>1. PICK b : b = job[p]
    OBVIOUS
<1>2. /\ Step(p, "delete", "idle") /\ halved' = halved \cup {b} /\ cuts < MaxCuts /\ cuts' = cuts + 1
      /\ UNCHANGED <<dirs, manifest, weights, saved, cut, plan, record>>
    BY <1>1 DEF CutDelete, files, Step
<1>3. /\ CallsOK' /\ b \in Adapter /\ pc[p] = "delete" /\ pc'[p] = "idle"
      /\ \A q \in Proc \ {p} : pc'[q] = pc[q] /\ job'[q] = job[q]
    BY <1>1, <1>2, StepMoves DEF FilesInv, SaveStep, Step
<1>4. FilesOK'
    BY <1>2, <1>3, AdapterAssumption DEF FilesInv, FilesOK
<1>5. \A a \in Adapter \ {b} : Uncut(a)'
    BY <1>1, <1>2, <1>3, Others
<1>6. Uncut(b)'
    <2>1. \A q \in Proc : At(q, b, {"weights2", "weights3"}) => At(q, b, {"weights2", "weights3"})'
        BY <1>3 DEF At
    <2> QED
        BY <1>2, <1>3, <2>1 DEF FilesInv, Uncut, WeightsFull, Full
<1> QED
    BY <1>2, <1>3, <1>4, <1>5, <1>6 DEF FilesInv

\* What is read from weights that no cut save and no running one wrote is all of them.
LEMMA LoadWeightsKeeps ==
    ASSUME FilesInv, PlansWhole, NEW p \in Proc, LoadWeights(p)
    PROVE  FilesInv' /\ PlansWhole' /\ UNCHANGED record
<1>1. PICK a : a = job[p]
    OBVIOUS
<1>2. /\ pc[p] = "load" /\ Readable(a) /\ UNCHANGED <<dirs, manifest, weights, saved, cut, halved, cuts, record>>
      /\ pc' = [pc EXCEPT ![p] = "idle"] /\ job' = [job EXCEPT ![p] = NoAdapter]
    BY <1>1 DEF LoadWeights, files, history
<1>3. a \in Adapter
    BY <1>1, <1>2 DEF FilesInv, CallsOK
<1>4. PICK x : /\ plan' = [plan EXCEPT ![p] = {x}]
               /\ x.adapter = a /\ x.layers = Found(a) /\ (x.quiet => a \notin cut /\ ~Overlapping(p, a))
    <2>1. PICK order \in SetToSeqs(Deltas(Found(job[p]))) :
            plan' = [plan EXCEPT ![p] = {[adapter |-> job[p], layers |-> Found(job[p]), hashes |-> Artifact(order),
                                          quiet |-> job[p] \notin cut /\ ~Overlapping(p, job[p])]}]
        BY Zenon DEF LoadWeights
    <2>2. PICK x : x = [adapter |-> job[p], layers |-> Found(job[p]), hashes |-> Artifact(order),
                        quiet |-> job[p] \notin cut /\ ~Overlapping(p, job[p])]
        BY Zenon
    <2>3. x.adapter = a /\ x.layers = Found(a)
        BY <1>1, <2>2
    <2>4. x.quiet => a \notin cut /\ ~Overlapping(p, a)
        BY <1>1, <2>2
    <2> QED
        BY <2>1, <2>2, <2>3, <2>4, Zenon
<1>5. x.quiet => x.layers = Layers[x.adapter]
    <2> SUFFICES ASSUME a \notin cut, ~Overlapping(p, a)
                 PROVE  Found(a) = Layers[a]
        BY <1>4
    <2>1. \A q \in Proc : ~At(q, a, {"weights2", "weights3"})
        BY <1>2 DEF At, Overlapping, SaveStep
    <2>2. weights[a] = Full(a)
        BY <1>2, <1>3, <2>1 DEF FilesInv, Uncut, WeightsFull, Readable
    <2> QED
        BY <1>3, <2>2, AdapterAssumption DEF Full, Found
<1>6. PlansWhole'
    BY <1>4, <1>5 DEF FilesInv, CallsOK, PlansWhole
<1>7. CallsOK' /\ pc'[p] = "idle" /\ \A q \in Proc \ {p} : pc'[q] = pc[q] /\ job'[q] = job[q]
    <2>1. DOMAIN plan' = DOMAIN plan
        BY <1>4
    <2> QED
        BY <1>2, <2>1 DEF FilesInv, CallsOK
<1>8. FilesOK'
    BY <1>2 DEF FilesInv, FilesOK
<1>9. pc[p] \notin Past \cup {"delete"} /\ pc'[p] \notin Past \cup {"delete"}
    BY <1>2, <1>7 DEF Past
<1>10. \A b \in Adapter : Uncut(b)'
    BY <1>2, <1>7, <1>9, FilesUntouched
<1> QED
    BY <1>2, <1>6, <1>7, <1>8, <1>10 DEF FilesInv

----------------------------------------------------------------------------
(* Governance *)

\* An allowed transition that is appended continues the trail.  It does not start from
\* RolledBack, so that the event of a rollback stays the last.
LEMMA TrailGrows ==
    ASSUME RecordOK, TrailExplainsState, NEW to \in State, NEW kept \in State \cup {"none"},
           <<record.state, to>> \in Allowed,
           kept = record.rollback \/ (kept = record.state /\ to = "RolledBack"),
           record'.state = to, record'.events = Append(record.events, Event(to)), record'.rollback = kept
    PROVE  TrailExplainsState'
<1>1. PICK e \in Seq([from : State, to : State]), s \in State : e = record.events /\ s = record.state
    BY DEF RecordOK
<1>2. PICK n \in Nat : n = Len(e)
    BY <1>1
<1>3. PICK new \in [from : State, to : State] : new = [from |-> s, to |-> to]
    OBVIOUS
<1>4. PICK f : f = Append(e, new)
    OBVIOUS
<1>5. f \in Seq([from : State, to : State]) /\ Len(f) = n + 1 /\ f[n + 1] = new /\ \A i \in 1..n : f[i] = e[i]
    BY <1>1, <1>2, <1>3, <1>4
<1>6. record'.events = f /\ new.from = s /\ new.to = to /\ f # <<>>
    BY <1>1, <1>3, <1>4, <1>5 DEF Event
<1>7. /\ s = IF n = 0 THEN "Draft" ELSE e[n].to
      /\ \A i \in 1..n : e[i].from = (IF i - 1 = 0 THEN "Draft" ELSE e[i - 1].to) /\ <<e[i].from, e[i].to>> \in Allowed
    BY <1>1, <1>2 DEF TrailExplainsState
<1>8. \A i \in 1..(n + 1) :
        f[i].from = (IF i - 1 = 0 THEN "Draft" ELSE f[i - 1].to) /\ <<f[i].from, f[i].to>> \in Allowed
    <2> SUFFICES ASSUME NEW i \in 1..(n + 1)
                 PROVE  f[i].from = (IF i - 1 = 0 THEN "Draft" ELSE f[i - 1].to) /\ <<f[i].from, f[i].to>> \in Allowed
        OBVIOUS
    <2>1. CASE i = n + 1
        <3>1. f[i].from = s /\ f[i].to = to /\ i - 1 = n
            BY <1>5, <1>6, <2>1
        <3>2. n # 0 => f[n] = e[n]
            <4>1. \A j \in 1..n : f[j] = e[j]
                BY <1>5
            <4>2. n # 0 => n \in 1..n
                BY <1>2
            <4> QED
                BY ONLY <4>1, <4>2
        <3> QED
            BY <1>1, <1>7, <3>1, <3>2
    <2>2. CASE i # n + 1
        <3>1. i \in 1..n /\ (i - 1 # 0 => i - 1 \in 1..n)
            BY <2>2
        <3> QED
            BY <1>5, <1>7, <3>1
    <2> QED
        BY <2>1, <2>2
<1>9. Last(f) = new
    BY <1>5 DEF Last
<1>10. kept # "none" => new = [from |-> kept, to |-> "RolledBack"]
    <2>1. CASE kept = record.state /\ to = "RolledBack"
        BY <1>1, <1>3, <2>1
    <2>2. CASE kept = record.rollback /\ kept # "none"
        \* a record that was rolled back has no transition left
        <3>1. e # <<>> /\ e[n] = [from |-> kept, to |-> "RolledBack"]
            BY <1>1, <1>2, <2>2 DEF TrailExplainsState, Last
        <3>2. n # 0 /\ e[n].to = "RolledBack"
            BY <1>1, <1>2, <3>1
        <3>3. s = "RolledBack"
            BY <1>7, <3>2
        <3> QED
            BY <1>1, <3>3 DEF Allowed
    <2> QED
        BY <2>1, <2>2
<1> QED
    BY <1>5, <1>6, <1>8, <1>9, <1>10 DEF TrailExplainsState

\* Governance touches no file.
LEMMA FilesRest ==
    ASSUME IInv, Ungoverned
    PROVE  FilesInv' /\ PlansWhole'
<1>1. UNCHANGED <<dirs, manifest, weights, pc, job, plan, saved, cut, halved, cuts>>
    BY DEF Ungoverned, files, history
<1> QED
    BY <1>1 DEF IInv, FilesInv, FilesOK, CallsOK, Uncut, WeightsFull, Written, Deleting, Exists, Full, At, PlansWhole

\* A rollback keeps the state it left.
LEMMA RollbackKeeps ==
    ASSUME IInv, Rollback
    PROVE  IInv'
<1>1. RecordOK /\ record.state \in State /\ Event("RolledBack") \in [from : State, to : State]
    BY DEF IInv, RecordOK, Event, State
<1>2. /\ <<record.state, "RolledBack">> \in Allowed /\ Ungoverned
      /\ record' = [state |-> "RolledBack", events |-> Append(record.events, Event("RolledBack")),
                    rollback |-> record.state]
    BY Zenon DEF Rollback
<1>3. RecordOK'
    BY <1>1, <1>2 DEF RecordOK, State
<1>4. TrailExplainsState'
    BY <1>1, <1>2, TrailGrows DEF IInv, State
<1> QED
    BY <1>2, <1>3, <1>4, FilesRest DEF IInv

\* A transition keeps the rollback record.
LEMMA TransitionKeeps ==
    ASSUME IInv, NEW to \in State, Transition(to)
    PROVE  IInv'
<1>1. RecordOK /\ record.state \in State /\ Event(to) \in [from : State, to : State]
    BY DEF IInv, RecordOK, Event
<1>2. <<record.state, to>> \in Allowed /\ Ungoverned
    BY Zenon DEF Transition
<1>3. record' = [record EXCEPT !.state = to, !.events = Append(record.events, Event(to))]
    BY Zenon DEF Transition
<1>4. /\ RecordOK' /\ record'.state = to /\ record'.events = Append(record.events, Event(to))
      /\ record'.rollback = record.rollback /\ record.rollback \in State \cup {"none"}
    <2>1. PICK e \in Seq([from : State, to : State]) : e = Append(record.events, Event(to))
        <3>1. record.events \in Seq([from : State, to : State])
            BY <1>1 DEF RecordOK
        <3>2. PICK old \in Seq([from : State, to : State]), new \in [from : State, to : State] :
                old = record.events /\ new = Event(to)
            BY <1>1, <3>1, Zenon
        <3>3. Append(old, new) \in Seq([from : State, to : State])
            OBVIOUS
        <3> QED
            BY <3>2, <3>3, Zenon
    <2>2. record' = [record EXCEPT !.state = to, !.events = e]
        BY <1>3, <2>1
    <2> QED
        BY <1>1, <2>1, <2>2 DEF RecordOK
<1>5. TrailExplainsState'
    BY <1>1, <1>2, <1>4, TrailGrows DEF IInv
<1> QED
    BY <1>2, <1>4, <1>5, FilesRest DEF IInv

----------------------------------------------------------------------------

\* Nothing is on disk, and the trail is empty.
LEMMA InitIInv == RegistryInit => IInv
<1> SUFFICES ASSUME RegistryInit
             PROVE  IInv
    OBVIOUS
<1>1. FilesOK /\ CallsOK
    BY AdapterAssumption DEF RegistryInit, FilesOK, CallsOK
<1>2. \A a \in Adapter : manifest[a] = "absent" /\ weights[a] = {}
    BY DEF RegistryInit
<1>3. \A p \in Proc : pc[p] = "idle" /\ plan[p] = {}
    BY DEF RegistryInit
<1>4. \A a \in Adapter : Uncut(a)
    BY <1>2, <1>3 DEF RegistryInit, Uncut, WeightsFull, Written, Exists, At, Past
<1>5. PlansWhole
    BY <1>3 DEF PlansWhole
<1>6. RecordOK /\ TrailExplainsState
    BY DEF RegistryInit, RecordOK, State, TrailExplainsState
<1> QED
    BY <1>1, <1>4, <1>5, <1>6 DEF IInv, FilesInv

\* Every step keeps the invariant.
LEMMA NextIInv == IInv /\ [RegistryNext]_registryVars => IInv'
<1> SUFFICES ASSUME IInv, [RegistryNext]_registryVars
             PROVE  IInv'
    OBVIOUS
<1>1. CASE UNCHANGED registryVars
    <2>1. Ungoverned /\ UNCHANGED record
        BY <1>1 DEF registryVars, Ungoverned
    <2>2. RecordOK' /\ TrailExplainsState'
        BY <2>1 DEF IInv, RecordOK, TrailExplainsState
    <2> QED
        BY <2>1, <2>2, FilesRest DEF IInv
<1>2. ASSUME FilesInv', PlansWhole', UNCHANGED record
      PROVE  IInv'
    BY <1>2 DEF IInv, RecordOK, TrailExplainsState
<1>3. ASSUME FilesInv', UNCHANGED <<plan, record>>
      PROVE  IInv'
    <2>1. PlansWhole'
        BY <1>3 DEF IInv, PlansWhole
    <2> QED
        BY <1>2, <1>3, <2>1
<1>4. ASSUME NEW p \in Proc, NEW a \in Adapter, Call(p, a)
      PROVE  IInv'
    BY <1>3, <1>4, BeginKeeps, SyncCachedKeeps, DeleteKeeps DEF Call, IInv
<1>5. ASSUME NEW p \in Proc, Run(p)
      PROVE  IInv'
    <2>1. FilesInv /\ PlansWhole
        BY DEF IInv
    <2>2. CASE LoadWeights(p)
        BY <1>2, <2>1, <2>2, LoadWeightsKeeps
    <2>3. CASE ~LoadWeights(p)
        BY <1>3, <1>5, <2>1, <2>3, QuietStepsKeep, WriteManifestKeeps, WriteWeightsKeeps, CutSaveKeeps,
            RemoveNextKeeps, CutDeleteKeeps DEF Run
    <2> QED
        BY <2>2, <2>3
<1> QED
    BY <1>1, <1>4, <1>5, RollbackKeeps, TransitionKeeps DEF RegistryNext

\* Every state has its type.
THEOREM TypeCorrect == RegistrySpec => []TypeOK
<1>1. IInv => TypeOK
    BY DEF IInv, FilesInv, FilesOK, CallsOK, RecordOK, TypeOK
<1> QED
    BY InitIInv, NextIInv, <1>1, PTL DEF RegistrySpec

\* "Downloads the manifest and weights if not already cached locally" (storage_registry.rs:62):
\* for any adapters, callers and layers, an adapter that was saved or synchronised and
\* that nobody is saving or deleting can be loaded, unless one of its saves was cut or a
\* delete of it stopped part way.
THEOREM SyncedIsUsable == RegistrySpec => []SyncedIsUsableUnlessCut
<1>1. IInv => SyncedIsUsableUnlessCut
    <2> SUFFICES ASSUME IInv, NEW a \in saved, ~Busy(a), a \notin cut \cup halved
                 PROVE  Usable(a)
        BY DEF SyncedIsUsableUnlessCut
    <2>1. a \in Adapter /\ manifest[a] \in {"absent", "Torn", "Whole"}
        BY DEF IInv, FilesInv, FilesOK
    <2>2. ~Deleting(a) /\ \A p \in Proc : ~At(p, a, Past) /\ ~At(p, a, {"manifest2"})
        BY DEF Busy, Deleting, At, Past, SaveStep
    <2>3. Written(a)
        BY <2>1, <2>2 DEF IInv, FilesInv, Uncut
    <2> QED
        BY <2>1, <2>2, <2>3 DEF Written, Exists, Usable, Full
<1> QED
    BY InitIInv, NextIInv, <1>1, PTL DEF RegistrySpec

\* Nothing but the end of the file tells deserialize_weights that all layers are there:
\* for any adapters, callers and layers, a load that no save of the adapter overlapped,
\* none that was cut either, still plans the merge of all of them, whatever deletes do.
THEOREM LoadsTakeAllLayers == RegistrySpec => []LoadsAreWhole
<1>1. IInv => LoadsAreWhole
    BY DEF IInv, PlansWhole, LoadsAreWhole
<1> QED
    BY InitIInv, NextIInv, <1>1, PTL DEF RegistrySpec

\* AdapterRecord::transition and rollback append what they did: for any sequence of them
\* the trail leads from Draft to the record's state by allowed steps only, and the rollback
\* record is that of its last event.
THEOREM TrailIsComplete == RegistrySpec => []TrailExplainsState
<1>1. IInv => TrailExplainsState
    BY DEF IInv
<1> QED
    BY InitIInv, NextIInv, <1>1, PTL DEF RegistrySpec
----------------------------------------------------------------------------
(* Merges *)

\* Distinct deltas are for distinct tensors.
Apart(D) == \A d \in D : d[1] \in Nat /\ \A e \in D : d[1] = e[1] => d = e

\* s lists a set of n deltas by their tensors.
ListsApart(s, D, n) ==
    /\ s \in [1 .. n -> D] /\ \A d \in D : \E k \in 1 .. n : s[k] = d
    /\ \A k, l \in 1 .. n : k < l => s[k][1] < s[l][1]

\* There is only one such list.
LEMMA ListedOnce ==
    ASSUME NEW D, Apart(D), NEW n \in Nat, NEW s, ListsApart(s, D, n), NEW t, ListsApart(t, D, n)
    PROVE  s = t
<1> DEFINE T == {k \in 1 .. n : s[k] # t[k]}
<1>1. T = {} => s = t
  <2>1. s = [k \in 1 .. n |-> s[k]] /\ t = [k \in 1 .. n |-> t[k]]
    BY DEF ListsApart
  <2> QED BY <2>1
<1>2. SUFFICES ASSUME T # {} PROVE FALSE
  BY <1>1
<1>3. PICK k \in T : \A j \in T : ~(j < k)
  <2>1. T \subseteq Nat
    OBVIOUS
  <2> HIDE DEF T
  <2> QED BY <1>2, <2>1, Least
<1>4. k \in 1 .. n /\ s[k] # t[k] /\ \A j \in 1 .. k - 1 : j \in 1 .. n /\ s[j] = t[j]
  BY <1>3
<1>5. ASSUME NEW u, NEW v, ListsApart(u, D, n), ListsApart(v, D, n), u[k] # v[k], \A j \in 1 .. k - 1 : u[j] = v[j]
      PROVE  u[k][1] < v[k][1]
  <2>1. v[k] \in D /\ u[k] \in D
    BY <1>4, <1>5 DEF ListsApart
  <2>2. PICK m \in 1 .. n : u[m] = v[k]
    BY <1>5, <2>1 DEF ListsApart
  <2>3. ~(m < k)
    <3> SUFFICES ASSUME m < k PROVE FALSE
      OBVIOUS
    <3>1. m \in 1 .. k - 1
      BY <1>4
    <3>2. v[m] = v[k]
      BY <1>5, <2>2, <3>1
    <3>3. v[m][1] < v[k][1]
      BY <1>4, <1>5 DEF ListsApart
    <3>4. v[k][1] \in Nat
      BY <2>1 DEF Apart
    <3> QED BY <3>2, <3>3, <3>4
  <2>4. k < m
    BY <1>4, <1>5, <2>2, <2>3
  <2>5. u[k][1] < u[m][1]
    BY <1>4, <1>5, <2>4 DEF ListsApart
  <2> QED BY <2>2, <2>5
<1>6. s[k][1] < t[k][1] /\ t[k][1] < s[k][1]
  BY <1>4, <1>5
<1>7. s[k][1] \in Nat /\ t[k][1] \in Nat
  BY <1>4 DEF ListsApart, Apart
<1> QED BY <1>6, <1>7

\* The artifact of such deltas lists them, in whatever order they came.
LEMMA ArtifactLists ==
    ASSUME NEW D, IsFiniteSet(D), Apart(D), NEW order \in SetToSeqs(D)
    PROVE  Cardinality(D) \in Nat /\ ListsApart(Artifact(order), D, Cardinality(D))
<1>1. PICK n \in Nat : n = Cardinality(D)
  BY FS_CardinalityType
<1>2. order \in [1 .. n -> D] /\ \A i, j \in 1 .. n : i # j => order[i] # order[j]
  BY <1>1 DEF SetToSeqs
<1>3. \A d \in D : \E i \in 1 .. n : order[i] = d
  <2>1. order \in Injection(1 .. n, D)
    BY <1>2 DEF Injection, IsInjective
  <2>2. IsFiniteSet(1 .. n) /\ Cardinality(1 .. n) = n
    BY FS_Interval
  <2>3. order \in Surjection(1 .. n, D)
    BY <1>1, <2>1, <2>2, FS_Injection
  <2> QED BY <2>3 DEF Surjection
<1>4. PICK W : W = {p \in (1 .. n) \X (1 .. n) : order[p[1]][1] < order[p[2]][1]}
  OBVIOUS
<1>5. \A i, j \in 1 .. n : <<i, j>> \in W <=> order[i][1] < order[j][1]
  BY <1>4
<1>6. \A i \in 1 .. n : order[i] \in D /\ order[i][1] \in Nat
  BY <1>2 DEF Apart
<1>7. WeaklyOrders(W, 1 .. n)
  BY <1>5, <1>6 DEF WeaklyOrders
<1>8. PICK P : P = Ordered(1 .. n, Stably(W, n))
  OBVIOUS
<1>9. IsSort(P, W, n)
  BY <1>7, <1>8, StableIs
<1>10. Artifact(order) = [k \in 1 .. n |-> order[P[k]]]
  <2>1. DOMAIN order = 1 .. n
    BY <1>2
  <2>2. Stably(W, n)
        = {p \in (1 .. n) \X (1 .. n) :
              order[p[1]][1] < order[p[2]][1] \/ (~(order[p[2]][1] < order[p[1]][1]) /\ p[1] < p[2])}
    BY <1>4 DEF Stably
  <2>3. Artifact(order) = AtPlaces(order, P)
    BY <1>8, <2>1, <2>2 DEF Artifact, StableSort, StablePlaces
  <2> QED BY <1>9, <2>3 DEF AtPlaces, IsSort
<1>11. PICK A : A = Artifact(order)
  OBVIOUS
<1>12. A \in [1 .. n -> D] /\ \A k \in 1 .. n : P[k] \in 1 .. n /\ A[k] = order[P[k]]
  <2>1. \A k \in 1 .. n : P[k] \in 1 .. n
    BY <1>9 DEF IsSort
  <2>2. \A k \in 1 .. n : order[P[k]] \in D
    BY <1>6, <2>1
  <2> QED BY <1>10, <1>11, <2>1, <2>2
<1>13. \A d \in D : \E k \in 1 .. n : A[k] = d
  <2> TAKE d \in D
  <2>1. PICK i \in 1 .. n : order[i] = d
    BY <1>3
  <2>2. PICK k \in 1 .. n : P[k] = i
    BY <1>9 DEF IsSort
  <2> QED BY <1>12, <2>1, <2>2
<1>14. ASSUME NEW k \in 1 .. n, NEW l \in 1 .. n, k < l
       PROVE  A[k][1] < A[l][1]
  <2>1. A[k] # A[l]
    <3>1. P[k] # P[l] /\ P[k] \in 1 .. n /\ P[l] \in 1 .. n
      BY <1>9, <1>12, <1>14 DEF IsSort
    <3>2. order[P[k]] # order[P[l]]
      BY <1>2, <3>1
    <3> QED BY <1>12, <3>2
  <2>2. ~(A[l][1] < A[k][1])
    BY <1>5, <1>9, <1>12, <1>14 DEF IsSort
  <2>3. A[k] \in D /\ A[l] \in D
    BY <1>12
  <2> QED BY <2>1, <2>2, <2>3 DEF Apart
<1> QED BY <1>1, <1>11, <1>12, <1>13, <1>14 DEF ListsApart

\* A merge is planned for layers of its adapter that have tensors, with the artifact of
\* their deltas in some order.
Made(x) ==
    /\ x.adapter \in Adapter /\ x.layers \subseteq Layers[x.adapter] /\ \A l \in x.layers : Paths[l] # {}
    /\ \E order \in SetToSeqs(Deltas(x.layers)) : x.hashes = Artifact(order)

PlansMade == \A p \in Proc : \A x \in plan[p] : Made(x)

LEMMA LoadMakes ==
    ASSUME FilesInv, PlansMade, NEW p \in Proc, LoadWeights(p)
    PROVE  PlansMade'
<1>1. PICK order \in SetToSeqs(Deltas(Found(job[p]))) :
         plan' = [plan EXCEPT ![p] = {[adapter |-> job[p], layers |-> Found(job[p]), hashes |-> Artifact(order),
                                       quiet |-> job[p] \notin cut /\ ~Overlapping(p, job[p])]}]
  BY Zenon DEF LoadWeights
<1>2. PICK x : x = [adapter |-> job[p], layers |-> Found(job[p]), hashes |-> Artifact(order),
                    quiet |-> job[p] \notin cut /\ ~Overlapping(p, job[p])]
  BY Zenon
<1>3. x.adapter = job[p] /\ x.layers = Found(job[p]) /\ x.hashes = Artifact(order)
  BY <1>2
<1>4. pc[p] = "load" /\ Readable(job[p]) /\ \A l \in Found(job[p]) : Paths[l] # {}
  BY DEF LoadWeights
<1>5. job[p] \in Adapter /\ weights[job[p]] \subseteq Layers[job[p]] \cup {"file", "rest"}
  BY <1>4 DEF FilesInv, FilesOK, CallsOK
<1>6. Found(job[p]) \subseteq Layers[job[p]]
  BY <1>4, <1>5 DEF Found, Readable
<1>7. Made(x)
  BY <1>3, <1>4, <1>5, <1>6 DEF Made
<1>8. plan' = [plan EXCEPT ![p] = {x}]
  BY <1>1, <1>2, Zenon
<1> QED BY <1>7, <1>8 DEF PlansMade, FilesInv, CallsOK

LEMMA PlansKept ==
    ASSUME IInv, PlansMade, [RegistryNext]_registryVars
    PROVE  PlansMade'
<1>1. SUFFICES ASSUME plan' # plan
               PROVE  \E p \in Proc : LoadWeights(p)
  BY LoadMakes DEF IInv, PlansMade
<1>2. UNCHANGED registryVars => plan' = plan
  BY DEF registryVars
<1>3. ASSUME NEW p \in Proc, NEW a \in Adapter, Call(p, a) PROVE plan' = plan
  BY <1>3 DEF Call, Save, SyncCached, SyncBegin, Delete, LoadBegin, Start
<1>4. ASSUME NEW p \in Proc, Run(p), ~LoadWeights(p) PROVE plan' = plan
  BY <1>4 DEF Run, MakeDir, WriteManifest, WriteWeights, CutSave, Fetched, FetchFails, RemoveNext, CutDelete, LoadFails, Step
<1>5. Rollback \/ (\E to \in State : Transition(to)) => plan' = plan
  BY DEF Rollback, Transition, Ungoverned
<1> QED BY <1>1, <1>2, <1>3, <1>4, <1>5 DEF RegistryNext

\* The deltas of an adapter's layers are finitely many, and apart if no two layers stand
\* for one tensor.
LEMMA DeltasApart ==
    ASSUME NEW a \in Adapter, ~Aliased(a), NEW layers \in SUBSET Layers[a]
    PROVE  IsFiniteSet(Deltas(layers)) /\ Apart(Deltas(layers))
<1>1. IsFiniteSet(layers) /\ \A l \in layers : Paths[l] \subseteq Nat /\ IsFiniteSet(Paths[l])
  BY AdapterAssumption, FS_Subset
<1>2. \A l \in layers : IsFiniteSet({<<t, l>> : t \in Paths[l]})
  <2> TAKE l \in layers
  <2>1. PICK f : f = [t \in Paths[l] |-> <<t, l>>]
    OBVIOUS
  <2>2. f \in Surjection(Paths[l], {<<t, l>> : t \in Paths[l]})
    BY <2>1 DEF Surjection
  <2> QED BY <1>1, <2>2, FS_Surjection
<1>3. IsFiniteSet({{<<t, l>> : t \in Paths[l]} : l \in layers})
  <2>1. PICK f : f = [l \in layers |-> {<<t, l>> : t \in Paths[l]}]
    OBVIOUS
  <2>2. f \in Surjection(layers, {{<<t, l>> : t \in Paths[l]} : l \in layers})
    BY <2>1 DEF Surjection
  <2> QED BY <1>1, <2>2, FS_Surjection
<1>4. IsFiniteSet(Deltas(layers))
  BY <1>2, <1>3, FS_UNION DEF Deltas
<1>5. \A d \in Deltas(layers) : \E l \in layers : \E t \in Paths[l] : d = <<t, l>>
  BY DEF Deltas
<1>6. Apart(Deltas(layers))
  <2> SUFFICES ASSUME NEW d \in Deltas(layers)
               PROVE  d[1] \in Nat /\ \A e \in Deltas(layers) : d[1] = e[1] => d = e
    BY DEF Apart
  <2>a. PICK l \in layers : \E t \in Paths[l] : d = <<t, l>>
    BY <1>5
  <2>1. PICK t \in Paths[l] : d = <<t, l>>
    BY <2>a
  <2>2. d[1] = t /\ t \in Nat
    BY <1>1, <2>1
  <2>3. ASSUME NEW e \in Deltas(layers), d[1] = e[1] PROVE d = e
    <3>a. PICK m \in layers : \E u \in Paths[m] : e = <<u, m>>
      BY <1>5
    <3>1. PICK u \in Paths[m] : e = <<u, m>>
      BY <3>a
    <3>2. u = t
      BY <2>2, <2>3, <3>1
    <3>3. l = m
      BY <2>1, <3>1, <3>2 DEF Aliased
    <3> QED BY <2>1, <3>1, <3>2, <3>3
  <2> QED BY <2>2, <2>3
<1> QED BY <1>4, <1>6

\* Merge artifacts verify as the same exactly when they merge the same layers of the same
\* adapter: for any adapters and layers, and whatever order a hash map gives the layers in,
\* since the deltas are sorted by tensor (MergeArtifactBuilder::build, verify_matches).
THEOREM MergesReplay == RegistrySpec => []MergesAreReplayable
<1>1. PlansMade => MergesAreReplayable
  <2> SUFFICES ASSUME PlansMade, NEW p \in Proc, NEW q \in Proc, NEW x \in plan[p], NEW y \in plan[q],
                      ~Aliased(x.adapter), x.adapter = y.adapter
               PROVE  x.hashes = y.hashes <=> x.layers = y.layers
    BY DEF MergesAreReplayable, Verified
  <2>1. Made(x) /\ Made(y)
    BY DEF PlansMade
  <2>2. PICK D, E : D = Deltas(x.layers) /\ E = Deltas(y.layers)
    OBVIOUS
  <2>3. IsFiniteSet(D) /\ Apart(D) /\ IsFiniteSet(E) /\ Apart(E)
    BY <2>1, <2>2, DeltasApart DEF Made
  <2>4. PICK o \in SetToSeqs(D), u \in SetToSeqs(E) : x.hashes = Artifact(o) /\ y.hashes = Artifact(u)
    BY <2>1, <2>2 DEF Made
  <2>5. /\ ListsApart(x.hashes, D, Cardinality(D)) /\ Cardinality(D) \in Nat
        /\ ListsApart(y.hashes, E, Cardinality(E)) /\ Cardinality(E) \in Nat
    BY <2>3, <2>4, ArtifactLists
  <2>6. x.layers = y.layers => x.hashes = y.hashes
    BY <2>2, <2>3, <2>5, ListedOnce
  <2>7. ASSUME x.hashes = y.hashes PROVE x.layers = y.layers
    <3>1. D = E
      <4>1. D = {x.hashes[k] : k \in DOMAIN x.hashes} /\ E = {y.hashes[k] : k \in DOMAIN y.hashes}
        BY <2>5 DEF ListsApart
      <4> QED BY <2>7, <4>1
    <3>2. ASSUME NEW v, NEW w, Made(v), Deltas(v.layers) = Deltas(w.layers)
          PROVE  v.layers \subseteq w.layers
      <4> SUFFICES ASSUME NEW l \in v.layers PROVE l \in w.layers
        OBVIOUS
      <4>1. PICK t \in Paths[l] : TRUE
        BY <3>2 DEF Made
      <4>2. <<t, l>> \in Deltas(v.layers)
        BY <4>1 DEF Deltas
      <4>3. <<t, l>> \in UNION {{<<z, m>> : z \in Paths[m]} : m \in w.layers}
        BY <3>2, <4>2 DEF Deltas
      <4>4. PICK m \in w.layers : <<t, l>> \in {<<z, m>> : z \in Paths[m]}
        BY <4>3
      <4>5. PICK z \in Paths[m] : <<t, l>> = <<z, m>>
        BY <4>4
      <4>6. l = m
        BY <4>5
      <4> QED BY <4>6
    <3>3. Deltas(x.layers) = Deltas(y.layers)
      BY <2>2, <3>1
    <3>4. x.layers \subseteq y.layers /\ y.layers \subseteq x.layers
      BY <2>1, <3>2, <3>3
    <3> QED BY <3>4
  <2> QED BY <2>6, <2>7
<1>2. RegistryInit => PlansMade
  BY DEF RegistryInit, PlansMade
<1> QED BY InitIInv, NextIInv, PlansKept, <1>1, <1>2, PTL DEF RegistrySpec

-----------------------------------------------------------------------------
(* Recall: RecallStore and Recall.                                           *)

----------------------------------------------------------------------------
(* Filters *)

\* The places S, m of them, in the order o, and the elements of s at these.
Keeps(s, S, o, m) ==
    /\ m = Cardinality(S) /\ o = Ascending(S)
    /\ AtPlaces(s, o) = [k \in 1 .. m |-> s[o[k]]]
    /\ \A k \in 1 .. m : o[k] \in S
    /\ \A k, l \in 1 .. m : k < l => o[k] < o[l]
    /\ \A i \in S : \E k \in 1 .. m : o[k] = i

\* A filter keeps the elements that it is asked to keep, in their order.
LEMMA PlacesOf ==
    ASSUME NEW s, NEW n \in Nat, DOMAIN s = 1 .. n, NEW S \in SUBSET (1 .. n)
    PROVE  \E m \in 0 .. n : Keeps(s, S, Ascending(S), m)
<1>2. IsFiniteSet(S) /\ S \subseteq Int /\ Cardinality(S) \in 0 .. n
  BY PartOf
<1>3. PICK m \in Nat : m = Cardinality(S)
  BY <1>2
<1>4. PICK o : o = Ascending(S)
  OBVIOUS
<1>5. /\ o \in [1 .. m -> S]
      /\ \A i, j \in 1 .. m : i < j => o[i] < o[j]
      /\ \A x \in S : \E i \in 1 .. m : o[i] = x
  BY <1>2, <1>3, <1>4, AscendingIs
<1>6. AtPlaces(s, o) = [k \in 1 .. m |-> s[o[k]]]
  BY <1>5 DEF AtPlaces
<1>7. Keeps(s, S, o, m)
  BY <1>3, <1>4, <1>5, <1>6 DEF Keeps
<1> QED BY <1>2, <1>3, <1>4, <1>7

----------------------------------------------------------------------------
(* The corpus *)

Stored == Record \X Embedders

Piece == Stored \cup {NL, Torn}

StoredIds(pieces) == {Id(x) : x \in pieces \cap Stored}

\* No line is spoilt, and one that lacks its newline is about to get it.
Clean ==
    /\ Torn \notin ToSet(file)
    /\ \A i \in 1 .. Len(file) : IsStored(file[i]) =>
          IF i = Len(file) THEN MidLine ELSE file[i + 1] = NL

Added(t) == <<adding[t].rec, using>> \in ToSet(file)

Adds ==
    /\ DOMAIN adding = Thread
    /\ \A t \in Thread : /\ adding[t] = [step |-> adding[t].step, rec |-> adding[t].rec]
                         /\ adding[t].step \in {"idle", "text", "newline", "push"}
                         /\ adding[t].step # "idle" => adding[t].rec \in Record /\ open /\ kind = "persistent"

StoreTypes ==
    /\ kind \in {"persistent", "mock"} /\ open \in BOOLEAN /\ damaged \in BOOLEAN
    /\ file \in Seq(Piece) /\ memory \in Seq(Stored) /\ acked \subseteq Record /\ using \in Embedders
    /\ Adds

\* What is in memory, acknowledged or about to be, is on file.
OnFile ==
    /\ \A t \in Thread : adding[t].step \in {"newline", "push"} => Added(t)
    /\ kind = "persistent" => ToSet(memory) \subseteq ToSet(file) /\ acked \subseteq StoredIds(ToSet(file))

InMemory == open => acked \subseteq ToSet(IdsOf(memory))

\* An answer's fingerprint is that of the corpus as it was opened.
Hashed == kind = "persistent" /\ open /\ fresh => content = ContentHash(IdsOf(memory))

StoreInv == StoreTypes /\ (~damaged => Clean) /\ OnFile /\ InMemory /\ Hashed

\* What a file gives back.
LEMMA LoadedIs ==
    ASSUME NEW f \in Seq(Piece)
    PROVE  Loaded(f) \in Seq(Stored) /\ ToSet(Loaded(f)) = ToSet(f) \cap Stored
<1>1. PICK n \in Nat : n = Len(f) /\ DOMAIN f = 1 .. n
  OBVIOUS
<1>2. PICK S : S = {i \in DOMAIN f : IsStored(f[i])}
  OBVIOUS
<1>3. S \in SUBSET (1 .. n)
  BY <1>1, <1>2
<1>4. PICK o : o = Ascending(S)
  OBVIOUS
<1>5. Loaded(f) = AtPlaces(f, o)
  BY <1>2, <1>4 DEF Loaded, Filtered
<1>a. PICK m \in 0 .. n : Keeps(f, S, o, m)
  BY <1>1, <1>3, <1>4, PlacesOf
<1>6. /\ m \in Nat /\ Loaded(f) = [k \in 1 .. m |-> f[o[k]]]
      /\ \A k \in 1 .. m : o[k] \in S
      /\ \A i \in S : \E k \in 1 .. m : o[k] = i
  BY <1>5, <1>a DEF Keeps
<1>7. \A k \in 1 .. m : f[o[k]] \in Stored /\ f[o[k]] \in ToSet(f)
  BY <1>2, <1>6 DEF IsStored, Stored, ToSet
<1>8. Loaded(f) \in Seq(Stored) /\ ToSet(Loaded(f)) \subseteq ToSet(f) \cap Stored
  BY <1>6, <1>7 DEF ToSet
<1>9. ASSUME NEW x \in ToSet(f) \cap Stored PROVE x \in ToSet(Loaded(f))
  <2>1. PICK i \in 1 .. n : x = f[i]
    BY <1>1 DEF ToSet
  <2>2. i \in S
    BY <1>1, <1>2, <2>1 DEF IsStored, Stored
  <2>3. PICK k \in 1 .. m : o[k] = i
    BY <1>6, <2>2
  <2> QED BY <1>6, <2>1, <2>3 DEF ToSet
<1> QED BY <1>8, <1>9

\* The ids of records are those of their sequence.
LEMMA IdsAre ==
    ASSUME NEW A, NEW s \in Seq(A)
    PROVE  ToSet(IdsOf(s)) = {Id(x) : x \in ToSet(s)}
BY DEF IdsOf, ToSet

LEMMA Appending ==
    ASSUME NEW A, NEW s \in Seq(A), NEW x \in A
    PROVE  /\ Append(s, x) \in Seq(A) /\ ToSet(Append(s, x)) = ToSet(s) \cup {x}
           /\ Len(Append(s, x)) = Len(s) + 1 /\ Append(s, x)[Len(s) + 1] = x
           /\ \A i \in 1 .. Len(s) : Append(s, x)[i] = s[i]
<1>1. PICK n \in Nat : n = Len(s) /\ DOMAIN s = 1 .. n
  OBVIOUS
<1>2. PICK t : t = Append(s, x)
  OBVIOUS
<1>3. /\ t \in Seq(A) /\ Len(t) = n + 1 /\ DOMAIN t = 1 .. n + 1 /\ t[n + 1] = x
      /\ \A i \in 1 .. n : t[i] = s[i]
  BY <1>1, <1>2
<1>4. ToSet(t) = ToSet(s) \cup {x}
  <2>1. \A y \in ToSet(s) \cup {x} : \E i \in 1 .. n + 1 : t[i] = y
    <3> TAKE y \in ToSet(s) \cup {x}
    <3>1. CASE y = x
      BY <1>3, <3>1
    <3>2. CASE y \in ToSet(s)
      <4>1. PICK i \in 1 .. n : s[i] = y
        BY <1>1, <3>2 DEF ToSet
      <4> QED BY <1>3, <4>1
    <3> QED BY <3>1, <3>2
  <2>2. \A i \in 1 .. n + 1 : t[i] \in ToSet(s) \cup {x}
    <3> TAKE i \in 1 .. n + 1
    <3>1. i = n + 1 \/ i \in 1 .. n
      OBVIOUS
    <3>2. \A j \in 1 .. n : s[j] \in ToSet(s)
      BY <1>1 DEF ToSet
    <3> QED BY <1>3, <3>1, <3>2
  <2>3. ToSet(t) = {t[i] : i \in 1 .. n + 1}
    BY <1>3 DEF ToSet
  <2> QED BY <2>1, <2>2, <2>3
<1> QED BY <1>1, <1>2, <1>3, <1>4

----------------------------------------------------------------------------
(* Steps of the store *)

\* A thread that goes to its next step keeps its record.
LEMMA GoesTo ==
    ASSUME StoreTypes, NEW t \in Thread, NEW step, Goto(t, step)
    PROVE  /\ DOMAIN adding' = Thread
           /\ \A u \in Thread \ {t} : adding'[u] = adding[u]
           /\ adding'[t].step = step /\ adding'[t].rec = adding[t].rec
           /\ adding'[t] = [step |-> step, rec |-> adding[t].rec]
<1>1. adding' = [adding EXCEPT ![t] = [adding[t] EXCEPT !.step = step]]
  BY DEF Goto
<1>2. adding[t] = [step |-> adding[t].step, rec |-> adding[t].rec]
  BY DEF StoreTypes, Adds
<1>3. [adding[t] EXCEPT !.step = step] = [step |-> step, rec |-> adding[t].rec]
  BY <1>2
<1> QED BY <1>1, <1>3 DEF StoreTypes, Adds

\* A thread that starts or ends its add.
LEMMA GoesIdle ==
    ASSUME StoreTypes, NEW t \in Thread, NEW step, NEW r,
           adding' = [adding EXCEPT ![t] = [step |-> step, rec |-> r]]
    PROVE  /\ DOMAIN adding' = Thread
           /\ \A u \in Thread \ {t} : adding'[u] = adding[u]
           /\ adding'[t].step = step /\ adding'[t].rec = r
           /\ adding'[t] = [step |-> step, rec |-> r]
BY DEF StoreTypes, Adds

LEMMA NotStored == /\ NL \notin Stored /\ Torn \notin Stored /\ NL # Torn
                   /\ NL \in Piece /\ Torn \in Piece /\ Stored \subseteq Piece
<1>1. \A x \in Stored : \E r \in Record, e \in Embedders : x = <<r, e>>
  BY DEF Stored
<1> QED BY <1>1, RecallAssumption DEF Piece

LEMMA NoneYet == <<>> \in Seq(Piece) /\ <<>> \in Seq(Stored) /\ ToSet(<<>>) = {}
BY DEF ToSet

\* As long as nobody adds it does not matter which provider is open.
LEMMA Unadded ==
    ASSUME DOMAIN adding' = Thread, \A t \in Thread : adding'[t] = Idle \/ (Adds /\ ~open /\ adding' = adding)
    PROVE  Adds' /\ \A t \in Thread : adding'[t].step = "idle"
<1>1. Idle = [step |-> Idle.step, rec |-> Idle.rec] /\ Idle.step = "idle"
  BY DEF Idle
<1>2. ASSUME NEW t \in Thread
      PROVE  adding'[t] = [step |-> adding'[t].step, rec |-> adding'[t].rec] /\ adding'[t].step = "idle"
  <2>1. CASE adding'[t] = Idle
    BY <1>1, <2>1
  <2>2. CASE Adds /\ ~open /\ adding' = adding
    BY <2>2 DEF Adds
  <2> QED BY <2>1, <2>2
<1> QED BY <1>2 DEF Adds

LEMMA InitStores == Init => StoreInv
<1> SUFFICES ASSUME Init PROVE StoreInv
  OBVIOUS
<1>1. StoreTypes
  <2>1. Idle = [step |-> Idle.step, rec |-> Idle.rec] /\ Idle.step = "idle"
    BY DEF Idle
  <2>2. Adds
    BY <2>1 DEF Init, Adds
  <2> QED BY <2>2, NoneYet DEF Init, StoreTypes
<1>2. Clean /\ OnFile
  BY DEF Init, Clean, OnFile, Idle, ToSet
<1>3. InMemory /\ Hashed
  BY DEF Init, InMemory, Hashed
<1> QED BY <1>1, <1>2, <1>3 DEF StoreInv

LEMMA CreateKeeps ==
    ASSUME StoreInv, NEW e \in Embedders, CreateRecords(e)
    PROVE  StoreInv'
<1>1. \A t \in Thread : adding[t].step = "idle"
  BY DEF StoreInv, StoreTypes, Adds, CreateRecords
<1>2. StoreTypes'
  <2>1. Adds'
    BY Unadded DEF StoreInv, StoreTypes, CreateRecords, Adds
  <2> QED BY <2>1, NoneYet DEF StoreInv, StoreTypes, CreateRecords
<1>3. Clean' /\ OnFile' /\ InMemory'
  BY <1>1 DEF CreateRecords, Clean, OnFile, InMemory, ToSet
<1>4. Hashed'
  BY DEF CreateRecords, Hashed, ContentHash, IdsOf
<1> QED BY <1>2, <1>3, <1>4 DEF StoreInv

LEMMA OpenKeeps ==
    ASSUME StoreInv, NEW e \in Embedders, Open(e)
    PROVE  StoreInv'
<1>1. \A t \in Thread : adding[t].step = "idle"
  BY DEF StoreInv, StoreTypes, Adds, Open
<1>2. Loaded(file) \in Seq(Stored) /\ ToSet(Loaded(file)) = ToSet(file) \cap Stored
  BY LoadedIs DEF StoreInv, StoreTypes
<1>3. StoreTypes'
  BY <1>1, <1>2 DEF StoreInv, StoreTypes, Adds, Open, disk
<1>4. Clean' <=> Clean
  BY DEF Open, disk, Clean, MidLine
<1>5. OnFile'
  BY <1>1, <1>2 DEF StoreInv, OnFile, Open, disk
<1>6. InMemory'
  <2>1. acked \subseteq StoredIds(ToSet(file))
    BY DEF StoreInv, OnFile, Open
  <2>2. ToSet(IdsOf(Loaded(file))) = {Id(x) : x \in ToSet(Loaded(file))}
    BY <1>2, IdsAre
  <2>3. acked \subseteq ToSet(IdsOf(Loaded(file)))
    BY <1>2, <2>1, <2>2 DEF StoredIds
  <2> QED BY <2>3 DEF Open, InMemory
<1>7. Hashed'
  BY DEF Open, Hashed
<1> QED BY <1>3, <1>4, <1>5, <1>6, <1>7 DEF StoreInv, Open

LEMMA MockKeeps ==
    ASSUME StoreInv, NEW e \in Embedders, NewMock(e)
    PROVE  StoreInv'
<1>1. \A t \in Thread : adding[t].step = "idle"
  BY DEF StoreInv, StoreTypes, Adds, NewMock
<1>2. StoreTypes'
  BY <1>1 DEF StoreInv, StoreTypes, Adds, NewMock, disk
<1>3. Clean' <=> Clean
  BY DEF NewMock, disk, Clean, MidLine
<1>4. OnFile' /\ InMemory' /\ Hashed'
  BY <1>1 DEF NewMock, OnFile, InMemory, Hashed
<1> QED BY <1>2, <1>3, <1>4 DEF StoreInv, NewMock

LEMMA StopKeeps == ASSUME StoreInv, Stop PROVE StoreInv'
<1>1. \A t \in Thread : adding'[t] = Idle
  BY DEF Stop
<1>2. StoreTypes'
  <2>1. Adds'
    BY <1>1, Unadded DEF StoreInv, StoreTypes, Stop, Adds
  <2> QED BY <2>1, NoneYet DEF StoreInv, StoreTypes, Stop, disk
<1>3. ~damaged' => Clean'
  <2> SUFFICES ASSUME ~damaged, ~MidLine PROVE Clean'
    BY DEF Stop, MidLine
  <2>1. Clean /\ file' = file
    BY DEF StoreInv, Stop, disk
  <2> QED BY <2>1 DEF Clean
<1>4. OnFile' /\ InMemory' /\ Hashed'
  BY <1>1 DEF Stop, disk, StoreInv, OnFile, InMemory, Hashed, Idle, ToSet
<1> QED BY <1>2, <1>3, <1>4 DEF StoreInv

\* A step of one thread that keeps the types of all.
LEMMA ThreadTypes ==
    ASSUME StoreTypes, NEW t \in Thread, NEW step \in {"idle", "text", "newline", "push"}, NEW r,
           DOMAIN adding' = Thread, \A u \in Thread \ {t} : adding'[u] = adding[u],
           adding'[t] = [step |-> step, rec |-> r],
           step # "idle" => r \in Record /\ open /\ kind = "persistent",
           UNCHANGED <<kind, open>>
    PROVE  Adds' /\ adding'[t].step = step /\ adding'[t].rec = r
<1>1. adding'[t].step = step /\ adding'[t].rec = r
  OBVIOUS
<1>2. \A u \in Thread : /\ adding'[u] = [step |-> adding'[u].step, rec |-> adding'[u].rec]
                        /\ adding'[u].step \in {"idle", "text", "newline", "push"}
                        /\ adding'[u].step # "idle" => adding'[u].rec \in Record /\ open' /\ kind' = "persistent"
  <2> TAKE u \in Thread
  <2>1. CASE u = t
    BY <1>1, <2>1
  <2>2. CASE u # t
    BY <2>2 DEF StoreTypes, Adds
  <2> QED BY <2>1, <2>2
<1> QED BY <1>1, <1>2 DEF Adds

LEMMA BeginAddKeeps ==
    ASSUME StoreInv, NEW t \in Thread, NEW r \in Record, AddBegin(t, r)
    PROVE  StoreInv'
<1>1. /\ adding' = [adding EXCEPT ![t] = [step |-> "text", rec |-> r]]
      /\ UNCHANGED <<kind, file, open, using, memory, content, acked, damaged, fresh>>
      /\ kind = "persistent" /\ open /\ adding[t].step = "idle"
  BY DEF AddBegin, disk, provider, Idle
<1>2. /\ DOMAIN adding' = Thread /\ \A u \in Thread \ {t} : adding'[u] = adding[u]
      /\ adding'[t] = [step |-> "text", rec |-> r] /\ adding'[t].step = "text"
  BY <1>1, GoesIdle DEF StoreInv
<1>3. Adds'
  BY <1>1, <1>2, ThreadTypes DEF StoreInv
<1>4. StoreTypes'
  BY <1>1, <1>3 DEF StoreInv, StoreTypes
<1>5. MidLine => MidLine'
  BY <1>1, <1>2 DEF MidLine
<1>6. ~damaged => Clean'
  BY <1>1, <1>5 DEF StoreInv, Clean
<1>7. \A u \in Thread : adding'[u].step \in {"newline", "push"} => Added(u)'
  BY <1>1, <1>2 DEF StoreInv, OnFile, Added
<1> QED BY <1>1, <1>4, <1>6, <1>7 DEF StoreInv, OnFile, InMemory, Hashed

\* Thread t appends x to the file and is then at the given step.
Writes(t, step, x) ==
    /\ adding[t].step # "idle" /\ file' = Append(file, x)
    /\ DOMAIN adding' = Thread /\ \A u \in Thread \ {t} : adding'[u] = adding[u]
    /\ \/ adding'[t] = [step |-> step, rec |-> adding[t].rec]
       \/ adding'[t] = Idle /\ step = "idle"
    /\ step # "idle" => Added(t) \/ x = <<adding[t].rec, using>>
    /\ damaged' \in BOOLEAN /\ UNCHANGED <<kind, open, using, memory, content, acked, fresh>>

\* A file that gets longer keeps what is on it.
LEMMA LongerFile ==
    ASSUME StoreInv, NEW t \in Thread, NEW step \in {"idle", "newline", "push"}, NEW x \in Piece,
           Writes(t, step, x)
    PROVE  StoreTypes' /\ OnFile' /\ InMemory' /\ Hashed' /\ adding'[t].step = step
<1>1. /\ file' \in Seq(Piece) /\ ToSet(file') = ToSet(file) \cup {x}
  BY Appending DEF StoreInv, StoreTypes, Writes
<1>2. PICK r : adding'[t] = [step |-> step, rec |-> r] /\ (r = adding[t].rec \/ step = "idle")
  BY DEF Idle, Writes
<1>3. adding[t].rec \in Record /\ open /\ kind = "persistent"
  BY DEF StoreInv, StoreTypes, Adds, Writes
<1>4. Adds' /\ adding'[t].step = step /\ adding'[t].rec = r
  BY <1>2, <1>3, ThreadTypes DEF StoreInv, Writes
<1>5. StoreTypes'
  BY <1>1, <1>4 DEF StoreInv, StoreTypes, Writes
<1>6. OnFile'
  <2>1. \A u \in Thread : adding'[u].step \in {"newline", "push"} => Added(u)'
    <3> SUFFICES ASSUME NEW u \in Thread, adding'[u].step \in {"newline", "push"} PROVE Added(u)'
      OBVIOUS
    <3>1. CASE u = t
      BY <1>1, <1>2, <1>4, <3>1 DEF Added, Writes
    <3>2. CASE u # t
      <4>1. Added(u)
        BY <3>2 DEF StoreInv, OnFile, Writes
      <4> QED BY <1>1, <3>2, <4>1 DEF Added, Writes
    <3> QED BY <3>1, <3>2
  <2>2. ToSet(memory') \subseteq ToSet(file') /\ acked' \subseteq StoredIds(ToSet(file'))
    BY <1>1, <1>3 DEF StoreInv, OnFile, StoredIds, Writes
  <2> QED BY <2>1, <2>2 DEF OnFile
<1> QED BY <1>4, <1>5, <1>6 DEF StoreInv, InMemory, Hashed, Writes

LEMMA AddTextKeeps ==
    ASSUME StoreInv, NEW t \in Thread, AddText(t)
    PROVE  StoreInv'
<1>1. PICK x : x = <<adding[t].rec, using>>
  OBVIOUS
<1>2. /\ adding[t].step = "text" /\ file' = Append(file, x) /\ Goto(t, "newline")
      /\ damaged' = (damaged \/ MidLine)
      /\ UNCHANGED <<kind, open, using, memory, content, acked, fresh>>
  BY <1>1 DEF AddText, provider
<1>3. /\ DOMAIN adding' = Thread /\ \A u \in Thread \ {t} : adding'[u] = adding[u]
      /\ adding'[t] = [step |-> "newline", rec |-> adding[t].rec]
  BY <1>2, GoesTo DEF StoreInv
<1>4. x \in Stored /\ x \in Piece /\ damaged' \in BOOLEAN
  BY <1>1, <1>2, NotStored DEF StoreInv, StoreTypes, Adds, Stored
<1>5. StoreTypes' /\ OnFile' /\ InMemory' /\ Hashed' /\ adding'[t].step = "newline"
  <2>1. Writes(t, "newline", x)
    BY <1>1, <1>2, <1>3, <1>4 DEF Writes
  <2> QED BY <1>4, <2>1, LongerFile
<1>6. ASSUME ~damaged, ~MidLine PROVE Clean'
  <2>1. /\ file \in Seq(Piece) /\ ToSet(file') = ToSet(file) \cup {x} /\ Len(file') = Len(file) + 1
        /\ file'[Len(file) + 1] = x /\ \A i \in 1 .. Len(file) : file'[i] = file[i]
    BY <1>2, <1>4, Appending DEF StoreInv, StoreTypes
  <2>2. Clean
    BY <1>6 DEF StoreInv
  <2>3. MidLine'
    BY <1>5 DEF MidLine
  <2>4. \A i \in 1 .. Len(file) : IsStored(file[i]) => i # Len(file) /\ file[i + 1] = NL
    BY <1>6, <2>2 DEF Clean
  <2>5. Torn \notin ToSet(file')
    BY <1>4, <2>1, <2>2, NotStored DEF Clean
  <2>6. PICK n \in Nat : n = Len(file)
    BY <2>1
  <2>7. ASSUME NEW i \in 1 .. n + 1, IsStored(file'[i]), i # n + 1 PROVE file'[i + 1] = NL
    <3>1. i \in 1 .. n /\ IsStored(file[i])
      BY <2>1, <2>6, <2>7
    <3>2. i + 1 \in 1 .. n /\ file[i + 1] = NL
      BY <2>4, <2>6, <3>1
    <3> QED BY <2>1, <2>6, <3>2
  <2> QED BY <2>1, <2>3, <2>5, <2>6, <2>7 DEF Clean
<1> QED BY <1>2, <1>5, <1>6 DEF StoreInv

LEMMA AddNewlineKeeps ==
    ASSUME StoreInv, NEW t \in Thread, AddNewline(t)
    PROVE  StoreInv'
<1>2. /\ adding[t].step = "newline" /\ file' = Append(file, NL) /\ Goto(t, "push")
      /\ UNCHANGED <<kind, open, using, memory, content, acked, fresh, damaged>>
  BY DEF AddNewline, provider
<1>3. /\ DOMAIN adding' = Thread /\ \A u \in Thread \ {t} : adding'[u] = adding[u]
      /\ adding'[t] = [step |-> "push", rec |-> adding[t].rec]
  BY <1>2, GoesTo DEF StoreInv
<1>4. Added(t) /\ NL \in Piece /\ damaged' \in BOOLEAN
  BY <1>2, NotStored DEF StoreInv, StoreTypes, OnFile
<1>5. StoreTypes' /\ OnFile' /\ InMemory' /\ Hashed'
  <2>1. Writes(t, "push", NL)
    BY <1>2, <1>3, <1>4 DEF Writes
  <2> QED BY <1>4, <2>1, LongerFile
<1>6. ASSUME ~damaged PROVE Clean'
  <2>1. /\ file \in Seq(Piece) /\ ToSet(file') = ToSet(file) \cup {NL} /\ Len(file') = Len(file) + 1
        /\ file'[Len(file) + 1] = NL /\ \A i \in 1 .. Len(file) : file'[i] = file[i]
    BY <1>2, <1>4, Appending DEF StoreInv, StoreTypes
  <2>2. Clean
    BY <1>6 DEF StoreInv
  <2>5. Torn \notin ToSet(file')
    BY <2>1, <2>2, NotStored DEF Clean
  <2>6. PICK n \in Nat : n = Len(file)
    BY <2>1
  <2>7. ASSUME NEW i \in 1 .. n + 1, IsStored(file'[i]) PROVE i # n + 1 /\ file'[i + 1] = NL
    <3>1. i # n + 1
      BY <2>1, <2>6, <2>7, NotStored DEF IsStored, Stored
    <3>2. i \in 1 .. n /\ IsStored(file[i])
      BY <2>1, <2>6, <2>7, <3>1
    <3>3. i = n \/ (i + 1 \in 1 .. n /\ file[i + 1] = NL)
      BY <2>2, <2>6, <3>2 DEF Clean
    <3> QED BY <2>1, <2>6, <3>1, <3>3
  <2> QED BY <2>1, <2>5, <2>6, <2>7 DEF Clean
<1> QED BY <1>2, <1>5, <1>6 DEF StoreInv

LEMMA AddFailsKeeps ==
    ASSUME StoreInv, NEW t \in Thread, AddFails(t)
    PROVE  StoreInv'
<1>1. /\ adding[t].step \in {"text", "newline"} /\ adding' = [adding EXCEPT ![t] = Idle]
      /\ UNCHANGED <<kind, open, using, memory, content, acked, fresh>>
  BY DEF AddFails, provider
<1>2. /\ DOMAIN adding' = Thread /\ \A u \in Thread \ {t} : adding'[u] = adding[u]
      /\ adding'[t] = Idle /\ adding'[t].step = "idle"
  BY <1>1 DEF StoreInv, StoreTypes, Adds, Idle
<1>3. CASE file' = Append(file, Torn) /\ damaged' = TRUE
  <2>1. StoreTypes' /\ OnFile' /\ InMemory' /\ Hashed'
    <3>1. Writes(t, "idle", Torn)
      BY <1>1, <1>2, <1>3 DEF Writes
    <3> QED BY <3>1, NotStored, LongerFile
  <2> QED BY <1>3, <2>1 DEF StoreInv
<1>4. CASE file' = file /\ (damaged' = TRUE \/ (adding[t].step = "text" /\ damaged' = damaged))
  <2>1. Adds'
    BY <1>1, <1>2, ThreadTypes DEF StoreInv, Idle
  <2>2. StoreTypes'
    BY <1>1, <1>4, <2>1 DEF StoreInv, StoreTypes
  <2>3. OnFile'
    BY <1>1, <1>2, <1>4 DEF StoreInv, OnFile, Added
  <2>4. ASSUME ~damaged' PROVE Clean'
    <3>1. adding[t].step = "text" /\ ~damaged
      BY <1>4, <2>4
    <3>2. MidLine => MidLine'
      BY <1>2, <3>1 DEF MidLine
    <3> QED BY <1>4, <3>1, <3>2 DEF StoreInv, Clean
  <2> QED BY <1>1, <2>2, <2>3, <2>4 DEF StoreInv, InMemory, Hashed
<1> QED BY <1>3, <1>4 DEF AddFails

LEMMA AddPushKeeps ==
    ASSUME StoreInv, NEW t \in Thread, AddPush(t)
    PROVE  StoreInv'
<1>1. PICK x : x = <<adding[t].rec, using>>
  OBVIOUS
<1>2. /\ adding[t].step = "push" /\ memory' = Append(memory, x) /\ acked' = acked \cup {adding[t].rec}
      /\ adding' = [adding EXCEPT ![t] = Idle] /\ fresh' = FALSE
      /\ UNCHANGED <<kind, file, open, using, content, damaged>>
  BY <1>1 DEF AddPush, disk
<1>3. /\ DOMAIN adding' = Thread /\ \A u \in Thread \ {t} : adding'[u] = adding[u]
      /\ adding'[t] = Idle /\ adding'[t].step = "idle"
  BY <1>2 DEF StoreInv, StoreTypes, Adds, Idle
<1>4. adding[t].rec \in Record /\ x \in Stored /\ Id(x) = adding[t].rec /\ x \in ToSet(file)
      /\ open /\ kind = "persistent"
  BY <1>1, <1>2 DEF StoreInv, StoreTypes, Adds, OnFile, Added, Stored, Id
<1>5. /\ memory' \in Seq(Stored) /\ ToSet(memory') = ToSet(memory) \cup {x}
  BY <1>2, <1>4, Appending DEF StoreInv, StoreTypes
<1>6. Adds'
  BY <1>2, <1>3, ThreadTypes DEF StoreInv, Idle
<1>7. StoreTypes'
  BY <1>2, <1>4, <1>5, <1>6 DEF StoreInv, StoreTypes
<1>8. OnFile'
  <2>1. \A u \in Thread : adding'[u].step \in {"newline", "push"} => Added(u)'
    BY <1>2, <1>3 DEF StoreInv, OnFile, Added
  <2>2. ToSet(memory') \subseteq ToSet(file') /\ acked' \subseteq StoredIds(ToSet(file'))
    BY <1>2, <1>4, <1>5 DEF StoreInv, OnFile, StoredIds
  <2> QED BY <2>1, <2>2 DEF OnFile
<1>9. InMemory'
  <2>1. ToSet(IdsOf(memory')) = {Id(y) : y \in ToSet(memory')} /\ ToSet(IdsOf(memory)) = {Id(y) : y \in ToSet(memory)}
    BY <1>5, IdsAre DEF StoreInv, StoreTypes
  <2>2. acked \subseteq ToSet(IdsOf(memory))
    BY <1>4 DEF StoreInv, InMemory
  <2>3. acked' \subseteq {Id(y) : y \in ToSet(memory')}
    BY <1>2, <1>4, <1>5, <2>1, <2>2
  <2> QED BY <2>1, <2>3 DEF InMemory
<1>10. ~damaged => Clean'
  <2>1. MidLine => MidLine'
    BY <1>2, <1>3 DEF MidLine
  <2> QED BY <1>2, <2>1 DEF StoreInv, Clean
<1> QED BY <1>2, <1>7, <1>8, <1>9, <1>10 DEF StoreInv, Hashed

LEMMA AddMockKeeps ==
    ASSUME StoreInv, NEW r \in Record, AddMock(r)
    PROVE  StoreInv'
<1>1. PICK x : x = <<r, using>>
  OBVIOUS
<1>2. /\ kind = "mock" /\ memory' = Append(memory, x) /\ acked' = acked \cup {r} /\ fresh' = FALSE
      /\ open /\ UNCHANGED <<kind, file, open, using, content, adding, damaged>>
  BY <1>1 DEF AddMock, disk
<1>3. x \in Stored /\ Id(x) = r
  BY <1>1 DEF StoreInv, StoreTypes, Stored, Id
<1>4. /\ memory' \in Seq(Stored) /\ ToSet(memory') = ToSet(memory) \cup {x}
  BY <1>2, <1>3, Appending DEF StoreInv, StoreTypes
<1>5. StoreTypes'
  BY <1>2, <1>4 DEF StoreInv, StoreTypes, Adds
<1>6. OnFile' /\ (Clean' <=> Clean)
  BY <1>2 DEF StoreInv, OnFile, Added, Clean, MidLine
<1>7. InMemory'
  <2>1. ToSet(IdsOf(memory')) = {Id(y) : y \in ToSet(memory')} /\ ToSet(IdsOf(memory)) = {Id(y) : y \in ToSet(memory)}
    BY <1>4, IdsAre DEF StoreInv, StoreTypes
  <2>2. acked \subseteq ToSet(IdsOf(memory))
    BY <1>2 DEF StoreInv, InMemory
  <2>3. acked' \subseteq {Id(y) : y \in ToSet(memory')}
    BY <1>2, <1>3, <1>4, <2>1, <2>2
  <2> QED BY <2>1, <2>3 DEF InMemory
<1> QED BY <1>2, <1>5, <1>6, <1>7 DEF StoreInv, Hashed

LEMMA NextStores == StoreInv /\ [Next]_vars => StoreInv'
<1> SUFFICES ASSUME StoreInv, [Next]_vars PROVE StoreInv'
  OBVIOUS
<1>1. ASSUME UNCHANGED <<kind, file, open, using, memory, content, adding, acked, damaged, fresh>>
      PROVE  StoreInv'
  BY <1>1 DEF StoreInv, StoreTypes, Adds, Clean, MidLine, OnFile, Added, InMemory, Hashed
<1>2. ASSUME NEW policy \in TenantPolicy, CreateMeta(policy) PROVE StoreInv'
  BY <1>1, <1>2 DEF CreateMeta, provider
<1>3. CASE UNCHANGED vars
  BY <1>1, <1>3 DEF vars, disk, provider
<1>4. ASSUME NEW t \in Thread, Add(t) PROVE StoreInv'
  BY <1>4, AddTextKeeps, AddNewlineKeeps, AddPushKeeps, AddFailsKeeps DEF Add
<1> QED BY <1>2, <1>3, <1>4, CreateKeeps, OpenKeeps, MockKeeps, StopKeeps, BeginAddKeeps, AddMockKeeps DEF Next

LEMMA Stores == Spec => []StoreInv
BY InitStores, NextStores, PTL DEF Spec

\* What add_record acknowledged is in memory and comes back with the file, and the file
\* can be opened unless an add was interrupted or overlapped: for any records, threads,
\* embedders and crashes (add_record, load_records).
THEOREM AckedSurvives == Spec => []CorpusSurvives
<1>1. StoreInv => CorpusSurvives
  <2> SUFFICES ASSUME StoreInv PROVE CorpusSurvives
    OBVIOUS
  <2>1. ~damaged => Loadable(file)
    BY DEF StoreInv, StoreTypes, Clean, Loadable
  <2>2. Loaded(file) \in Seq(Stored) /\ ToSet(Loaded(file)) = ToSet(file) \cap Stored
    BY LoadedIs DEF StoreInv, StoreTypes
  <2>3. kind = "persistent" => acked \subseteq ToSet(IdsOf(Loaded(file)))
    BY <2>2, IdsAre DEF StoreInv, OnFile, StoredIds
  <2> QED BY <2>1, <2>3 DEF StoreInv, InMemory, OnFile, CorpusSurvives
<1> QED BY <1>1, Stores, PTL

----------------------------------------------------------------------------
(* Scores *)

\* The sums up to each place.
Sums(f, a, b, n) == f = [i \in 0 .. n |-> IF i = 0 THEN 0 ELSE f[i - 1] + a[i] * b[i]]

LEMMA SumsExist ==
    ASSUME NEW a, NEW b, NEW N \in Nat
    PROVE  \E f : Sums(f, a, b, N)
<1> DEFINE T == {n \in Nat : ~\E f : Sums(f, a, b, n)}
<1>1. SUFFICES ASSUME T # {} PROVE FALSE
  OBVIOUS
<1>2. PICK n \in T : \A y \in T : ~(y < n)
  <2>1. T \subseteq Nat
    OBVIOUS
  <2> HIDE DEF T
  <2> QED BY <1>1, <2>1, Least
<1>3. n # 0
  <2>1. PICK f : f = [i \in 0 .. 0 |-> 0]
    OBVIOUS
  <2>2. Sums(f, a, b, 0)
    BY <2>1 DEF Sums
  <2> QED BY <2>2
<1>4. n - 1 \in Nat /\ n - 1 \notin T
  BY <1>2, <1>3
<1>5. PICK f : Sums(f, a, b, n - 1)
  BY <1>4
<1>6. PICK g : g = [i \in 0 .. n |-> IF i = n THEN f[n - 1] + a[n] * b[n] ELSE f[i]]
  OBVIOUS
<1>7. \A i \in 0 .. n - 1 : g[i] = f[i] /\ f[i] = IF i = 0 THEN 0 ELSE f[i - 1] + a[i] * b[i]
  BY <1>4, <1>5, <1>6 DEF Sums
<1>8. ASSUME NEW i \in 0 .. n PROVE g[i] = IF i = 0 THEN 0 ELSE g[i - 1] + a[i] * b[i]
  <2>1. CASE i = n
    <3>1. g[n - 1] = f[n - 1] /\ n \in 0 .. n
      BY <1>3, <1>4, <1>7
    <3> QED BY <1>3, <1>6, <2>1, <3>1
  <2>2. CASE i # n
    <3>1. i \in 0 .. n - 1 /\ (i # 0 => i - 1 \in 0 .. n - 1)
      BY <1>4, <2>2
    <3> QED BY <1>7, <3>1
  <2> QED BY <2>1, <2>2
<1>9. Sums(g, a, b, n)
  BY <1>6, <1>8 DEF Sums
<1> QED BY <1>9

\* A product of vectors is an integer, and that of a vector by itself not negative.
LEMMA DotIs ==
    ASSUME NEW a \in Seq(Int), NEW b \in Seq(Int), Len(a) = Len(b)
    PROVE  Dot(a, b) \in Int /\ (a = b => Dot(a, b) >= 0)
<1>1. PICK f : f = CHOOSE g : Sums(g, a, b, Len(a))
  OBVIOUS
<1>2. Dot(a, b) = f[Len(a)]
  BY <1>1 DEF Dot, Sums
<1>3. PICK N \in Nat : N = Len(a)
  OBVIOUS
<1>4. Sums(f, a, b, N)
  BY <1>1, <1>3, SumsExist
<1>5. \A i \in 0 .. N : f[i] = IF i = 0 THEN 0 ELSE f[i - 1] + a[i] * b[i]
  BY <1>4, <1>3 DEF Sums
<1>6. \A i \in 1 .. N : a[i] * b[i] \in Int /\ (a = b => a[i] * b[i] >= 0)
  <2>1. \A x \in Int : x * x >= 0
    OBVIOUS
  <2> QED BY <1>3, <2>1
<1> DEFINE T == {n \in 0 .. N : ~(f[n] \in Int /\ (a = b => f[n] >= 0))}
<1>7. SUFFICES ASSUME T # {} PROVE FALSE
  BY <1>2, <1>3
<1>8. PICK n \in T : \A y \in T : ~(y < n)
  <2>1. T \subseteq Nat
    OBVIOUS
  <2> HIDE DEF T
  <2> QED BY <1>7, <2>1, Least
<1>9. n # 0
  BY <1>5
<1>10. n \in 1 .. N /\ n - 1 \in 0 .. N /\ n - 1 \notin T
  BY <1>8, <1>9
<1>11. f[n - 1] \in Int /\ (a = b => f[n - 1] >= 0) /\ f[n] = f[n - 1] + a[n] * b[n]
  BY <1>5, <1>9, <1>10
<1>12. f[n] \in Int /\ (a = b => f[n] >= 0)
  <2>1. PICK x \in Int, y \in Int : x = f[n - 1] /\ y = a[n] * b[n]
    BY <1>6, <1>10, <1>11
  <2>2. f[n] = x + y /\ (a = b => x >= 0 /\ y >= 0)
    BY <1>6, <1>10, <1>11, <2>1
  <2> QED BY <2>2
<1> QED BY <1>10, <1>12

LEMMA CosineIs ==
    ASSUME NEW a \in Seq(Int), NEW b \in Seq(Int)
    PROVE  Cosine(a, b) \in Int
<1>1. CASE Len(a) = Len(b)
  <2>1. PICK d \in Int : d = Dot(a, b)
    BY <1>1, DotIs
  <2>2. PICK x \in Nat, y \in Nat : x = NormSquared(a) /\ y = NormSquared(b)
    <3>1. Dot(a, a) \in Nat /\ Dot(b, b) \in Nat
      BY DotIs
    <3> QED BY <3>1 DEF NormSquared
  <2>3. PICK n \in Nat : n = x * y
    OBVIOUS
  <2>4. Cosine(a, b) = Quotient(d, n)
    BY <1>1, <2>1, <2>2, <2>3 DEF Cosine
  <2>5. PICK z \in Int : z = 100 * d * d
    OBVIOUS
  <2>6. n # 0 => z \div n \in Int
    BY <2>3
  <2>7. Quotient(d, n) \in Int
    BY <2>5, <2>6 DEF Quotient
  <2> QED BY <2>4, <2>7
<1>2. CASE Len(a) # Len(b)
  BY <1>2 DEF Cosine
<1> QED BY <1>1, <1>2

\* How like a query a stored record is.
LEMMA SimilarityIs ==
    ASSUME NEW e \in Embedders, NEW q \in Query, NEW s \in Stored
    PROVE  /\ Similarity[e][q][s] \in Int /\ Id(s) \in Record
           /\ Similarity[e][q][s] = Cosine(Vector[e][q], StoredVector(s))
<1>1. s[1] \in Record /\ s[2] \in Embedders /\ s \in Record \X Embedders
  BY DEF Stored
<1>2. StoredVector(s) \in Seq(Int) /\ Vector[e][q] \in Seq(Int)
  BY <1>1, QueryAssumption DEF StoredVector, Id
<1>3. Similarity[e][q][s] = Cosine(Vector[e][q], StoredVector(s))
  BY <1>1 DEF Similarity
<1> QED BY <1>1, <1>2, <1>3, CosineIs DEF Id

----------------------------------------------------------------------------
(* Ranking *)

Finding == [id : Nat, raw : Int]

\* The places of what was found, the better before the others, and of what scores more.
Preferred(found) == {p \in (DOMAIN found) \X (DOMAIN found) : Better(found[p[1]], found[p[2]])}
AlikePlaces(found) == {p \in (DOMAIN found) \X (DOMAIN found) : found[p[1]].raw > found[p[2]].raw}
HigherScored(s) == {p \in (DOMAIN s) \X (DOMAIN s) : s[p[1]].score > s[p[2]].score}

PreferredOrder(found) == StablePlaces(found, Better)
AlikeOrder(found) == StablePlaces(found, LAMBDA a, b : a.raw > b.raw)
ScoreOrder(s) == StablePlaces(s, LAMBDA a, b : a.score > b.score)

\* A stable sort gives the elements at the places that the order puts them in.
LEMMA SortIs ==
    ASSUME NEW s, NEW n \in Nat, DOMAIN s = 1 .. n, NEW W, WeaklyOrders(W, 1 .. n),
           NEW P, P = Ordered(DOMAIN s, Stably(W, n))
    PROVE  IsSort(P, W, n)
BY StableIs

LEMMA AtSorted ==
    ASSUME NEW s, NEW n, NEW W, NEW P, IsSort(P, W, n)
    PROVE  AtPlaces(s, P) = [k \in 1 .. n |-> s[P[k]]]
BY DEF IsSort, AtPlaces

LEMMA PreferredSort ==
    ASSUME NEW n \in Nat, NEW found \in [1 .. n -> Finding]
    PROVE  \E P : /\ IsSort(P, Preferred(found), n) /\ P = PreferredOrder(found)
                  /\ BestFirst(found) = AtPlaces(found, P)
<1>1. PICK W : W = Preferred(found)
  OBVIOUS
<1>2. ASSUME NEW i \in 1 .. n, NEW j \in 1 .. n PROVE <<i, j>> \in W <=> Better(found[i], found[j])
  BY <1>1 DEF Preferred
<1>3. \A i \in 1 .. n : found[i].id \in Nat /\ found[i].raw \in Int
  BY DEF Finding
<1>4. WeaklyOrders(W, 1 .. n)
  <2>1. ASSUME NEW x \in Finding, NEW y \in Finding, NEW z \in Finding, Better(x, y)
        PROVE  ~Better(y, x) /\ (Better(x, z) \/ Better(z, y))
    <3>1. /\ x.id \in Nat /\ y.id \in Nat /\ z.id \in Nat
          /\ x.raw \in Int /\ y.raw \in Int /\ z.raw \in Int
      BY DEF Finding
    <3> QED BY <2>1, <3>1 DEF Better
  <2>2. \A i \in 1 .. n : found[i] \in Finding
    OBVIOUS
  <2> QED BY <1>2, <2>1, <2>2 DEF WeaklyOrders
<1>5. PICK R : R = {p \in (1 .. n) \X (1 .. n) :
                       \/ Better(found[p[1]], found[p[2]])
                       \/ (~Better(found[p[2]], found[p[1]]) /\ p[1] < p[2])}
  OBVIOUS
<1>6. R = Stably(W, n)
  BY <1>2, <1>5 DEF Stably
<1>7. PICK P : P = Ordered(DOMAIN found, Stably(W, n))
  OBVIOUS
<1>8. P = PreferredOrder(found)
  BY <1>5, <1>6, <1>7 DEF PreferredOrder, StablePlaces
<1>9. IsSort(P, W, n)
  <2>1. DOMAIN found = 1 .. n
    OBVIOUS
  <2> QED BY <1>4, <1>7, <2>1, SortIs
<1>10. BestFirst(found) = AtPlaces(found, PreferredOrder(found))
  BY DEF BestFirst, PreferredOrder, StableSort, StablePlaces
<1> QED BY <1>1, <1>8, <1>9, <1>10

LEMMA HigherFirst ==
    ASSUME NEW n \in Nat, NEW f \in [1 .. n -> Int], NEW W,
           \A i, j \in 1 .. n : <<i, j>> \in W <=> f[i] > f[j]
    PROVE  WeaklyOrders(W, 1 .. n)
<1>1. \A i \in 1 .. n : f[i] \in Int
  OBVIOUS
<1>2. \A i, j \in 1 .. n : <<i, j>> \in W => <<j, i>> \notin W
  BY <1>1
<1>3. \A i, j, k \in 1 .. n : <<i, j>> \in W => <<i, k>> \in W \/ <<k, j>> \in W
  BY <1>1
<1> QED BY <1>2, <1>3 DEF WeaklyOrders

LEMMA AlikeSort ==
    ASSUME NEW n \in Nat, NEW found \in [1 .. n -> Finding]
    PROVE  \E P : /\ IsSort(P, AlikePlaces(found), n)
                  /\ P = AlikeOrder(found)
                  /\ MostAlikeFirst(found) = AtPlaces(found, P)
<1>1. PICK W : W = AlikePlaces(found)
  OBVIOUS
<1>2. ASSUME NEW i \in 1 .. n, NEW j \in 1 .. n PROVE <<i, j>> \in W <=> found[i].raw > found[j].raw
  BY <1>1 DEF AlikePlaces
<1>3. PICK raw \in [1 .. n -> Int] : \A i \in 1 .. n : found[i].raw = raw[i]
  <2>1. [i \in 1 .. n |-> found[i].raw] \in [1 .. n -> Int]
    BY DEF Finding
  <2> QED BY <2>1
<1>4. WeaklyOrders(W, 1 .. n)
  <2>1. \A i, j \in 1 .. n : <<i, j>> \in W <=> raw[i] > raw[j]
    BY <1>2, <1>3
  <2> QED BY <2>1, HigherFirst
<1>5. PICK R : R = {p \in (1 .. n) \X (1 .. n) :
                       \/ found[p[1]].raw > found[p[2]].raw
                       \/ (~(found[p[2]].raw > found[p[1]].raw) /\ p[1] < p[2])}
  OBVIOUS
<1>6. R = Stably(W, n)
  BY <1>2, <1>5 DEF Stably
<1>7. PICK P : P = Ordered(DOMAIN found, Stably(W, n))
  OBVIOUS
<1>8. P = AlikeOrder(found)
  BY <1>5, <1>6, <1>7 DEF AlikeOrder, StablePlaces
<1>9. IsSort(P, W, n)
  <2>1. DOMAIN found = 1 .. n
    OBVIOUS
  <2> QED BY <1>4, <1>7, <2>1, SortIs
<1>10. MostAlikeFirst(found) = AtPlaces(found, AlikeOrder(found))
  BY DEF MostAlikeFirst, AlikeOrder, StableSort, StablePlaces
<1> QED BY <1>1, <1>8, <1>9, <1>10

\* Sorting what is sorted changes nothing.
LEMMA SortedStays ==
    ASSUME NEW n \in Nat, NEW W, NEW P, IsSort(P, W, n),
           \A i, j \in 1 .. n : <<i, j>> \in W => i < j
    PROVE  \A k \in 1 .. n : P[k] = k
<1>1. \A k, l \in 1 .. n : k < l => P[k] < P[l]
  BY DEF IsSort
<1>2. \A k \in 1 .. n : P[k] \in 1 .. n /\ \E l \in 1 .. n : P[l] = k
  BY DEF IsSort
<1> DEFINE T == {k \in 1 .. n : P[k] # k}
<1>3. SUFFICES ASSUME T # {} PROVE FALSE
  OBVIOUS
<1>4. PICK k \in T : \A y \in T : ~(y < k)
  <2>1. T \subseteq Nat
    OBVIOUS
  <2> HIDE DEF T
  <2> QED BY <1>3, <2>1, Least
<1>5. k \in 1 .. n /\ P[k] # k /\ \A j \in 1 .. n : j < k => P[j] = j
  BY <1>4
<1>6. P[k] \in 1 .. n /\ P[k] > k
  <2>1. CASE P[k] < k
    <3>1. P[P[k]] = P[k] /\ P[P[k]] < P[k]
      BY <1>1, <1>2, <1>5, <2>1
    <3> QED BY <1>2, <1>5, <3>1
  <2> QED BY <1>2, <1>5, <2>1
<1>7. PICK l \in 1 .. n : P[l] = k
  BY <1>2, <1>5
<1>8. l > k => P[l] > P[k]
  BY <1>1, <1>5
<1> QED BY <1>2, <1>5, <1>6, <1>7, <1>8

\* The candidates of the findings, and what normalize_batch makes of those that are
\* ranked already and no more than the limit.
Candidates(results, m) == [i \in 1 .. m |-> [id |-> results[i].id, score |-> FinalScore(results[i].raw)]]

LEMMA NormalizedIs ==
    ASSUME NEW n \in Nat, NEW results \in [1 .. n -> Finding], NEW k \in Nat, n <= k,
           \A i, j \in 1 .. n : i < j => results[i].raw >= results[j].raw
    PROVE  NormalizeBatch(results, k) = [candidates |-> Candidates(results, n), stop |-> "None"]
<1>1. PICK s : s = [i \in DOMAIN results |-> [id |-> results[i].id, score |-> FinalScore(results[i].raw)]]
  OBVIOUS
<1>2. s = Candidates(results, n) /\ DOMAIN s = 1 .. n /\ DOMAIN results = 1 .. n
  BY <1>1 DEF Candidates
<1>3. \A i \in 1 .. n : results[i].raw \in Int /\ s[i].score = FinalScore(results[i].raw) /\ s[i].score \in Int
  BY <1>1 DEF Finding, FinalScore
<1>4. PICK W : W = HigherScored(s)
  OBVIOUS
<1>5. ASSUME NEW i \in 1 .. n, NEW j \in 1 .. n PROVE <<i, j>> \in W <=> s[i].score > s[j].score
  BY <1>2, <1>4 DEF HigherScored
<1>6. WeaklyOrders(W, 1 .. n)
  <2>1. PICK score : score = [i \in 1 .. n |-> s[i].score]
    OBVIOUS
  <2>2. score \in [1 .. n -> Int]
    BY <1>3, <2>1
  <2>3. \A i, j \in 1 .. n : <<i, j>> \in W <=> score[i] > score[j]
    BY <1>5, <2>1
  <2> QED BY <2>2, <2>3, HigherFirst
<1>7. \A i, j \in 1 .. n : <<i, j>> \in W => i < j
  BY <1>3, <1>5 DEF FinalScore
<1>8. PICK R : R = {p \in (1 .. n) \X (1 .. n) :
                       \/ s[p[1]].score > s[p[2]].score
                       \/ (~(s[p[2]].score > s[p[1]].score) /\ p[1] < p[2])}
  OBVIOUS
<1>9. R = Stably(W, n)
  BY <1>5, <1>8 DEF Stably
<1>10. PICK P : P = Ordered(DOMAIN s, Stably(W, n))
  OBVIOUS
<1>11. P = ScoreOrder(s)
  BY <1>2, <1>8, <1>9, <1>10 DEF ScoreOrder, StablePlaces
<1>12. IsSort(P, W, n) /\ AtPlaces(s, P) = [i \in 1 .. n |-> s[P[i]]]
  <2>1. IsSort(P, W, n)
    BY <1>2, <1>6, <1>10, SortIs
  <2> QED BY <2>1, AtSorted
<1>13. \A i \in 1 .. n : P[i] = i
  BY <1>7, <1>12, SortedStays
<1>14. AtPlaces(s, P) = [i \in 1 .. n |-> s[i]]
  BY <1>12, <1>13
<1>15. HighestFirst(s) = s
  <2>1. HighestFirst(s) = AtPlaces(s, ScoreOrder(s))
    BY DEF HighestFirst, ScoreOrder, StableSort, StablePlaces
  <2> QED BY <1>2, <1>11, <1>14, <2>1 DEF Candidates
<1>16. NormalizeBatch(results, k) = Normalized(s, results, k)
  BY <1>1, <1>15 DEF NormalizeBatch
<1>17. s \in Seq({s[i] : i \in 1 .. n}) /\ Len(s) = n /\ Top(s, k) = s
  <2>1. PICK A : A = {s[i] : i \in 1 .. n}
    OBVIOUS
  <2>2. s = [i \in 1 .. n |-> s[i]]
    BY <1>2 DEF Candidates
  <2>3. s \in Seq(A) /\ Len(s) = n
    BY <2>1, <2>2
  <2>4. SubSeq(s, 1, n) = s
    BY <2>3
  <2>5. Top(s, k) = s
    BY <2>3, <2>4 DEF Top
  <2> QED BY <2>1, <2>3, <2>5
<1>18. s = <<>> => results = <<>>
  <2> SUFFICES ASSUME s = <<>> PROVE results = <<>>
    OBVIOUS
  <2>1. n = 0
    BY <1>17
  <2> QED BY <2>1
<1> QED BY <1>2, <1>16, <1>17, <1>18 DEF Normalized

----------------------------------------------------------------------------
(* Queries *)

IsCorpus(c) ==
    c.kind \in {"persistent", "mock"} /\ c.using \in Embedders /\ c.memory \in Seq(Stored)

IsQuery(x) == x.query \in Query /\ x.k \in Nat

NeedsTenant(c, x) == c.kind = "persistent" /\ c.tenants = "Required" /\ x.tenant = None

\* The records a query looks at.
Searched(c, x) ==
    IF c.kind = "mock" THEN c.memory ELSE Filtered(c.memory, LAMBDA s : Matches(x.filter, Id(s)))

Likeness(c, x, s) == Similarity[c.using][x.query][s]

Candidate(c, x, s) == [id |-> Id(s), score |-> FinalScore(Likeness(c, x, s))]

\* The answer that returns the first of the records s in the order P.
Answered(c, x, s, P, stop) ==
    Response(c, x, Vector[c.using][x.query],
             [candidates |-> [i \in 1 .. Smaller(Len(s), x.k) |-> Candidate(c, x, s[P[i]])], stop |-> stop],
             Len(s))

\* Nothing that is kept moves when everything is.
LEMMA AllKept ==
    ASSUME NEW s, NEW n \in Nat, DOMAIN s = 1 .. n
    PROVE  AtPlaces(s, Ascending(1 .. n)) = [k \in 1 .. n |-> s[k]]
<1>1. PICK S : S = 1 .. n
  OBVIOUS
<1>2. Cardinality(S) = n /\ S \in SUBSET (1 .. n)
  BY <1>1, UpTo
<1>a. PICK o : o = Ascending(S)
  OBVIOUS
<1>b. Keeps(s, S, o, n)
  <2>1. PICK m \in 0 .. n : Keeps(s, S, o, m)
    BY <1>2, <1>a, PlacesOf
  <2> QED BY <1>2, <2>1 DEF Keeps
<1>3. /\ AtPlaces(s, o) = [k \in 1 .. n |-> s[o[k]]]
      /\ \A k \in 1 .. n : o[k] \in 1 .. n
      /\ \A k, l \in 1 .. n : k < l => o[k] < o[l]
      /\ \A i \in 1 .. n : \E k \in 1 .. n : o[k] = i
  BY <1>1, <1>b DEF Keeps
<1>4. PICK P : P = [k \in 1 .. n |-> o[k]]
  OBVIOUS
<1>5. IsSort(P, {}, n)
  <2>1. P \in [1 .. n -> 1 .. n] /\ \A i \in 1 .. n : \E k \in 1 .. n : P[k] = i
    BY <1>3, <1>4
  <2>2. \A k, l \in 1 .. n : k < l => P[k] < P[l]
    BY <1>3, <1>4
  <2>3. \A k, l \in 1 .. n : k < l => P[k] # P[l]
    BY <2>1, <2>2
  <2> QED BY <2>1, <2>2, <2>3 DEF IsSort
<1>6. \A k \in 1 .. n : P[k] = k
  BY <1>5, SortedStays
<1> QED BY <1>1, <1>3, <1>4, <1>6, <1>a

LEMMA SearchedIs ==
    ASSUME NEW c, IsCorpus(c), NEW x
    PROVE  /\ Searched(c, x) \in Seq(Stored)
           /\ ToSet(Searched(c, x)) = {s \in ToSet(c.memory) : c.kind = "mock" \/ Matches(x.filter, Id(s))}
           /\ Len(Searched(c, x)) <= Len(c.memory)
<1>1. PICK f : f = c.memory /\ f \in Seq(Stored)
  BY DEF IsCorpus
<1>2. PICK n \in Nat : n = Len(f) /\ DOMAIN f = 1 .. n
  BY <1>1
<1>3. CASE c.kind = "mock"
  BY <1>1, <1>2, <1>3 DEF Searched
<1>4. CASE c.kind # "mock"
  <2>1. PICK S : S = {i \in DOMAIN f : Matches(x.filter, Id(f[i]))}
    OBVIOUS
  <2>2. S \in SUBSET (1 .. n)
    BY <1>2, <2>1
  <2>3. PICK o : o = Ascending(S)
    OBVIOUS
  <2>a. Searched(c, x) = AtPlaces(f, o)
    BY <1>1, <1>4, <2>1, <2>3 DEF Searched, Filtered
  <2>4. PICK g : g = AtPlaces(f, o)
    OBVIOUS
  <2>b. PICK m \in 0 .. n : Keeps(f, S, o, m)
    BY <1>2, <2>2, <2>3, PlacesOf
  <2>5. /\ m \in 0 .. n /\ g = [k \in 1 .. m |-> f[o[k]]]
        /\ \A k \in 1 .. m : o[k] \in S
        /\ \A i \in S : \E k \in 1 .. m : o[k] = i
    BY <2>4, <2>b DEF Keeps
  <2>6. \A k \in 1 .. m : f[o[k]] \in Stored /\ f[o[k]] \in ToSet(f) /\ Matches(x.filter, Id(f[o[k]]))
    BY <1>1, <1>2, <2>1, <2>5 DEF ToSet
  <2>7. g \in Seq(Stored) /\ Len(g) = m /\ \A s \in ToSet(g) : s \in ToSet(f) /\ Matches(x.filter, Id(s))
    BY <2>5, <2>6 DEF ToSet
  <2>8. ASSUME NEW s \in ToSet(f), Matches(x.filter, Id(s)) PROVE s \in ToSet(g)
    <3>1. PICK i \in 1 .. n : s = f[i]
      BY <1>2 DEF ToSet
    <3>2. i \in S
      BY <1>2, <2>1, <2>8, <3>1
    <3>3. PICK k \in 1 .. m : o[k] = i
      BY <2>5, <3>2
    <3> QED BY <2>5, <3>1, <3>3 DEF ToSet
  <2>9. Searched(c, x) = g
    BY <2>4, <2>a
  <2> QED BY <1>1, <1>2, <1>4, <2>5, <2>7, <2>8, <2>9
<1> QED BY <1>3, <1>4

\* A query without a filter looks at all records, in their order.
LEMMA UnfilteredIs ==
    ASSUME NEW c, IsCorpus(c), NEW x, x.filter = NoFilter
    PROVE  Searched(c, x) = c.memory
<1>1. PICK f : f = c.memory /\ f \in Seq(Stored)
  BY DEF IsCorpus
<1>2. PICK n \in Nat : n = Len(f) /\ DOMAIN f = 1 .. n
  BY <1>1
<1>3. {i \in DOMAIN f : Matches(x.filter, Id(f[i]))} = 1 .. n
  BY <1>2 DEF Matches, NoFilter, EqualFields
<1>4. f = [k \in 1 .. n |-> f[k]]
  BY <1>1, <1>2
<1>5. AtPlaces(f, Ascending(1 .. n)) = f
  BY <1>2, <1>4, AllKept
<1> QED BY <1>1, <1>3, <1>5 DEF Searched, Filtered

IsScored(found, c, x, s) ==
    /\ found \in [1 .. Len(s) -> Finding]
    /\ \A i \in 1 .. Len(s) : /\ found[i] = [id |-> Id(s[i]), raw |-> Likeness(c, x, s[i])]
                              /\ Likeness(c, x, s[i]) \in Int /\ Id(s[i]) \in Record

LEMMA ScoredIs ==
    ASSUME NEW c, IsCorpus(c), NEW x, IsQuery(x), NEW s \in Seq(Stored)
    PROVE  IsScored(Scored(c, x.query, s), c, x, s)
<1>1. \A i \in 1 .. Len(s) : s[i] \in Stored
  OBVIOUS
<1>2. \A i \in 1 .. Len(s) : Likeness(c, x, s[i]) \in Int /\ Id(s[i]) \in Record
  BY <1>1, SimilarityIs DEF IsCorpus, IsQuery, Likeness
<1>3. Scored(c, x.query, s) = [i \in 1 .. Len(s) |-> [id |-> Id(s[i]), raw |-> Likeness(c, x, s[i])]]
  BY DEF Scored, Likeness
<1>4. \A i \in 1 .. Len(s) : [id |-> Id(s[i]), raw |-> Likeness(c, x, s[i])] \in Finding
  <2>1. \A r \in Record : r \in Nat
    BY RecallAssumption
  <2>2. \A r \in Nat, d \in Int : [id |-> r, raw |-> d] \in Finding
    BY DEF Finding
  <2> QED BY <1>2, <2>1, <2>2
<1>5. PICK found : found = Scored(c, x.query, s)
  OBVIOUS
<1> QED BY <1>2, <1>3, <1>4, <1>5 DEF IsScored

\* The order a provider ranks in.
Order(c, found) ==
    IF c.kind = "mock" THEN AlikeOrder(found) ELSE PreferredOrder(found)
Preference(c, found) == IF c.kind = "mock" THEN AlikePlaces(found) ELSE Preferred(found)

\* A provider ranks what was found, cuts it to the limit and normalizes that.
LEMMA RecallIs ==
    ASSUME NEW c, IsCorpus(c), NEW x, IsQuery(x), ~NeedsTenant(c, x),
           NEW s, s = Searched(c, x), NEW found, found = Scored(c, x.query, s), NEW P, P = Order(c, found)
    PROVE  /\ IsSort(P, Preference(c, found), Len(s))
           /\ \E stop : RecallFrom(c, x) = Answered(c, x, s, P, stop)
<1>1. PICK n \in Nat : n = Len(s) /\ s \in Seq(Stored) /\ DOMAIN s = 1 .. n
  BY SearchedIs
<1>2. /\ found \in [1 .. n -> Finding]
      /\ \A i \in 1 .. n : found[i] = [id |-> Id(s[i]), raw |-> Likeness(c, x, s[i])] /\ Likeness(c, x, s[i]) \in Int
  BY <1>1, ScoredIs DEF IsScored
<1>3. PICK k \in Nat, m \in 0 .. n : k = x.k /\ m = Smaller(n, k) /\ m <= k
  BY DEF IsQuery, Smaller
<1>4. PICK sorted : sorted = [i \in 1 .. n |-> found[P[i]]]
  OBVIOUS
<1>5. IsSort(P, Preference(c, found), n)
  BY <1>2, AlikeSort, PreferredSort DEF Order, Preference
<1>6. /\ P \in [1 .. n -> 1 .. n]
      /\ \A i, j \in 1 .. n : i < j => found[P[i]].raw >= found[P[j]].raw
  <2>1. P \in [1 .. n -> 1 .. n]
    BY <1>5 DEF IsSort
  <2>2. ASSUME NEW i \in 1 .. n, NEW j \in 1 .. n, i < j PROVE found[P[i]].raw >= found[P[j]].raw
    <3>1. P[i] \in 1 .. n /\ P[j] \in 1 .. n /\ <<P[j], P[i]>> \notin Preference(c, found)
      BY <1>5, <2>1, <2>2 DEF IsSort
    <3>2. found[P[i]].raw \in Int /\ found[P[j]].raw \in Int
      BY <1>2, <3>1 DEF Finding
    <3>3. PICK v \in 1 .. n, w \in 1 .. n : v = P[i] /\ w = P[j]
      BY <3>1
    <3>4. found[v].raw < found[w].raw => <<w, v>> \in AlikePlaces(found) /\ <<w, v>> \in Preferred(found)
      BY <1>2, <3>2, <3>3 DEF Preferred, AlikePlaces, Better
    <3>5. ~(found[v].raw < found[w].raw)
      BY <3>1, <3>3, <3>4 DEF Preference
    <3> QED BY <3>2, <3>3, <3>5
  <2> QED BY <2>1, <2>2
<1>7. sorted \in [1 .. n -> Finding] /\ \A i, j \in 1 .. n : i < j => sorted[i].raw >= sorted[j].raw
  BY <1>2, <1>4, <1>6
<1>8. PICK results : results = Top(sorted, k)
  OBVIOUS
<1>9. results = [i \in 1 .. m |-> sorted[i]]
  <2>1. sorted \in Seq(Finding) /\ Len(sorted) = n
    BY <1>7
  <2> QED BY <1>3, <1>8, <2>1 DEF Top, Smaller
<1>10. results \in [1 .. m -> Finding] /\ \A i, j \in 1 .. m : i < j => results[i].raw >= results[j].raw
  BY <1>3, <1>7, <1>9
<1>11. PICK normal : normal = NormalizeBatch(results, k)
  OBVIOUS
<1>12. normal = [candidates |-> Candidates(results, m), stop |-> "None"]
  <2>1. m \in Nat /\ m <= k
    BY <1>3
  <2> QED BY <1>10, <1>11, <2>1, NormalizedIs
<1>13. \A i \in 1 .. m : results[i] = [id |-> Id(s[P[i]]), raw |-> Likeness(c, x, s[P[i]])]
  <2> TAKE i \in 1 .. m
  <2>1. i \in 1 .. n /\ results[i] = sorted[i]
    BY <1>3, <1>9
  <2>2. sorted[i] = found[P[i]] /\ P[i] \in 1 .. n
    BY <1>4, <1>6, <2>1
  <2> QED BY <1>2, <2>1, <2>2
<1>14. Candidates(results, m) = [i \in 1 .. m |-> Candidate(c, x, s[P[i]])]
  <2>1. \A i \in 1 .. m : [id |-> results[i].id, score |-> FinalScore(results[i].raw)] = Candidate(c, x, s[P[i]])
    <3> TAKE i \in 1 .. m
    <3>1. PICK r, d : r = Id(s[P[i]]) /\ d = Likeness(c, x, s[P[i]])
      OBVIOUS
    <3>2. results[i] = [id |-> r, raw |-> d]
      BY <1>13, <3>1
    <3>3. results[i].id = r /\ results[i].raw = d
      BY ONLY <3>2
    <3> QED BY <3>1, <3>3 DEF Candidate
  <2> QED BY <2>1 DEF Candidates
<1>15. Len(found) = n
  BY <1>1, <1>2
<1>16. CASE c.kind = "mock"
  <2>1. MostAlikeFirst(found) = sorted
    <3>1. PICK Q : /\ Q = AlikeOrder(found)
                   /\ MostAlikeFirst(found) = AtPlaces(found, Q)
      BY <1>2, AlikeSort
    <3>2. Q = P
      BY <1>16, <3>1 DEF Order
    <3> QED BY <1>4, <1>5, <3>1, <3>2, AtSorted
  <2>2. RecallFrom(c, x) = RankAll(c, x, found)
    BY <1>16 DEF RecallFrom, RecallMock, Searched
  <2>3. RankAll(c, x, found) = Response(c, x, Vector[c.using][x.query], normal, n)
    BY <1>3, <1>8, <1>11, <1>15, <2>1 DEF RankAll
  <2> QED BY <1>1, <1>3, <1>5, <1>12, <1>14, <2>2, <2>3 DEF Answered
<1>17. CASE c.kind # "mock"
  <2>1. BestFirst(found) = sorted
    <3>1. PICK Q : /\ Q = PreferredOrder(found)
                   /\ BestFirst(found) = AtPlaces(found, Q)
      BY <1>2, PreferredSort
    <3>2. Q = P
      BY <1>17, <3>1 DEF Order
    <3> QED BY <1>4, <1>5, <3>1, <3>2, AtSorted
  <2>2. RecallFrom(c, x) = RankFound(c, x, found)
    BY <1>17 DEF RecallFrom, RecallWithFilter, Searched, NeedsTenant, IsCorpus
  <2>3. PICK stop : stop = IF Declared(c.using).contract.level = "BitExact" THEN normal.stop ELSE "EmbedderNotDeterministic"
    OBVIOUS
  <2>4. [normal EXCEPT !.stop = stop] = [candidates |-> Candidates(results, m), stop |-> stop]
    BY <1>12
  <2>5. [normal EXCEPT !.stop = IF Declared(c.using).contract.level = "BitExact" THEN @ ELSE "EmbedderNotDeterministic"]
        = [normal EXCEPT !.stop = stop]
    BY <2>3
  <2>6. RankFound(c, x, found)
        = Response(c, x, Vector[c.using][x.query], [candidates |-> Candidates(results, m), stop |-> stop], n)
    BY <1>3, <1>8, <1>11, <1>15, <2>1, <2>4, <2>5 DEF RankFound
  <2> QED BY <1>1, <1>3, <1>5, <1>14, <2>2, <2>6 DEF Answered
<1> QED BY <1>16, <1>17

----------------------------------------------------------------------------
(* Answers are the best there are *)

LimitedQuery(x, p) == [x EXCEPT !.k = Smaller(@, p.max_k_total)]

LEMMA QuestionIs ==
    ASSUME NEW x \in Question
    PROVE  /\ IsQuery(x)
           /\ x.policy # None => /\ x.policy \in Policy /\ x.filter = NoFilter
                                 /\ IsQuery(LimitedQuery(x, x.policy))
                                 /\ LimitedQuery(x, x.policy).query = x.query
                                 /\ LimitedQuery(x, x.policy).filter = x.filter
                                 /\ LimitedQuery(x, x.policy).tenant = x.tenant
                                 /\ LimitedQuery(x, x.policy).k = Limit(x)
<1>1. x.query \in Query /\ x.k \in Nat
  BY QueryAssumption DEF Question
<1>2. SUFFICES ASSUME x.policy # None
               PROVE  /\ x.policy \in Policy /\ x.filter = NoFilter
                      /\ IsQuery(LimitedQuery(x, x.policy))
                      /\ LimitedQuery(x, x.policy).query = x.query
                      /\ LimitedQuery(x, x.policy).filter = x.filter
                      /\ LimitedQuery(x, x.policy).tenant = x.tenant
                      /\ LimitedQuery(x, x.policy).k = Limit(x)
  BY <1>1 DEF IsQuery
<1>3. x \in [query: Query, tenant: {None}, k: TopK, filter: {NoFilter}, policy: Policy, late: BOOLEAN]
  BY <1>2 DEF Question
<1>4. x.policy \in Policy /\ x.filter = NoFilter
  BY <1>3
<1>5. PICK k \in Nat : k = Smaller(x.k, x.policy.max_k_total)
  BY <1>1, <1>4, QueryAssumption DEF Smaller
<1>6. LimitedQuery(x, x.policy) = [x EXCEPT !.k = k]
  BY <1>5 DEF LimitedQuery
<1>7. /\ [x EXCEPT !.k = k].query = x.query /\ [x EXCEPT !.k = k].filter = x.filter
      /\ [x EXCEPT !.k = k].tenant = x.tenant /\ [x EXCEPT !.k = k].k = k
  BY <1>3
<1> QED BY <1>1, <1>2, <1>4, <1>5, <1>6, <1>7 DEF IsQuery, Limit

Scores == [id: Nat, score: Int]

Shown(cands, a) == \E i \in DOMAIN cands : cands[i] = a

\* Candidates are some of the records of S, and those that are not shown score no more
\* than those that are, of which there are k.
TopOf(cands, c, x, k, S) ==
    /\ \E m \in Nat : DOMAIN cands = 1 .. m /\ Len(cands) = m /\ cands \in Seq(Scores)
    /\ \A i \in DOMAIN cands : \E s \in S : cands[i] = Candidate(c, x, s)
    /\ \A s \in S : \/ Shown(cands, Candidate(c, x, s))
                    \/ /\ Len(cands) = k
                       /\ \A i \in DOMAIN cands : cands[i].score >= FinalScore(Likeness(c, x, s))

LEMMA CandidateIs ==
    ASSUME NEW c, IsCorpus(c), NEW x, IsQuery(x), NEW s \in Stored
    PROVE  /\ Candidate(c, x, s) \in Scores /\ Candidate(c, x, s).id = Id(s)
           /\ Candidate(c, x, s).score = FinalScore(Likeness(c, x, s))
           /\ Likeness(c, x, s) \in Int /\ FinalScore(Likeness(c, x, s)) \in Int
<1>1. Likeness(c, x, s) \in Int /\ Id(s) \in Record
  BY SimilarityIs DEF IsCorpus, IsQuery, Likeness
<1>2. FinalScore(Likeness(c, x, s)) \in Int /\ Id(s) \in Nat
  <2>1. PICK d \in Int : d = Likeness(c, x, s)
    BY <1>1
  <2>2. FinalScore(d) \in Int
    BY DEF FinalScore
  <2> QED BY <1>1, <2>1, <2>2, RecallAssumption
<1> QED BY <1>1, <1>2 DEF Candidate, Scores

\* A ranked answer is a top.
LEMMA RankedIsTop ==
    ASSUME NEW c, IsCorpus(c), NEW x, IsQuery(x), NEW s \in Seq(Stored),
           NEW P, IsSort(P, Preference(c, Scored(c, x.query, s)), Len(s)),
           NEW m, m = Smaller(Len(s), x.k),
           NEW cands, cands = [i \in 1 .. m |-> Candidate(c, x, s[P[i]])]
    PROVE  TopOf(cands, c, x, x.k, ToSet(s))
<1>1. PICK n \in Nat : n = Len(s) /\ DOMAIN s = 1 .. n
  OBVIOUS
<1>a. PICK found : found = Scored(c, x.query, s)
  OBVIOUS
<1>2. m \in 0 .. n /\ m <= x.k /\ (m # n => m = x.k)
  BY <1>1 DEF Smaller, IsQuery
<1>3. /\ found \in [1 .. n -> Finding]
      /\ \A i \in 1 .. n : found[i].raw = Likeness(c, x, s[i]) /\ Likeness(c, x, s[i]) \in Int
  <2>1. /\ found \in [1 .. n -> Finding]
        /\ \A i \in 1 .. n : /\ found[i] = [id |-> Id(s[i]), raw |-> Likeness(c, x, s[i])]
                            /\ Likeness(c, x, s[i]) \in Int
    BY <1>1, <1>a, ScoredIs DEF IsScored
  <2> QED BY <2>1
<1>4. P \in [1 .. n -> 1 .. n] /\ \A i \in 1 .. n : \E k \in 1 .. n : P[k] = i
  BY <1>1 DEF IsSort
<1>5. ASSUME NEW i \in 1 .. n, NEW j \in 1 .. n, i < j
      PROVE  Likeness(c, x, s[P[i]]) >= Likeness(c, x, s[P[j]])
  <2>1. P[i] \in 1 .. n /\ P[j] \in 1 .. n /\ <<P[j], P[i]>> \notin Preference(c, found)
    BY <1>1, <1>4, <1>5, <1>a DEF IsSort
  <2>2. ~(found[P[j]].raw > found[P[i]].raw) /\ P[j] \in DOMAIN found /\ P[i] \in DOMAIN found
    BY <1>3, <2>1 DEF Preference, Preferred, AlikePlaces, Better
  <2>3. PICK a \in Int, b \in Int : a = Likeness(c, x, s[P[i]]) /\ b = Likeness(c, x, s[P[j]])
    BY <1>3, <2>1
  <2>4. found[P[i]].raw = a /\ found[P[j]].raw = b
    BY <1>3, <2>1, <2>3
  <2> QED BY <2>2, <2>3, <2>4
<1>6. \A i \in 1 .. n : s[i] \in Stored /\ s[i] \in ToSet(s)
  BY <1>1 DEF ToSet
<1>7. \A i \in 1 .. m : i \in 1 .. n /\ P[i] \in 1 .. n /\ cands[i] = Candidate(c, x, s[P[i]])
  BY <1>2, <1>4
<1>8. \A i \in 1 .. m : cands[i] \in Scores /\ cands[i].score = FinalScore(Likeness(c, x, s[P[i]]))
  <2> TAKE i \in 1 .. m
  <2>1. PICK r \in Stored : r = s[P[i]]
    BY <1>6, <1>7
  <2> QED BY <1>7, <2>1, CandidateIs
<1>9. DOMAIN cands = 1 .. m /\ Len(cands) = m /\ cands \in Seq(Scores) /\ m \in Nat
  <2>1. m \in Nat /\ DOMAIN cands = 1 .. m /\ \A i \in 1 .. m : cands[i] \in Scores
    BY <1>2, <1>8
  <2>2. PICK S : S = Scores
    OBVIOUS
  <2>3. cands \in [1 .. m -> S]
    BY <2>1, <2>2
  <2>4. Len(cands) = m /\ cands \in Seq(S)
    BY <2>1, <2>3
  <2> QED BY <2>1, <2>2, <2>4
<1>10. \A i \in DOMAIN cands : \E r \in ToSet(s) : cands[i] = Candidate(c, x, r)
  BY <1>6, <1>7, <1>9
<1>11. ASSUME NEW r \in ToSet(s), ~Shown(cands, Candidate(c, x, r))
       PROVE  Len(cands) = x.k /\ \A i \in DOMAIN cands : cands[i].score >= FinalScore(Likeness(c, x, r))
  <2>1. PICK l \in 1 .. n : s[l] = r
    BY <1>1 DEF ToSet
  <2>2. PICK j \in 1 .. n : P[j] = l
    BY <1>4
  <2>3. j > m
    <3>1. j \in 1 .. m => cands[j] = Candidate(c, x, r)
      BY <1>7, <2>1, <2>2
    <3> QED BY <1>2, <1>9, <1>11, <3>1 DEF Shown
  <2>4. ASSUME NEW i \in 1 .. m PROVE cands[i].score >= FinalScore(Likeness(c, x, r))
    <3>1. i \in 1 .. n /\ i < j /\ P[i] \in 1 .. n
      BY <1>2, <1>7, <2>3
    <3>2. Likeness(c, x, s[P[i]]) >= Likeness(c, x, r)
      BY <1>5, <2>1, <2>2, <3>1
    <3>3. Likeness(c, x, s[P[i]]) \in Int /\ Likeness(c, x, r) \in Int
      BY <1>3, <2>1, <3>1
    <3> QED BY <1>8, <3>2, <3>3 DEF FinalScore
  <2> QED BY <1>2, <1>9, <2>3, <2>4
<1> QED BY <1>9, <1>10, <1>11 DEF TopOf

\* What scores enough of a top is one of what scores enough.
LEMMA AboveIsTop ==
    ASSUME NEW c, IsCorpus(c), NEW x, IsQuery(x), NEW k, NEW S \in SUBSET Stored,
           NEW cands, TopOf(cands, c, x, k, S), NEW p \in Policy,
           NEW enough, enough = {s \in S : FinalScore(Likeness(c, x, s)) >= p.min_score_threshold}
    PROVE  TopOf(Above(p, cands), c, x, k, enough) /\ Len(Above(p, cands)) <= Len(cands)
<1>1. PICK m \in Nat : DOMAIN cands = 1 .. m /\ Len(cands) = m /\ cands \in Seq(Scores)
  BY DEF TopOf
<1>2. PICK least \in Int : least = p.min_score_threshold
  BY QueryAssumption
<1>3. PICK T : T = {i \in DOMAIN cands : cands[i].score >= least}
  OBVIOUS
<1>4. T \in SUBSET (1 .. m)
  BY <1>1, <1>3
<1>5. PICK o : o = Ascending(T)
  OBVIOUS
<1>6. PICK kept : kept = Above(p, cands)
  OBVIOUS
<1>7. kept = AtPlaces(cands, o)
  BY <1>2, <1>3, <1>5, <1>6 DEF Above, Filtered
<1>8. PICK l \in 0 .. m : Keeps(cands, T, o, l)
  BY <1>1, <1>4, <1>5, PlacesOf
<1>9. /\ kept = [i \in 1 .. l |-> cands[o[i]]] /\ l = Cardinality(T)
      /\ \A i \in 1 .. l : o[i] \in T
      /\ \A j \in T : \E i \in 1 .. l : o[i] = j
  BY <1>7, <1>8 DEF Keeps
<1>10. \A i \in 1 .. l : /\ o[i] \in 1 .. m /\ kept[i] = cands[o[i]] /\ kept[i].score >= least
                         /\ kept[i] \in Scores
  <2>1. \A j \in 1 .. m : cands[j] \in Scores
    BY <1>1
  <2> QED BY <1>3, <1>4, <1>9, <2>1
<1>11. DOMAIN kept = 1 .. l /\ Len(kept) = l /\ kept \in Seq(Scores) /\ l \in Nat
  <2>1. l \in Nat /\ DOMAIN kept = 1 .. l
    BY <1>9
  <2>2. kept \in [1 .. l -> Scores]
    BY <1>9, <1>10, <2>1
  <2> QED BY <2>1, <2>2
<1>12. ASSUME NEW i \in DOMAIN kept PROVE \E s \in enough : kept[i] = Candidate(c, x, s)
  <2>1. o[i] \in DOMAIN cands /\ kept[i] = cands[o[i]] /\ kept[i].score >= least
    BY <1>1, <1>10, <1>11
  <2>2. PICK s \in S : cands[o[i]] = Candidate(c, x, s)
    BY <2>1 DEF TopOf
  <2>3. kept[i].score = FinalScore(Likeness(c, x, s))
    BY <2>1, <2>2, CandidateIs
  <2> QED BY <1>2, <2>1, <2>2, <2>3
<1>13. ASSUME NEW s \in enough, ~Shown(kept, Candidate(c, x, s))
       PROVE  Len(kept) = k /\ \A i \in DOMAIN kept : kept[i].score >= FinalScore(Likeness(c, x, s))
  <2>1. s \in S /\ s \in Stored /\ FinalScore(Likeness(c, x, s)) >= least
    BY <1>2
  <2>2. ~Shown(cands, Candidate(c, x, s))
    <3> SUFFICES ASSUME NEW j \in DOMAIN cands, cands[j] = Candidate(c, x, s) PROVE FALSE
      BY DEF Shown
    <3>1. cands[j].score >= least
      BY <2>1, CandidateIs
    <3>2. PICK i \in 1 .. l : o[i] = j
      BY <1>3, <1>9, <3>1
    <3> QED BY <1>10, <1>11, <1>13, <3>2 DEF Shown
  <2>3. m = k /\ \A i \in 1 .. m : cands[i].score >= FinalScore(Likeness(c, x, s))
    BY <1>1, <2>1, <2>2 DEF TopOf
  <2>4. FinalScore(Likeness(c, x, s)) \in Int /\ \A i \in 1 .. m : cands[i].score \in Int
    <3>1. \A i \in 1 .. m : cands[i] \in Scores
      BY <1>1
    <3> QED BY <2>1, <3>1, CandidateIs DEF Scores
  <2>5. T = 1 .. m
    BY <1>1, <1>2, <1>3, <2>1, <2>3, <2>4
  <2>6. l = m
    BY <1>9, <2>5, UpTo
  <2> QED BY <1>10, <1>11, <2>3, <2>6
<1> QED BY <1>1, <1>6, <1>8, <1>11, <1>12, <1>13 DEF TopOf

\* What is wanted is what is looked at, as far as it scores enough.
LEMMA WantedIs ==
    ASSUME NEW c, IsCorpus(c), NEW x \in Question, c.kind = "mock" => x.filter = NoFilter
    PROVE  /\ x.policy = None => Wanted(c, x) = ToSet(Searched(c, x))
           /\ x.policy # None =>
                 Wanted(c, x) = {s \in ToSet(Searched(c, x)) : FinalScore(Likeness(c, x, s)) >= x.policy.min_score_threshold}
<1>1. PICK S : S = ToSet(Searched(c, x))
  OBVIOUS
<1>2. ASSUME NEW s \in ToSet(c.memory)
      PROVE  s \in S <=>
               LET r == Id(s) IN
               /\ x.filter.outcome \in {None, Attr[r].outcome} /\ x.filter.contract \in {None, Attr[r].contract}
               /\ x.filter.adapter = None
               /\ x.filter.source \in {None, IF Attr[r].outcome = "Success" THEN "SimilarSuccess" ELSE "SimilarFailure"}
               /\ x.filter.tenant \in {None, Attr[r].tenant}
               /\ x.filter.start = None \/ x.filter.start =< Attr[r].created_at
               /\ x.filter.end = None \/ x.filter.end >= Attr[r].created_at
  <2>1. s \in S <=> c.kind = "mock" \/ Matches(x.filter, Id(s))
    BY <1>1, <1>2, SearchedIs
  <2>2. CASE x.filter = NoFilter
    <3>1. Matches(x.filter, Id(s))
      BY <2>2 DEF Matches, NoFilter, EqualFields
    <3> QED BY <2>1, <2>2, <3>1 DEF NoFilter
  <2>3. CASE x.filter # NoFilter
    <3>1. PICK r, f : r = Id(s) /\ f = x.filter
      OBVIOUS
    <3>2. Matches(f, r) <=>
            /\ f.outcome \in {None, Attr[r].outcome} /\ f.contract \in {None, Attr[r].contract}
            /\ f.adapter \in {None, None}
            /\ f.source \in {None, IF Attr[r].outcome = "Success" THEN "SimilarSuccess" ELSE "SimilarFailure"}
            /\ f.tenant \in {None, Attr[r].tenant}
            /\ f.start # None => Attr[r].created_at >= f.start
            /\ f.end # None => Attr[r].created_at =< f.end
      BY DEF Matches, StoredFields, EqualFields
    <3>3. \A a, b : a >= b <=> b =< a
      OBVIOUS
    <3> QED BY <2>1, <2>3, <3>1, <3>2, <3>3
  <2> QED BY <2>2, <2>3
<1>3. S \subseteq ToSet(c.memory)
  BY <1>1, SearchedIs
<1>4. Wanted(c, x) = {s \in S : x.policy # None => FinalScore(Likeness(c, x, s)) >= x.policy.min_score_threshold}
  BY <1>2, <1>3 DEF Wanted, Likeness
<1> QED BY <1>1, <1>4

\* A response that is limited: what is said of it follows what is kept.
LEMMA LimitedIs ==
    ASSUME NEW c, NEW x, NEW y, NEW p, NEW embedding, NEW answer, NEW searched, NEW kept,
           NEW got, got = Limited(Response(c, x, embedding, answer, searched), kept, y, p)
    PROVE  /\ got.candidates = kept
           /\ got.stop = IF y.late THEN "LatencyExceeded" ELSE answer.stop
           /\ got.link = TraceLink(c, embedding, searched, Len(kept))
           /\ got.provenance = [Envelope(c, x, embedding, [candidates |-> kept, stop |-> answer.stop], searched)
                                    EXCEPT !.policy = p]
<1>1. PICK L, E, A, st : /\ L = TraceLink(c, embedding, searched, Len(answer.candidates))
                         /\ E = Envelope(c, x, embedding, answer, searched)
                         /\ A = answer.candidates /\ st = answer.stop
  OBVIOUS
<1>2. PICK n, late, r : /\ n = Len(kept) /\ late = (IF y.late THEN "LatencyExceeded" ELSE st)
                        /\ r = Response(c, x, embedding, answer, searched)
  OBVIOUS
<1>3. r = [candidates |-> A, stop |-> st, link |-> L, provenance |-> E]
  BY <1>1, <1>2 DEF Response
<1>4. PICK L1, E1, E2, E3 : /\ L1 = [L EXCEPT !.returned = n] /\ E1 = [E EXCEPT !.policy = p]
                            /\ E2 = [E1 EXCEPT !.scores = kept] /\ E3 = [E2 EXCEPT !.returned = n]
  OBVIOUS
<1>5. r.stop = st
  BY ONLY <1>3
<1>6. got = [r EXCEPT !.candidates = kept, !.stop = late, !.link.returned = n, !.provenance.policy = p,
                      !.provenance.scores = kept, !.provenance.returned = n]
  BY <1>2, <1>5 DEF Limited
<1>7. got = [candidates |-> kept, stop |-> late, link |-> L1, provenance |-> E3]
  BY ONLY <1>3, <1>4, <1>6
<1>8. L1 = TraceLink(c, embedding, searched, n)
  BY <1>1, <1>4 DEF TraceLink
<1>9. PICK F : F = Envelope(c, x, embedding, [candidates |-> kept, stop |-> answer.stop], searched)
  OBVIOUS
<1>10. E3 = [F EXCEPT !.policy = p]
  <2>1. PICK k : k = [candidates |-> kept, stop |-> answer.stop]
    OBVIOUS
  <2>2. k.candidates = kept /\ k.stop = answer.stop /\ F = Envelope(c, x, embedding, k, searched)
    BY <1>9, <2>1
  <2>3. PICK q, i, d, v, a : /\ q = <<x.query, x.tenant, x.k>> /\ i = Canonical(x.query)
                             /\ d = Declared(c.using) /\ v = Version(c) /\ a = Len(A)
    OBVIOUS
  <2>4. E = [query |-> q, input |-> i, embedding |-> embedding, embedder |-> d, corpus |-> v, policy |-> None,
             scores |-> A, searched |-> searched, returned |-> a, stop |-> st]
    BY <1>1, <2>3 DEF Envelope
  <2>5. F = [query |-> q, input |-> i, embedding |-> embedding, embedder |-> d, corpus |-> v, policy |-> None,
             scores |-> kept, searched |-> searched, returned |-> n, stop |-> st]
    BY <1>1, <1>2, <2>2, <2>3 DEF Envelope
  <2>6. E1 = [query |-> q, input |-> i, embedding |-> embedding, embedder |-> d, corpus |-> v, policy |-> p,
              scores |-> A, searched |-> searched, returned |-> a, stop |-> st]
    BY ONLY <1>4, <2>4
  <2>7. E2 = [query |-> q, input |-> i, embedding |-> embedding, embedder |-> d, corpus |-> v, policy |-> p,
              scores |-> kept, searched |-> searched, returned |-> a, stop |-> st]
    <3>1. E2 = [E1 EXCEPT !.scores = kept]
      BY <1>4
    <3> QED BY ONLY <2>6, <3>1
  <2>8. E3 = [query |-> q, input |-> i, embedding |-> embedding, embedder |-> d, corpus |-> v, policy |-> p,
              scores |-> kept, searched |-> searched, returned |-> n, stop |-> st]
    <3>1. E3 = [E2 EXCEPT !.returned = n]
      BY <1>4
    <3> QED BY ONLY <2>7, <3>1
  <2>9. [F EXCEPT !.policy = p]
        = [query |-> q, input |-> i, embedding |-> embedding, embedder |-> d, corpus |-> v, policy |-> p,
           scores |-> kept, searched |-> searched, returned |-> n, stop |-> st]
    BY ONLY <2>5
  <2> QED BY <2>8, <2>9
<1>11. got.candidates = kept /\ got.stop = late /\ got.link = L1 /\ got.provenance = E3
  BY ONLY <1>7
<1> QED BY <1>1, <1>2, <1>8, <1>9, <1>10, <1>11

\* What an answer returns, and that its link and envelope tell of it.
Gives(got, c, y, embedding, cands, stop, n, policy) ==
    /\ got.candidates = cands /\ got.stop \in {stop, "LatencyExceeded"}
    /\ got.link = TraceLink(c, embedding, n, Len(cands))
    /\ got.provenance = [Envelope(c, y, embedding, [candidates |-> cands, stop |-> stop], n) EXCEPT !.policy = policy]

Disabled(x) == x.policy # None /\ ~x.policy.enabled

\* The first of the records s in the order P, as far as they score enough.
Cut(c, x, s, P) ==
    LET first == [i \in 1 .. Smaller(Len(s), Limit(x)) |-> Candidate(c, x, s[P[i]])]
    IN  IF x.policy = None THEN first ELSE Above(x.policy, first)

LEMMA ResponseGives ==
    ASSUME NEW c, NEW x, NEW embedding, NEW cands, NEW stop, NEW n, NEW answer,
           answer = [candidates |-> cands, stop |-> stop]
    PROVE  Gives(Response(c, x, embedding, answer, n), c, x, embedding, cands, stop, n, None)
<1>1. answer.candidates = cands /\ answer.stop = stop
  OBVIOUS
<1>2. PICK r, L, E : r = Response(c, x, embedding, answer, n) /\ L = TraceLink(c, embedding, n, Len(cands))
                     /\ E = Envelope(c, x, embedding, answer, n)
  OBVIOUS
<1>3. r = [candidates |-> cands, stop |-> stop, link |-> L, provenance |-> E]
  BY <1>1, <1>2 DEF Response
<1>4. r.candidates = cands /\ r.stop = stop /\ r.link = L /\ r.provenance = E
  BY ONLY <1>3
<1>5. [E EXCEPT !.policy = None] = E
  BY <1>2 DEF Envelope
<1> QED BY <1>2, <1>4, <1>5 DEF Gives

LEMMA LimitedGives ==
    ASSUME NEW c, NEW x, NEW y, NEW embedding, NEW cands, NEW stop, NEW n, NEW answer,
           answer = [candidates |-> cands, stop |-> stop]
    PROVE  /\ Gives(LimitedTo(Response(c, y, embedding, answer, n), x, x.policy),
                    c, y, embedding, Above(x.policy, cands), stop, n, x.policy)
           /\ ~x.late => LimitedTo(Response(c, y, embedding, answer, n), x, x.policy).stop = stop
<1>1. answer.candidates = cands /\ answer.stop = stop
  OBVIOUS
<1>2. PICK kept, r : kept = Above(x.policy, cands) /\ r = Response(c, y, embedding, answer, n)
  OBVIOUS
<1>3. r.candidates = cands
  BY <1>1, <1>2 DEF Response
<1>4. PICK got : got = LimitedTo(r, x, x.policy) /\ got = Limited(r, kept, x, x.policy)
  BY <1>2, <1>3 DEF LimitedTo
<1>5. /\ got.candidates = kept
      /\ got.stop = IF x.late THEN "LatencyExceeded" ELSE answer.stop
      /\ got.link = TraceLink(c, embedding, n, Len(kept))
      /\ got.provenance = [Envelope(c, y, embedding, [candidates |-> kept, stop |-> answer.stop], n)
                               EXCEPT !.policy = x.policy]
  BY <1>2, <1>4, LimitedIs
<1>6. Gives(got, c, y, embedding, kept, stop, n, x.policy)
  BY <1>1, <1>5 DEF Gives
<1> QED BY <1>1, <1>2, <1>4, <1>5, <1>6

LEMMA NoneAbove == ASSUME NEW p PROVE Above(p, <<>>) = <<>>
<1>1. PICK s : s = <<>> /\ DOMAIN s = 1 .. 0
  OBVIOUS
<1>2. PICK T : T = {i \in DOMAIN s : s[i].score >= p.min_score_threshold}
  OBVIOUS
<1>3. T = {} /\ T \in SUBSET (1 .. 0)
  BY <1>1, <1>2
<1>4. Above(p, s) = AtPlaces(s, Ascending(T))
  BY <1>2 DEF Above, Filtered
<1>5. PICK m \in 0 .. 0 : Keeps(s, T, Ascending(T), m)
  BY <1>1, <1>3, PlacesOf
<1>6. AtPlaces(s, Ascending(T)) = [k \in 1 .. 0 |-> s[Ascending(T)[k]]]
  BY <1>5 DEF Keeps
<1> QED BY <1>1, <1>4, <1>6

LEMMA RefusedIs ==
    ASSUME NEW c, IsCorpus(c), NEW x \in Question, ~Disabled(x), NeedsTenant(c, x)
    PROVE  /\ \E y : Gives(AnswerTo(c, x), c, y, Nothing, <<>>, "TenantScopeMissing", 0, x.policy)
           /\ ~x.late => AnswerTo(c, x).stop = "TenantScopeMissing"
<1>1. ASSUME NEW y, NeedsTenant(c, y)
      PROVE  RecallFrom(c, y) = Response(c, y, Nothing, [candidates |-> <<>>, stop |-> "TenantScopeMissing"], 0)
  BY <1>1 DEF NeedsTenant, RecallFrom, RecallWithFilter
<1>2. CASE x.policy = None
  <2>1. Gives(RecallFrom(c, x), c, x, Nothing, <<>>, "TenantScopeMissing", 0, None)
    BY <1>1, ResponseGives
  <2>2. RecallFrom(c, x).stop = "TenantScopeMissing"
    BY <1>1 DEF Response
  <2> QED BY <1>2, <2>1, <2>2 DEF AnswerTo
<1>3. CASE x.policy # None
  <2>1. PICK y : y = LimitedQuery(x, x.policy)
    OBVIOUS
  <2>2. NeedsTenant(c, y)
    BY <1>3, <2>1, QuestionIs DEF NeedsTenant
  <2>3. AnswerTo(c, x) = LimitedTo(RecallFrom(c, y), x, x.policy)
    BY <1>3, <2>1 DEF AnswerTo, RecallWithPolicy, LimitedQuery, Disabled
  <2>4. /\ Gives(AnswerTo(c, x), c, y, Nothing, Above(x.policy, <<>>), "TenantScopeMissing", 0, x.policy)
        /\ ~x.late => AnswerTo(c, x).stop = "TenantScopeMissing"
    BY <1>1, <2>2, <2>3, LimitedGives
  <2> QED BY <2>4, NoneAbove
<1> QED BY <1>2, <1>3

LEMMA ServedIs ==
    ASSUME NEW c, IsCorpus(c), NEW x \in Question, ~Disabled(x), ~NeedsTenant(c, x),
           NEW s, s = Searched(c, x), NEW P, P = Order(c, Scored(c, x.query, s))
    PROVE  /\ IsSort(P, Preference(c, Scored(c, x.query, s)), Len(s))
           /\ \E y, stop : Gives(AnswerTo(c, x), c, y, Vector[c.using][x.query], Cut(c, x, s, P), stop, Len(s), x.policy)
<1>1. CASE x.policy = None
  <2>1. IsQuery(x) /\ Limit(x) = x.k
    BY <1>1, QuestionIs DEF Limit
  <2>2. PICK cands : cands = [i \in 1 .. Smaller(Len(s), x.k) |-> Candidate(c, x, s[P[i]])]
    OBVIOUS
  <2>3. IsSort(P, Preference(c, Scored(c, x.query, s)), Len(s)) /\ \E stop : RecallFrom(c, x) = Answered(c, x, s, P, stop)
    BY <2>1, RecallIs
  <2>4. PICK stop : RecallFrom(c, x) = Answered(c, x, s, P, stop)
    BY <2>3
  <2>5. Answered(c, x, s, P, stop)
        = Response(c, x, Vector[c.using][x.query], [candidates |-> cands, stop |-> stop], Len(s))
    BY <2>2 DEF Answered
  <2>6. Gives(AnswerTo(c, x), c, x, Vector[c.using][x.query], cands, stop, Len(s), None)
    BY <1>1, <2>4, <2>5, ResponseGives DEF AnswerTo
  <2> QED BY <1>1, <2>1, <2>2, <2>3, <2>6 DEF Cut
<1>2. CASE x.policy # None
  <2>1. PICK y : y = LimitedQuery(x, x.policy)
    OBVIOUS
  <2>2. IsQuery(y) /\ y.query = x.query /\ y.filter = x.filter /\ y.tenant = x.tenant /\ y.k = Limit(x)
    BY <1>2, <2>1, QuestionIs
  <2>3. ~NeedsTenant(c, y) /\ s = Searched(c, y) /\ P = Order(c, Scored(c, y.query, s))
    BY <2>2 DEF NeedsTenant, Searched
  <2>4. IsSort(P, Preference(c, Scored(c, y.query, s)), Len(s)) /\ \E stop : RecallFrom(c, y) = Answered(c, y, s, P, stop)
    BY <2>2, <2>3, RecallIs
  <2>5. PICK stop : RecallFrom(c, y) = Answered(c, y, s, P, stop)
    BY <2>4
  <2>6. PICK cands : cands = [i \in 1 .. Smaller(Len(s), Limit(x)) |-> Candidate(c, x, s[P[i]])]
    OBVIOUS
  <2>7. \A r : Candidate(c, x, r) = Candidate(c, y, r)
    BY <2>2 DEF Candidate, Likeness
  <2>8. cands = [i \in 1 .. Smaller(Len(s), y.k) |-> Candidate(c, y, s[P[i]])]
    BY <2>2, <2>6, <2>7
  <2>9. RecallFrom(c, y)
        = Response(c, y, Vector[c.using][y.query], [candidates |-> cands, stop |-> stop], Len(s))
    BY <2>5, <2>8 DEF Answered
  <2>10. AnswerTo(c, x) = LimitedTo(RecallFrom(c, y), x, x.policy)
    BY <1>2, <2>1 DEF AnswerTo, RecallWithPolicy, LimitedQuery, Disabled
  <2>11. Gives(AnswerTo(c, x), c, y, Vector[c.using][y.query], Above(x.policy, cands), stop, Len(s), x.policy)
    BY <2>9, <2>10, LimitedGives
  <2> QED BY <1>2, <2>2, <2>4, <2>6, <2>11 DEF Cut
<1> QED BY <1>1, <1>2

\* What is returned is a top of what is wanted.
LEMMA CutIs ==
    ASSUME NEW c, IsCorpus(c), NEW x \in Question, c.kind = "mock" => x.filter = NoFilter,
           NEW s, s = Searched(c, x), NEW P, IsSort(P, Preference(c, Scored(c, x.query, s)), Len(s))
    PROVE  TopOf(Cut(c, x, s, P), c, x, Limit(x), Wanted(c, x)) /\ Len(Cut(c, x, s, P)) <= Len(s)
<1>1. s \in Seq(Stored) /\ ToSet(s) \in SUBSET Stored
  BY SearchedIs DEF ToSet
<1>2. PICK y : y = [query |-> x.query, k |-> Limit(x)]
  OBVIOUS
<1>3. IsQuery(y) /\ IsQuery(x) /\ y.k = Limit(x) /\ y.query = x.query
  <2>1. x.policy = None => Limit(x) = x.k
    BY DEF Limit
  <2> QED BY <1>2, <2>1, QuestionIs DEF IsQuery
<1>4. \A r : Candidate(c, y, r) = Candidate(c, x, r) /\ Likeness(c, y, r) = Likeness(c, x, r)
  BY <1>3 DEF Candidate, Likeness
<1>5. PICK m : m = Smaller(Len(s), Limit(x))
  OBVIOUS
<1>6. PICK first : first = [i \in 1 .. m |-> Candidate(c, x, s[P[i]])]
  OBVIOUS
<1>7. first = [i \in 1 .. m |-> Candidate(c, y, s[P[i]])]
  BY <1>4, <1>6
<1>8. IsSort(P, Preference(c, Scored(c, y.query, s)), Len(s)) /\ m = Smaller(Len(s), y.k)
  BY <1>3, <1>5
<1>9. TopOf(first, c, y, y.k, ToSet(s))
  BY <1>1, <1>3, <1>7, <1>8, RankedIsTop
<1>10. TopOf(first, c, x, Limit(x), ToSet(s))
  BY <1>3, <1>4, <1>9 DEF TopOf
<1>11. Len(first) = m /\ m <= Len(s)
  <2>1. Len(s) \in Nat /\ Limit(x) \in Nat
    BY <1>1, <1>3 DEF IsQuery
  <2>2. m \in Nat /\ m <= Len(s)
    BY <1>5, <2>1 DEF Smaller
  <2> QED BY <1>6, <2>2
<1>12. CASE x.policy = None
  <2>1. Cut(c, x, s, P) = first
    BY <1>5, <1>6, <1>12 DEF Cut
  <2>2. Wanted(c, x) = ToSet(s)
    BY <1>12, WantedIs
  <2> QED BY <1>10, <1>11, <2>1, <2>2
<1>13. CASE x.policy # None
  <2>1. Cut(c, x, s, P) = Above(x.policy, first)
    BY <1>5, <1>6, <1>13 DEF Cut
  <2>2. PICK enough : enough = {r \in ToSet(s) : FinalScore(Likeness(c, x, r)) >= x.policy.min_score_threshold}
    OBVIOUS
  <2>3. Wanted(c, x) = enough
    BY <1>13, <2>2, WantedIs
  <2>4. x.policy \in Policy
    BY <1>13, QuestionIs
  <2>5. TopOf(Above(x.policy, first), c, x, Limit(x), enough) /\ Len(Above(x.policy, first)) <= Len(first)
    BY <1>1, <1>3, <1>10, <2>2, <2>4, AboveIsTop
  <2>6. Len(Above(x.policy, first)) \in Nat
    BY <2>5 DEF TopOf
  <2> QED BY <1>1, <1>11, <2>1, <2>3, <2>5, <2>6
<1> QED BY <1>12, <1>13

LEMMA CorpusIs == StoreInv => IsCorpus(Corpus)
BY DEF StoreInv, StoreTypes, IsCorpus, Corpus

LEMMA RefusedCases ==
    ASSUME NEW c, NEW x PROVE Refused(c, x) <=> Disabled(x) \/ NeedsTenant(c, x)
BY DEF Refused, Disabled, NeedsTenant

LEMMA DisabledIs ==
    ASSUME NEW c, NEW x, Disabled(x) PROVE AnswerTo(c, x) = EmptyResponse(c)
BY DEF Disabled, AnswerTo, RecallWithPolicy

LEMMA AnswerIsBest ==
    ASSUME NEW c, IsCorpus(c), NEW x \in Question, c.kind = "mock" => x.filter = NoFilter
    PROVE  Best(c, x, AnswerTo(c, x))
<1>1. PICK got : got = AnswerTo(c, x)
  OBVIOUS
<1>2. CASE Disabled(x)
  <2>1. got.candidates = <<>> /\ x.policy # None /\ ~x.policy.enabled
    BY <1>1, <1>2, DisabledIs DEF EmptyResponse, Disabled
  <2> QED BY <1>1, <1>2, <2>1, RefusedCases DEF Best
<1>3. CASE ~Disabled(x) /\ NeedsTenant(c, x)
  <2>1. PICK y : Gives(got, c, y, Nothing, <<>>, "TenantScopeMissing", 0, x.policy)
    BY <1>1, <1>3, RefusedIs
  <2>2. got.candidates = <<>> /\ got.stop \in {"TenantScopeMissing", "LatencyExceeded"}
    BY <2>1 DEF Gives
  <2>3. ~x.late => got.stop = "TenantScopeMissing"
    BY <1>1, <1>3, RefusedIs
  <2> QED BY <1>1, <1>3, <2>2, <2>3, RefusedCases DEF Best
<1>4. CASE ~Disabled(x) /\ ~NeedsTenant(c, x)
  <2>1. PICK s : s = Searched(c, x)
    OBVIOUS
  <2>2. PICK P : P = Order(c, Scored(c, x.query, s))
    OBVIOUS
  <2>3. PICK y, stop : Gives(got, c, y, Vector[c.using][x.query], Cut(c, x, s, P), stop, Len(s), x.policy)
    BY <1>1, <1>4, <2>1, <2>2, ServedIs
  <2>4. IsSort(P, Preference(c, Scored(c, x.query, s)), Len(s))
    BY <1>4, <2>1, <2>2, ServedIs
  <2>5. PICK cands : cands = Cut(c, x, s, P)
    OBVIOUS
  <2>6. got.candidates = cands
    BY <2>3, <2>5 DEF Gives
  <2>7. TopOf(cands, c, x, Limit(x), Wanted(c, x))
    BY <2>1, <2>4, <2>5, CutIs
  <2>8. IsQuery(x) /\ Wanted(c, x) \subseteq Stored
    <3>1. ToSet(c.memory) \subseteq Stored
      BY DEF IsCorpus, ToSet
    <3> QED BY <3>1, QuestionIs DEF Wanted
  <2>9. \A r \in Wanted(c, x) : Candidate(c, x, r).id = Id(r)
    BY <2>8, CandidateIs
  <2>10. IdsIn(got) \subseteq {Id(r) : r \in Wanted(c, x)}
    BY <2>6, <2>7, <2>9 DEF IdsIn, TopOf
  <2>11. ASSUME NEW r \in Wanted(c, x), Id(r) \notin IdsIn(got)
         PROVE  /\ Len(got.candidates) = Limit(x)
                /\ \A i \in DOMAIN got.candidates :
                      got.candidates[i].score >= FinalScore(Similarity[c.using][x.query][r])
    <3>1. ~Shown(cands, Candidate(c, x, r))
      BY <2>6, <2>9, <2>11 DEF Shown, IdsIn
    <3> QED BY <2>6, <2>7, <3>1 DEF TopOf, Likeness
  <2> QED BY <1>1, <1>4, <2>10, <2>11, RefusedCases DEF Best
<1> QED BY <1>2, <1>3, <1>4

\* Whatever was recorded, with any embedder, an answer holds only what was wanted, and
\* what it leaves out was beyond the limit and scores no more than any candidate; a query
\* that lacks its tenant is told so (recall_with_filter, recall_with_policy, normalize_batch).
THEOREM RecallFindsTheBest == Spec => []AnswersAreBest
<1>1. StoreInv => AnswersAreBest
  BY CorpusIs, AnswerIsBest DEF AnswersAreBest, Asked
<1> QED BY <1>1, Stores, PTL

----------------------------------------------------------------------------
(* Answers can be audited *)

LEMMA AnswerIsAuditable ==
    ASSUME NEW c, IsCorpus(c), NEW x \in Question, c.kind = "mock" => x.filter = NoFilter
    PROVE  Auditable(c, x, AnswerTo(c, x))
<1>1. PICK got : got = AnswerTo(c, x)
  OBVIOUS
<1>2. \A f : f = Nothing => DOMAIN f = {}
  BY DEF Nothing
<1>3. Version(c) # Nothing
  <2>1. "schema" \in DOMAIN Version(c)
    BY DEF Version, Fingerprint
  <2> QED BY <1>2, <2>1
<1>4. \A embedding, n, k : /\ TraceLink(c, embedding, n, k) # Nothing
                           /\ TraceLink(c, embedding, n, k).corpus = Version(c)
                           /\ TraceLink(c, embedding, n, k).embedding = embedding
                           /\ TraceLink(c, embedding, n, k).searched = n
                           /\ TraceLink(c, embedding, n, k).returned = k
  <2> TAKE embedding, n, k
  <2>1. "corpus" \in DOMAIN TraceLink(c, embedding, n, k)
    BY DEF TraceLink
  <2> QED BY <1>2, <2>1 DEF TraceLink
<1>5. ASSUME NEW y, NEW embedding, NEW cands, NEW stop, NEW n, Gives(got, c, y, embedding, cands, stop, n, x.policy)
      PROVE  /\ got.link.returned = Len(got.candidates) /\ got.link.searched = n /\ got.candidates = cands
             /\ got.provenance # Nothing /\ got.link.embedding = embedding
             /\ got.provenance.scores = got.candidates
             /\ got.provenance.returned = got.link.returned
             /\ got.provenance.embedding = got.link.embedding
             /\ got.stop \in {got.provenance.stop, "LatencyExceeded"}
             /\ MissingProvenance(RecallMetadata(got)) = IF embedding = Nothing THEN "EmbeddingHash" ELSE "None"
  <2>1. PICK E : E = got.provenance
    OBVIOUS
  <2>2. PICK a : a = [candidates |-> cands, stop |-> stop]
    OBVIOUS
  <2>3. a.candidates = cands /\ a.stop = stop
    BY <2>2
  <2>4. E = [Envelope(c, y, embedding, a, n) EXCEPT !.policy = x.policy]
    BY <1>5, <2>1, <2>2 DEF Gives
  <2>5. /\ E.scores = cands /\ E.returned = Len(cands) /\ E.embedding = embedding /\ E.stop = stop
        /\ "scores" \in DOMAIN E
    BY <2>3, <2>4 DEF Envelope
  <2>6. E # Nothing
    BY <1>2, <2>5
  <2>7. got.candidates = cands /\ got.stop \in {stop, "LatencyExceeded"} /\ got.link = TraceLink(c, embedding, n, Len(cands))
    BY <1>5 DEF Gives
  <2>8. PICK meta_, link : meta_ = RecallMetadata(got) /\ link = got.link
    OBVIOUS
  <2>9. /\ meta_.link = link /\ meta_.performed = TRUE /\ meta_.provenance = E /\ "link" \in DOMAIN meta_
    BY <2>1, <2>8 DEF RecallMetadata
  <2>10. meta_ # Nothing
    BY <1>2, <2>9
  <2>11. MissingProvenance(meta_) = IF embedding = Nothing THEN "EmbeddingHash" ELSE "None"
    BY <1>3, <1>4, <2>6, <2>7, <2>8, <2>9, <2>10 DEF MissingProvenance
  <2> QED BY <1>4, <2>1, <2>5, <2>6, <2>7, <2>8, <2>11
<1>6. CASE Disabled(x)
  <2>1. PICK L : L = [TraceLink(c, Nothing, 0, 0) EXCEPT !.embedder = None]
    OBVIOUS
  <2>2. /\ L.corpus = Version(c) /\ L.embedding = Nothing /\ L.searched = 0 /\ L.returned = 0
        /\ "corpus" \in DOMAIN L
    BY <2>1 DEF TraceLink
  <2>3. got = [candidates |-> <<>>, stop |-> "BelowThreshold", link |-> L, provenance |-> Nothing]
    BY <1>1, <1>6, <2>1, DisabledIs DEF EmptyResponse
  <2>4. got.candidates = <<>> /\ got.link = L /\ got.provenance = Nothing
    BY ONLY <2>3
  <2>5. PICK meta_ : meta_ = RecallMetadata(got)
    OBVIOUS
  <2>6. meta_.link = L /\ "link" \in DOMAIN meta_
    BY <2>4, <2>5 DEF RecallMetadata
  <2>7. meta_ # Nothing /\ L # Nothing
    BY <1>2, <2>2, <2>6
  <2>8. MissingProvenance(meta_) = "EmbeddingHash"
    BY <1>3, <2>2, <2>6, <2>7 DEF MissingProvenance
  <2>9. Refused(c, x)
    BY <1>6, RefusedCases
  <2> QED BY <1>1, <2>2, <2>4, <2>5, <2>8, <2>9 DEF Auditable
<1>7. CASE ~Disabled(x) /\ NeedsTenant(c, x)
  <2>1. PICK y : Gives(got, c, y, Nothing, <<>>, "TenantScopeMissing", 0, x.policy)
    BY <1>1, <1>7, RefusedIs
  <2>2. Refused(c, x)
    BY <1>7, RefusedCases
  <2> QED BY <1>1, <1>5, <2>1, <2>2 DEF Auditable
<1>8. CASE ~Disabled(x) /\ ~NeedsTenant(c, x)
  <2>1. PICK s : s = Searched(c, x)
    OBVIOUS
  <2>2. PICK P : P = Order(c, Scored(c, x.query, s))
    OBVIOUS
  <2>3. PICK y, stop : Gives(got, c, y, Vector[c.using][x.query], Cut(c, x, s, P), stop, Len(s), x.policy)
    BY <1>1, <1>8, <2>1, <2>2, ServedIs
  <2>4. IsSort(P, Preference(c, Scored(c, x.query, s)), Len(s))
    BY <1>8, <2>1, <2>2, ServedIs
  <2>5. Len(Cut(c, x, s, P)) <= Len(s)
    BY <2>1, <2>4, CutIs
  <2>6. Vector[c.using][x.query] # Nothing
    BY QuestionIs, QueryAssumption DEF IsCorpus, IsQuery
  <2>7. ~Refused(c, x)
    BY <1>8, RefusedCases
  <2> QED BY <1>1, <1>5, <2>3, <2>5, <2>6, <2>7 DEF Auditable
<1> QED BY <1>6, <1>7, <1>8

\* The link and the envelope of an answer tell of exactly what it returns, with any
\* embedder, policy and corpus, and the check of provenance finds all of it unless the
\* query was refused (recall_with_policy, validate_recall_provenance).
THEOREM RecallIsAuditable == Spec => []AuditableRecall
<1>1. StoreInv => AuditableRecall
  BY CorpusIs, AnswerIsAuditable DEF AuditableRecall, Asked
<1> QED BY <1>1, Stores, PTL

----------------------------------------------------------------------------
(* Verified embeddings *)

\* The places by how like the query they are, equals in order.
Closer(likeness) ==
    {p \in (DOMAIN likeness) \X (DOMAIN likeness) :
        \/ likeness[p[1]] > likeness[p[2]]
        \/ (~(likeness[p[2]] > likeness[p[1]]) /\ p[1] < p[2])}

Raw(found, n) == [i \in 1 .. n |-> found[i].raw]

\* Both providers rank like verify_ranking, if equals are stored in the order of their ids.
LEMMA OrderIsRanking ==
    ASSUME NEW c, IsCorpus(c), NEW n \in Nat, NEW found \in [1 .. n -> Finding],
           c.kind = "mock" \/ \A i, j \in 1 .. n : i < j => found[i].id <= found[j].id,
           NEW likeness, likeness = Raw(found, n)
    PROVE  Order(c, found) = Ordered(1 .. n, Closer(likeness))
<1>1. likeness \in [1 .. n -> Int] /\ \A i \in 1 .. n : found[i].id \in Nat /\ found[i].raw = likeness[i]
  BY DEF Finding, Raw
<1>2. CASE c.kind = "mock"
  <2>1. {p \in (1 .. n) \X (1 .. n) :
            \/ found[p[1]].raw > found[p[2]].raw
            \/ (~(found[p[2]].raw > found[p[1]].raw) /\ p[1] < p[2])} = Closer(likeness)
    BY <1>1 DEF Closer
  <2>2. AlikeOrder(found) = Ordered(1 .. n, Closer(likeness))
    BY <2>1 DEF AlikeOrder, StablePlaces
  <2> QED BY <1>2, <2>2 DEF Order
<1>3. CASE c.kind # "mock"
  <2>1. ASSUME NEW i \in 1 .. n, NEW j \in 1 .. n
        PROVE  Better(found[i], found[j]) \/ (~Better(found[j], found[i]) /\ i < j)
               <=> likeness[i] > likeness[j] \/ (~(likeness[j] > likeness[i]) /\ i < j)
    <3>1. PICK a \in Int, b \in Int : a = likeness[i] /\ b = likeness[j]
      BY <1>1
    <3>2. PICK v \in Nat, w \in Nat : v = found[i].id /\ w = found[j].id
      BY <1>1
    <3>3. found[i].raw = a /\ found[j].raw = b
      BY <1>1, <3>1
    <3>4. (i < j => v <= w) /\ (j < i => w <= v) /\ (i = j => v = w /\ a = b)
      BY <1>3, <3>1, <3>2
    <3> QED BY <3>1, <3>2, <3>3, <3>4 DEF Better
  <2>2. {p \in (1 .. n) \X (1 .. n) :
            \/ Better(found[p[1]], found[p[2]])
            \/ (~Better(found[p[2]], found[p[1]]) /\ p[1] < p[2])} = Closer(likeness)
    BY <1>1, <2>1 DEF Closer
  <2>3. PreferredOrder(found) = Ordered(1 .. n, Closer(likeness))
    BY <2>2 DEF PreferredOrder, StablePlaces
  <2> QED BY <1>3, <2>3 DEF Order
<1> QED BY <1>2, <1>3

LEMMA StoredAre ==
    ASSUME NEW s \in Seq(Stored), NEW ids, ids = IdsOf(s)
    PROVE  \E n \in Nat : n = Len(ids) /\ DOMAIN ids = 1 .. n /\ \A i \in 1 .. n : ids[i] \in Record
<1>1. PICK n \in Nat : n = Len(s) /\ DOMAIN s = 1 .. n
  OBVIOUS
<1>2. \A i \in 1 .. n : s[i][1] \in Record
  BY <1>1 DEF Stored
<1>3. ids = [i \in 1 .. n |-> s[i][1]]
  BY <1>1 DEF IdsOf, Id
<1> QED BY <1>2, <1>3

\* The records ids, stored by embedder e.
StoredBy(ids, e) == [i \in DOMAIN ids |-> <<ids[i], e>>]

Findings(ids, likeness) == [i \in 1 .. Len(ids) |-> [id |-> ids[i], raw |-> likeness[i]]]

Likenesses(ids, e, q) == [i \in 1 .. Len(ids) |-> Cosine(Vector[e][q], Vectors(ids, e)[i])]

\* The candidates are the first k of ids in the order P.
ShowsFirst(cands, ids, k, P) ==
    /\ DOMAIN cands = 1 .. Smaller(Len(ids), k) /\ Len(cands) = Smaller(Len(ids), k)
    /\ \A i \in 1 .. Smaller(Len(ids), k) : cands[i].id = ids[P[i]]

LEMMA AnswerByIs ==
    ASSUME StoreInv, NEW e \in Embedders, NEW q \in Query, NEW k \in TopK, NEW ids, ids = IdsOf(memory),
           NEW found, found = Findings(ids, Likenesses(ids, e, q))
    PROVE  /\ found \in [1 .. Len(ids) -> Finding] /\ Len(ids) \in Nat
           /\ ShowsFirst(AnswerBy(e, q, k, ids).candidates, ids, k, Order(Corpus, found))
<1>a. PICK likeness : likeness = Likenesses(ids, e, q)
  OBVIOUS
<1>1. memory \in Seq(Stored) /\ IsCorpus(Corpus)
  BY CorpusIs DEF StoreInv, StoreTypes
<1>2. PICK n \in Nat : n = Len(ids) /\ DOMAIN ids = 1 .. n /\ \A i \in 1 .. n : ids[i] \in Record
  BY <1>1, StoredAre
<1>3. PICK s : s = StoredBy(ids, e)
  OBVIOUS
<1>4. s \in Seq(Stored) /\ Len(s) = n /\ DOMAIN s = 1 .. n /\ \A i \in 1 .. n : s[i] = <<ids[i], e>> /\ Id(s[i]) = ids[i]
  <2>1. s \in [1 .. n -> Stored] /\ \A i \in 1 .. n : s[i] = <<ids[i], e>>
    BY <1>2, <1>3 DEF StoredBy, Stored
  <2> QED BY <2>1 DEF Id
<1>5. PICK c : c = [Corpus EXCEPT !.using = e, !.memory = s, !.tenants = "Optional"]
  OBVIOUS
<1>6. PICK x : x = [query |-> q, tenant |-> None, k |-> k, filter |-> NoFilter]
  OBVIOUS
<1>7. PICK got : got = AnswerBy(e, q, k, ids) /\ got = RecallFrom(c, x)
  BY <1>3, <1>5, <1>6 DEF AnswerBy, StoredBy
<1>8. c.kind = Corpus.kind /\ c.using = e /\ c.memory = s /\ c.tenants = "Optional"
  BY <1>5 DEF Corpus
<1>9. IsCorpus(c) /\ IsQuery(x) /\ ~NeedsTenant(c, x) /\ Searched(c, x) = s /\ x.k = k /\ x.query = q /\ k \in Nat
  <2>1. IsCorpus(c)
    BY <1>1, <1>4, <1>8 DEF IsCorpus
  <2>2. x.k = k /\ x.query = q /\ x.filter = NoFilter /\ k \in Nat
    BY <1>6, QueryAssumption
  <2> QED BY <1>8, <2>1, <2>2, UnfilteredIs DEF IsQuery, NeedsTenant
<1>10. PICK scored : scored = Scored(c, x.query, s)
  OBVIOUS
<1>11. /\ scored \in [1 .. n -> Finding]
       /\ \A i \in 1 .. n : scored[i] = [id |-> Id(s[i]), raw |-> Likeness(c, x, s[i])]
  <2>1. IsScored(scored, c, x, s)
    BY <1>4, <1>9, <1>10, ScoredIs
  <2>2. Len(s) = n
    BY <1>4
  <2> QED BY <2>1, <2>2 DEF IsScored
<1>12. \A i \in 1 .. n : Likeness(c, x, s[i]) = likeness[i]
  <2> TAKE i \in 1 .. n
  <2>1. s[i] \in Stored /\ s[i] = <<ids[i], e>>
    BY <1>4
  <2>2. Likeness(c, x, s[i]) = Cosine(Vector[e][q], StoredVector(s[i]))
    BY <1>8, <1>9, <2>1, SimilarityIs DEF Likeness
  <2>3. Vectors(ids, e)[i] = StoredVector(<<ids[i], e>>)
    BY <1>2 DEF Vectors
  <2> QED BY <1>2, <1>a, <2>1, <2>2, <2>3 DEF Likenesses
<1>13. \A i \in 1 .. n : scored[i] = [id |-> ids[i], raw |-> likeness[i]]
  BY <1>4, <1>11, <1>12
<1>14. scored = found
  <2>1. scored = [i \in 1 .. n |-> [id |-> ids[i], raw |-> likeness[i]]]
    BY <1>11, <1>13
  <2> QED BY <1>2, <1>a, <2>1 DEF Findings
<1>15. PICK P : P = Order(c, found) /\ P = Order(Corpus, found)
  BY <1>8 DEF Order
<1>16. IsSort(P, Preference(c, found), n) /\ \E stop : got = Answered(c, x, s, P, stop)
  <2>1. found = Scored(c, x.query, s) /\ s = Searched(c, x) /\ P = Order(c, found)
    BY <1>9, <1>10, <1>14, <1>15
  <2>2. IsSort(P, Preference(c, found), Len(s)) /\ \E stop : RecallFrom(c, x) = Answered(c, x, s, P, stop)
    BY <1>9, <2>1, RecallIs
  <2> QED BY <1>4, <1>7, <2>2
<1>17. PICK stop : got = Answered(c, x, s, P, stop)
  BY <1>16
<1>18. PICK m \in Nat : m = Smaller(n, k) /\ m <= n
  BY <1>9 DEF Smaller
<1>19. PICK cands : cands = [i \in 1 .. m |-> Candidate(c, x, s[P[i]])]
  OBVIOUS
<1>20. got = Response(c, x, Vector[c.using][x.query], [candidates |-> cands, stop |-> stop], n)
  BY <1>4, <1>9, <1>17, <1>18, <1>19 DEF Answered
<1>21. got.candidates = cands
  <2>1. Gives(got, c, x, Vector[c.using][x.query], cands, stop, n, None)
    BY <1>20, ResponseGives
  <2> QED BY <2>1 DEF Gives
<1>22. P \in [1 .. n -> 1 .. n]
  BY <1>16 DEF IsSort
<1>23. \A i \in 1 .. m : cands[i].id = ids[P[i]]
  <2> TAKE i \in 1 .. m
  <2>1. P[i] \in 1 .. n
    BY <1>18, <1>22
  <2>2. cands[i] = Candidate(c, x, s[P[i]])
    BY <1>19
  <2> QED BY <1>4, <2>1, <2>2 DEF Candidate
<1>24. DOMAIN cands = 1 .. m /\ Len(cands) = m
  BY <1>19
<1>25. ShowsFirst(cands, ids, k, P)
  BY <1>2, <1>18, <1>23, <1>24 DEF ShowsFirst
<1> QED BY <1>2, <1>7, <1>11, <1>14, <1>15, <1>21, <1>25

LEMMA FindingsAre ==
    ASSUME StoreInv, NEW e \in Embedders, NEW q \in Query, NEW ids, ids = IdsOf(memory)
    PROVE  Findings(ids, Likenesses(ids, e, q)) \in [1 .. Len(ids) -> Finding]
<1>1. memory \in Seq(Stored)
  BY DEF StoreInv, StoreTypes
<1>2. PICK n \in Nat : n = Len(ids) /\ DOMAIN ids = 1 .. n /\ \A i \in 1 .. n : ids[i] \in Record
  BY <1>1, StoredAre
<1>3. \A i \in 1 .. n : Cosine(Vector[e][q], Vectors(ids, e)[i]) \in Int
  <2> TAKE i \in 1 .. n
  <2>1. <<ids[i], e>> \in Stored /\ Vectors(ids, e)[i] = StoredVector(<<ids[i], e>>)
    BY <1>2 DEF Stored, Vectors
  <2>2. Cosine(Vector[e][q], StoredVector(<<ids[i], e>>)) \in Int
    BY <2>1, SimilarityIs
  <2> QED BY <2>1, <2>2
<1>4. \A i \in 1 .. n : [id |-> ids[i], raw |-> Likenesses(ids, e, q)[i]] \in Finding
  BY <1>2, <1>3, RecallAssumption DEF Likenesses, Finding
<1> QED BY <1>2, <1>4 DEF Findings

LEMMA RankingIs ==
    ASSUME NEW e \in Embedders, NEW q \in Query, NEW ids, NEW n \in Nat, n = Len(ids), DOMAIN ids = 1 .. n,
           NEW likeness, likeness = Likenesses(ids, e, q)
    PROVE  Ranking(Vector[e][q], Vectors(ids, e)) = Ordered(1 .. n, Closer(likeness))
<1>a. DOMAIN Vectors(ids, e) = 1 .. n
  BY DEF Vectors
<1>1. PICK vectors : vectors = Vectors(ids, e) /\ DOMAIN vectors = 1 .. n
  BY <1>a
<1>2. likeness = [i \in 1 .. n |-> Cosine(Vector[e][q], vectors[i])]
  BY <1>1 DEF Likenesses
<1>3. Ranking(Vector[e][q], vectors) = StablePlaces(likeness, LAMBDA a, b : a > b)
  BY <1>1, <1>2, Zenon DEF Ranking
<1>4. StablePlaces(likeness, LAMBDA a, b : a > b) = Ordered(DOMAIN likeness, Closer(likeness))
  BY Zenon DEF StablePlaces, Closer
<1>5. DOMAIN likeness = 1 .. n
  BY <1>2
<1> QED BY <1>1, <1>3, <1>4, <1>5, Zenon

\* Embeddings that pass a contract put the records in one order.
LEMMA VerifiedOrders ==
    ASSUME StoreInv, NEW e \in Embedders, NEW f \in Embedders, NEW q \in Query, NEW ids, ids = IdsOf(memory),
           VerifiedExact(e, f, q, ids) \/ VerifiedRanking(e, f, q, ids),
           NEW here, here = Findings(ids, Likenesses(ids, e, q)),
           NEW there, there = Findings(ids, Likenesses(ids, f, q))
    PROVE  Order(Corpus, here) = Order(Corpus, there)
<1>1. memory \in Seq(Stored) /\ IsCorpus(Corpus) /\ Corpus.kind = kind
  BY CorpusIs DEF StoreInv, StoreTypes, Corpus
<1>2. PICK n \in Nat : n = Len(ids) /\ DOMAIN ids = 1 .. n /\ \A i \in 1 .. n : ids[i] \in Record
  BY <1>1, StoredAre
<1>3. CASE VerifiedExact(e, f, q, ids)
  <2>1. Contract("BitExact").level = "BitExact"
    BY DEF Contract
  <2>2. Vector[e][q] = Vector[f][q] /\ \A i \in 1 .. n : Vectors(ids, e)[i] = Vectors(ids, f)[i]
    BY <1>2, <1>3, <2>1 DEF VerifiedExact, Verify
  <2>3. Likenesses(ids, e, q) = Likenesses(ids, f, q)
    BY <1>2, <2>2 DEF Likenesses
  <2> QED BY <2>3
<1>4. CASE VerifiedRanking(e, f, q, ids)
  <2>1. Contract("ToleranceBased").ranking
    BY DEF Contract
  <2>2. Ranking(Vector[e][q], Vectors(ids, e)) = Ranking(Vector[f][q], Vectors(ids, f))
    BY <1>4, <2>1 DEF VerifiedRanking, VerifyRanking
  <2>3. kind = "mock" \/ \A i, j \in 1 .. n : i < j => ids[i] <= ids[j]
    BY <1>2, <1>4 DEF VerifiedRanking
  <2>4. ASSUME NEW g \in Embedders, NEW found, found = Findings(ids, Likenesses(ids, g, q))
        PROVE  Order(Corpus, found) = Ranking(Vector[g][q], Vectors(ids, g))
    <3>1. PICK likeness : likeness = Likenesses(ids, g, q)
      OBVIOUS
    <3>2. found \in [1 .. n -> Finding]
      BY <1>2, <2>4, FindingsAre
    <3>3. likeness = Raw(found, n) /\ \A i \in 1 .. n : found[i].id = ids[i]
      BY <1>2, <2>4, <3>1 DEF Findings, Likenesses, Raw
    <3>4. Corpus.kind = "mock" \/ \A i, j \in 1 .. n : i < j => found[i].id <= found[j].id
      BY <1>1, <2>3, <3>3
    <3>5. Order(Corpus, found) = Ordered(1 .. n, Closer(likeness))
      BY <1>1, <3>2, <3>3, <3>4, OrderIsRanking
    <3> QED BY <1>2, <3>1, <3>5, RankingIs
  <2> QED BY <2>2, <2>4
<1> QED BY <1>3, <1>4

LEMMA SameIdsIs ==
    ASSUME NEW ids, NEW k, NEW P, NEW answer, NEW other,
           ShowsFirst(answer.candidates, ids, k, P), ShowsFirst(other.candidates, ids, k, P)
    PROVE  SameIds(answer, other)
BY DEF ShowsFirst, SameIds

\* Two embedders whose embeddings of a corpus pass a contract answer every query alike,
\* for any corpus and any limit: if they are verified to be bit-exact, or if the ranking
\* was verified and equals are returned in the order of their places
\* (DeterminismContract::verify, verify_ranking).
THEOREM VerifiedAnswersAgree == Spec => []VerifiedEmbeddingsFixAnswers
<1>1. StoreInv => VerifiedEmbeddingsFixAnswers
  <2> SUFFICES ASSUME StoreInv, NEW e \in Embedders, NEW q \in Query, NEW ids \in {IdsOf(memory)},
                      NEW f \in Embedders \ {e}, NEW k \in TopK,
                      VerifiedExact(e, f, q, ids) \/ VerifiedRanking(e, f, q, ids)
               PROVE  SameIds(AnswerBy(e, q, k, ids), AnswerBy(f, q, k, ids))
    BY DEF VerifiedEmbeddingsFixAnswers
  <2>1. PICK here, there : here = Findings(ids, Likenesses(ids, e, q)) /\ there = Findings(ids, Likenesses(ids, f, q))
    OBVIOUS
  <2>2. PICK P : P = Order(Corpus, here) /\ P = Order(Corpus, there)
    BY <2>1, VerifiedOrders
  <2>3. ids = IdsOf(memory) /\ f \in Embedders
    OBVIOUS
  <2>4. ASSUME NEW g \in Embedders, NEW found, found = Findings(ids, Likenesses(ids, g, q)),
               P = Order(Corpus, found)
        PROVE  ShowsFirst(AnswerBy(g, q, k, ids).candidates, ids, k, P)
    BY <2>3, <2>4, AnswerByIs
  <2>5. /\ ShowsFirst(AnswerBy(e, q, k, ids).candidates, ids, k, P)
        /\ ShowsFirst(AnswerBy(f, q, k, ids).candidates, ids, k, P)
    BY <2>1, <2>2, <2>3, <2>4
  <2> QED BY <2>5, SameIdsIs
<1> QED BY <1>1, Stores, PTL

----------------------------------------------------------------------------
(* What an envelope tells of the corpus *)

\* The hash of a corpus tells how often it has each record.
LEMMA HashCounts ==
    ASSUME NEW n \in Nat, NEW m \in Nat, NEW ids \in [1 .. n -> Record], NEW other \in [1 .. m -> Record],
           ContentHash(ids) = ContentHash(other), NEW r
    PROVE  Cardinality(Occurs(ids, n, r)) = Cardinality(Occurs(other, m, r))
<1>1. ASSUME NEW k \in Nat, NEW s \in [1 .. k -> Record]
      PROVE  /\ s = <<>> <=> k = 0
             /\ ContentHash(s) = IF k = 0 THEN Nothing ELSE [x \in ToSet(s) |-> Cardinality(Occurs(s, k, x))]
             /\ DOMAIN ContentHash(s) = ToSet(s)
             /\ r \notin ToSet(s) => Occurs(s, k, r) = {}
  <2>1. s = <<>> <=> k = 0
    OBVIOUS
  <2>2. \A x : {i \in DOMAIN s : s[i] = x} = Occurs(s, k, x)
    BY DEF Occurs
  <2>3. ContentHash(s) = IF k = 0 THEN Nothing ELSE [x \in ToSet(s) |-> Cardinality(Occurs(s, k, x))]
    BY <2>1, <2>2 DEF ContentHash
  <2>4. k = 0 => ToSet(s) = {} /\ DOMAIN Nothing = {}
    BY DEF ToSet, Nothing
  <2>5. r \notin ToSet(s) => Occurs(s, k, r) = {}
    BY DEF ToSet, Occurs
  <2> QED BY <2>1, <2>3, <2>4, <2>5
<1>2. ToSet(ids) = ToSet(other)
  BY <1>1
<1>3. CASE r \notin ToSet(ids)
  <2>1. Occurs(ids, n, r) = {} /\ Occurs(other, m, r) = {}
    BY <1>1, <1>2, <1>3
  <2> QED BY <2>1
<1>4. CASE r \in ToSet(ids)
  <2>1. n # 0 /\ m # 0
    <3>1. ToSet(ids) # {} /\ ToSet(other) # {}
      BY <1>2, <1>4
    <3> QED BY <3>1 DEF ToSet
  <2>2. ContentHash(ids)[r] = Cardinality(Occurs(ids, n, r))
    BY <1>1, <1>4, <2>1
  <2>3. ContentHash(other)[r] = Cardinality(Occurs(other, m, r))
    BY <1>1, <1>2, <1>4, <2>1
  <2> QED BY <2>2, <2>3
<1> QED BY <1>3, <1>4

\* What an embedder declares names the family it is of.
LEMMA DeclaredFamily ==
    ASSUME NEW e, NEW f, Declared(e) = Declared(f)
    PROVE  Family[e] = Family[f]
<1>1. PICK exact, same : exact = Contract("BitExact") /\ same = Contract("SamePlatform")
  OBVIOUS
<1>2. exact.level = "BitExact" /\ same.level = "SamePlatform"
  BY <1>1 DEF Contract
<1>3. HashEmbedder.contract = exact /\ \A g : SemanticEmbedder(g).contract = same /\ SemanticEmbedder(g).id = g
  BY <1>1 DEF HashEmbedder, SemanticEmbedder
<1>4. ASSUME NEW g PROVE HashEmbedder # SemanticEmbedder(g)
  BY <1>2, <1>3
<1> QED BY <1>3, <1>4 DEF Declared

\* How like the query q a record stored by e is, and the records by that.
Alike(e, q, r) == Cosine(Vector[e][q], Vector[e][EmbeddingText(r)])
MoreAlike(e, q) ==
    {p \in Record \X Record :
        Alike(e, q, p[1]) > Alike(e, q, p[2]) \/ (Alike(e, q, p[1]) = Alike(e, q, p[2]) /\ p[1] < p[2])}

LEMMA AlikeOrders ==
    ASSUME NEW e \in Embedders, NEW q \in Query
    PROVE  /\ \A r \in Record : Alike(e, q, r) \in Int
           /\ Orders(MoreAlike(e, q), Record)
<1>1. \A r \in Record : Alike(e, q, r) \in Int
  BY CosineIs, QueryAssumption DEF Alike
<1>2. PICK R : R = MoreAlike(e, q)
  OBVIOUS
<1>3. PICK alike : alike = [r \in Record |-> Alike(e, q, r)]
  OBVIOUS
<1>4. alike \in [Record -> Int]
  BY <1>1, <1>3
<1>5. \A r, s \in Record : <<r, s>> \in R <=> alike[r] > alike[s] \/ (alike[r] = alike[s] /\ r < s)
  BY <1>2, <1>3 DEF MoreAlike
<1>6. Orders(R, Record)
  <2>1. \A r \in Record : r \in Nat /\ alike[r] \in Int
    BY <1>4, RecallAssumption
  <2>2. \A r \in Record : <<r, r>> \notin R
    BY <1>5, <2>1
  <2>3. \A r, s, t \in Record : <<r, s>> \in R /\ <<s, t>> \in R => <<r, t>> \in R
    BY <1>5, <2>1
  <2>4. \A r, s \in Record : r # s => <<r, s>> \in R \/ <<s, r>> \in R
    BY <1>5, <2>1
  <2> QED BY <2>2, <2>3, <2>4 DEF Orders
<1> QED BY <1>1, <1>2, <1>6

\* A persistent provider that needs no tenant and whose records its embedder stored.
OwnCorpus(c) ==
    /\ IsCorpus(c) /\ c.kind = "persistent" /\ c.tenants = "Optional"
    /\ \A s \in ToSet(c.memory) : s[2] = c.using

\* The records a holds, the more alike first, as the answer to x returns them.
Returned(e, x, n, a) ==
    LET first == [i \in 1 .. Smaller(n, Limit(x)) |-> [id |-> a[i], score |-> FinalScore(Alike(e, x.query, a[i]))]]
    IN  IF x.policy = None THEN first ELSE Above(x.policy, first)

\* Each record of the corpus as often as it is stored, the more alike first.
ListsCorpus(c, q, n, a) ==
    /\ n \in Nat /\ a \in [1 .. n -> Record] /\ InOrder(a, n, MoreAlike(c.using, q))
    /\ n = Len(c.memory) /\ IdsOf(c.memory) \in [1 .. n -> Record]
    /\ \A r : Cardinality(Occurs(a, n, r)) = Cardinality(Occurs(IdsOf(c.memory), n, r))

\* An answer says which embedder and which embedding of the query it was found with.
Tells(got, c, q) ==
    /\ Header(got).embedding = Vector[c.using][q]
    /\ Header(got).embedder = Declared(c.using)

LEMMA HeaderIs ==
    ASSUME NEW got, NEW c, NEW y, NEW embedding, NEW cands, NEW stop, NEW n, NEW policy,
           Gives(got, c, y, embedding, cands, stop, n, policy)
    PROVE  Header(got).embedding = embedding /\ Header(got).embedder = Declared(c.using)
<1>1. PICK answer : answer = [candidates |-> cands, stop |-> stop]
  OBVIOUS
<1>2. PICK E : E = Envelope(c, y, embedding, answer, n)
  OBVIOUS
<1>3. /\ E.embedding = embedding /\ E.embedder = Declared(c.using)
      /\ "embedding" \in DOMAIN E /\ "embedder" \in DOMAIN E
  BY <1>2 DEF Envelope
<1>4. PICK F : F = got.provenance /\ F = [E EXCEPT !.policy = policy]
  BY <1>1, <1>2 DEF Gives
<1>5. F.embedding = embedding /\ F.embedder = Declared(c.using) /\ DOMAIN F = DOMAIN E
  BY ONLY <1>3, <1>4
<1>6. Header(got) = [F EXCEPT !.scores = None, !.searched = None, !.returned = None, !.stop = None]
  BY <1>4 DEF Header
<1> QED BY ONLY <1>3, <1>5, <1>6

LEMMA OwnAnswerIs ==
    ASSUME NEW c, OwnCorpus(c), NEW x \in Question, x.filter = NoFilter, ~Disabled(x)
    PROVE  /\ Tells(AnswerTo(c, x), c, x.query)
           /\ \E n, a : ListsCorpus(c, x.query, n, a) /\ AnswerTo(c, x).candidates = Returned(c.using, x, n, a)
<1>1. IsCorpus(c) /\ c.kind = "persistent" /\ ~NeedsTenant(c, x) /\ c.using \in Embedders
  BY DEF OwnCorpus, NeedsTenant, IsCorpus
<1>2. PICK s \in Seq(Stored) : s = c.memory /\ s = Searched(c, x)
  BY <1>1, UnfilteredIs DEF IsCorpus
<1>3. PICK n \in Nat : n = Len(s) /\ DOMAIN s = 1 .. n
  BY <1>2
<1>4. \A i \in 1 .. n : s[i] \in Stored /\ s[i][1] \in Record /\ s[i] = <<s[i][1], c.using>>
  <2>1. \A i \in 1 .. n : s[i] \in Stored /\ s[i] \in ToSet(c.memory)
    BY <1>2, <1>3 DEF ToSet
  <2> QED BY <2>1 DEF OwnCorpus, Stored
<1>5. PICK ids : ids = IdsOf(s) /\ ids \in [1 .. n -> Record] /\ \A i \in 1 .. n : ids[i] = Id(s[i])
  <2>1. PICK ids : ids = IdsOf(s)
    OBVIOUS
  <2>2. ids = [i \in 1 .. n |-> s[i][1]]
    BY <1>3, <2>1 DEF IdsOf, Id
  <2>3. ids \in [1 .. n -> Record]
    BY <1>4, <2>2
  <2> QED BY <2>1, <2>2, <2>3 DEF Id
<1>6. IsQuery(x) /\ x.query \in Query
  BY QuestionIs DEF IsQuery
<1>7. PICK found : found = Scored(c, x.query, s)
  OBVIOUS
<1>8. ASSUME NEW i \in 1 .. n
      PROVE  Likeness(c, x, s[i]) = Alike(c.using, x.query, ids[i]) /\ Id(s[i]) = ids[i]
  <2>1. Likeness(c, x, s[i]) = Cosine(Vector[c.using][x.query], StoredVector(s[i]))
    BY <1>1, <1>4, <1>6, SimilarityIs DEF Likeness
  <2>2. s[i][2] = c.using
    BY <1>4
  <2> QED BY <1>5, <2>1, <2>2 DEF StoredVector, Alike
<1>9. found \in [1 .. n -> Finding] /\ \A i \in 1 .. n : found[i].id = ids[i] /\ found[i].raw = Alike(c.using, x.query, ids[i])
  <2>1. IsScored(found, c, x, s)
    BY <1>1, <1>2, <1>6, <1>7, ScoredIs
  <2> QED BY <1>3, <1>8, <2>1 DEF IsScored
<1>10. PICK P : P = Order(c, found)
  OBVIOUS
<1>11. /\ IsSort(P, Preference(c, found), n)
       /\ \E y, stop : Gives(AnswerTo(c, x), c, y, Vector[c.using][x.query], Cut(c, x, s, P), stop, n, x.policy)
  BY <1>1, <1>2, <1>3, <1>7, <1>10, ServedIs
<1>12. PICK y, stop : Gives(AnswerTo(c, x), c, y, Vector[c.using][x.query], Cut(c, x, s, P), stop, n, x.policy)
  BY <1>11
<1>13. IsSort(P, Preferred(found), n)
  BY <1>1, <1>11 DEF Preference
<1>14. PICK a : a = [i \in 1 .. n |-> ids[P[i]]]
  OBVIOUS
<1>15. \A i \in 1 .. n : P[i] \in 1 .. n /\ a[i] = ids[P[i]]
  BY <1>13, <1>14 DEF IsSort
<1>16. a \in [1 .. n -> Record]
  BY <1>5, <1>14, <1>15
<1>17. InOrder(a, n, MoreAlike(c.using, x.query))
  <2> SUFFICES ASSUME NEW i \in 1 .. n, NEW j \in 1 .. n, i < j,
                      <<a[j], a[i]>> \in MoreAlike(c.using, x.query)
               PROVE  FALSE
    BY DEF InOrder
  <2>1. PICK v \in 1 .. n, w \in 1 .. n : v = P[j] /\ w = P[i] /\ a[j] = ids[v] /\ a[i] = ids[w]
    BY <1>15
  <2>2. Better(found[v], found[w])
    BY <1>9, <2>1 DEF MoreAlike, Better
  <2>3. <<v, w>> \in Preferred(found)
    BY <1>9, <2>2 DEF Preferred
  <2> QED BY <1>13, <2>1, <2>3 DEF IsSort
<1>18. \A r : Cardinality(Occurs(a, n, r)) = Cardinality(Occurs(ids, n, r))
  BY <1>5, <1>13, <1>14, SortedOccurs
<1>19. ListsCorpus(c, x.query, n, a)
  BY <1>2, <1>3, <1>5, <1>16, <1>17, <1>18 DEF ListsCorpus
<1>20. Cut(c, x, s, P) = Returned(c.using, x, n, a)
  <2>1. PICK m : m = Smaller(n, Limit(x))
    OBVIOUS
  <2>2. \A i \in 1 .. m : i \in 1 .. n
    <3>1. Limit(x) \in Nat
      <4>1. x.policy = None => Limit(x) = x.k
        BY DEF Limit
      <4> QED BY <1>6, <4>1, QuestionIs DEF IsQuery
    <3> QED BY <2>1, <3>1 DEF Smaller
  <2>3. \A i \in 1 .. m : Candidate(c, x, s[P[i]]) = [id |-> a[i], score |-> FinalScore(Alike(c.using, x.query, a[i]))]
    BY <1>8, <1>15, <2>2 DEF Candidate
  <2>4. [i \in 1 .. m |-> Candidate(c, x, s[P[i]])]
        = [i \in 1 .. m |-> [id |-> a[i], score |-> FinalScore(Alike(c.using, x.query, a[i]))]]
    BY <2>3
  <2> QED BY <1>3, <2>1, <2>4 DEF Cut, Returned
<1>21. AnswerTo(c, x).candidates = Returned(c.using, x, n, a)
  BY <1>12, <1>20 DEF Gives
<1>22. Tells(AnswerTo(c, x), c, x.query)
  BY <1>12, HeaderIs DEF Tells
<1> QED BY <1>19, <1>21, <1>22

\* Corpora with one hash, asked the same with embeddings that are told to be the same.
LEMMA SameCandidates ==
    ASSUME NEW c, OwnCorpus(c), NEW d, OwnCorpus(d), NEW x \in Question, x.filter = NoFilter,
           ContentHash(IdsOf(c.memory)) = ContentHash(IdsOf(d.memory)),
           ~Disabled(x), Header(AnswerTo(c, x)) = Header(AnswerTo(d, x))
    PROVE  AnswerTo(c, x).candidates = AnswerTo(d, x).candidates
<1>1. Tells(AnswerTo(c, x), c, x.query) /\ Tells(AnswerTo(d, x), d, x.query)
  BY OwnAnswerIs
<1>2. PICK e \in Embedders, f \in Embedders : e = c.using /\ f = d.using
  BY DEF OwnCorpus, IsCorpus
<1>3. PICK q \in Query : q = x.query
  BY QuestionIs DEF IsQuery
<1>4. Vector[e] = Vector[f]
  <2>1. Vector[e][q] = Vector[f][q] /\ Declared(e) = Declared(f)
    BY <1>1, <1>2, <1>3 DEF Tells
  <2>2. Family[e] = Family[f]
    BY <2>1, DeclaredFamily
  <2> QED BY <2>1, <2>2, QueryAssumption
<1>5. \A r : Alike(e, q, r) = Alike(f, q, r)
  BY <1>4 DEF Alike
<1>6. PICK R : R = MoreAlike(e, q) /\ R = MoreAlike(f, q)
  BY <1>5 DEF MoreAlike
<1>7. \E n, a : ListsCorpus(c, q, n, a) /\ AnswerTo(c, x).candidates = Returned(e, x, n, a)
  BY <1>2, <1>3, OwnAnswerIs
<1>8. PICK n, a : ListsCorpus(c, q, n, a) /\ AnswerTo(c, x).candidates = Returned(e, x, n, a)
  BY <1>7
<1>9. \E m, b : ListsCorpus(d, q, m, b) /\ AnswerTo(d, x).candidates = Returned(f, x, m, b)
  BY <1>2, <1>3, OwnAnswerIs
<1>10. PICK m, b : ListsCorpus(d, q, m, b) /\ AnswerTo(d, x).candidates = Returned(f, x, m, b)
  BY <1>9
<1>11. PICK ids, other : ids = IdsOf(c.memory) /\ other = IdsOf(d.memory)
  OBVIOUS
<1>12. /\ n \in Nat /\ a \in [1 .. n -> Record] /\ ids \in [1 .. n -> Record] /\ InOrder(a, n, R)
       /\ \A r : Cardinality(Occurs(a, n, r)) = Cardinality(Occurs(ids, n, r))
  BY <1>2, <1>6, <1>8, <1>11 DEF ListsCorpus
<1>13. /\ m \in Nat /\ b \in [1 .. m -> Record] /\ other \in [1 .. m -> Record] /\ InOrder(b, m, R)
       /\ \A r : Cardinality(Occurs(b, m, r)) = Cardinality(Occurs(other, m, r))
  BY <1>2, <1>6, <1>10, <1>11 DEF ListsCorpus
<1>14. \A r : Cardinality(Occurs(ids, n, r)) = Cardinality(Occurs(other, m, r))
  BY <1>11, <1>12, <1>13, HashCounts
<1>15. n = m /\ a = b
  <2>1. Orders(R, Record)
    BY <1>6, AlikeOrders
  <2>2. \A r \in Record : Cardinality(Occurs(a, n, r)) = Cardinality(Occurs(b, m, r))
    BY <1>12, <1>13, <1>14
  <2> QED BY <1>12, <1>13, <2>1, <2>2, SameListing
<1>16. Returned(e, x, n, a) = Returned(f, x, n, a)
  BY <1>3, <1>5 DEF Returned
<1> QED BY <1>8, <1>10, <1>15, <1>16

\* Two persistent providers, each with the records its own embedder stored, that say the
\* same of corpus, embedder and embedding return the same candidates in the same order,
\* for any corpora, embedders and queries ("same query + same corpus fingerprint + same
\* embedder => same candidates", corpus.rs).
THEOREM ProvenanceIsEnough == Spec => []ProvenanceFixesAnswer
<1>1. StoreInv => ProvenanceFixesAnswer
  <2> SUFFICES ASSUME StoreInv, kind = "persistent", Quiet, fresh, Corpus.tenants = "Optional",
                      \A s \in ToSet(memory) : s[2] = using,
                      NEW other \in FreshCorpora, MatchesExactly(Version(other), Version(Corpus)),
                      NEW x \in Unfiltered
               PROVE  SameIfTold(AnswerTo(Corpus, x), FreshAnswers[other][x])
    BY DEF ProvenanceFixesAnswer
  <2>1. x \in Question /\ x.filter = NoFilter
    BY DEF Unfiltered
  <2>2. FreshAnswers[other][x] = AnswerTo(other, x)
    BY DEF FreshAnswers
  <2>3. PICK c : c = Corpus
    OBVIOUS
  <2>4. /\ c.kind = "persistent" /\ c.using = using /\ c.memory = memory /\ c.content = content
        /\ c.tenants = "Optional" /\ OwnCorpus(c)
    <3>1. c.kind = "persistent" /\ c.using = using /\ c.memory = memory /\ c.content = content
      BY <2>3 DEF Corpus
    <3> QED BY <2>3, <3>1, CorpusIs DEF OwnCorpus
  <2>a. PICK e \in Embedders : \E m \in BoundedSeq(Record \X {e}, MaxPieces \div 2) :
            other = [kind |-> "persistent", using |-> e, memory |-> m,
                     content |-> ContentHash(IdsOf(m)), tenants |-> "Optional"]
    BY DEF FreshCorpora
  <2>5. PICK m \in BoundedSeq(Record \X {e}, MaxPieces \div 2) :
            other = [kind |-> "persistent", using |-> e, memory |-> m,
                     content |-> ContentHash(IdsOf(m)), tenants |-> "Optional"]
    BY <2>a
  <2>6. m \in Seq(Record \X {e})
    BY <2>5 DEF BoundedSeq, SeqOf
  <2>7. PICK d : d = other
    OBVIOUS
  <2>8. /\ d.kind = "persistent" /\ d.using = e /\ d.memory = m /\ d.content = ContentHash(IdsOf(m))
        /\ d.tenants = "Optional"
    BY <2>5, <2>7
  <2>9. OwnCorpus(d)
    <3>1. m \in Seq(Stored) /\ \A s \in ToSet(m) : s[2] = e
      BY <2>6 DEF Stored, ToSet
    <3> QED BY <2>8, <3>1 DEF OwnCorpus, IsCorpus
  <2>10. ContentHash(IdsOf(c.memory)) = ContentHash(IdsOf(d.memory))
    <3>1. Version(d).content = d.content /\ Version(c).content = c.content
      BY <2>4, <2>8 DEF Version, Fingerprint
    <3>2. c.content = d.content
      BY <2>3, <2>7, <3>1 DEF MatchesExactly
    <3>3. content = ContentHash(IdsOf(memory))
      BY DEF Quiet, StoreInv, Hashed
    <3> QED BY <2>4, <2>8, <3>2, <3>3
  <2>11. CASE Disabled(x)
    <3>1. AnswerTo(c, x).provenance = Nothing
      BY <2>11, DisabledIs DEF EmptyResponse
    <3> QED BY <2>3, <3>1 DEF SameIfTold
  <2>12. CASE ~Disabled(x)
    BY <2>1, <2>2, <2>3, <2>4, <2>7, <2>9, <2>10, <2>12, SameCandidates DEF SameIfTold
  <2> QED BY <2>11, <2>12
<1> QED BY <1>1, Stores, PTL
=============================================================================
