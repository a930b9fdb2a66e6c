------------------------- MODULE KernelServiceProofs -------------------------
(***************************************************************************)
(* KernelService for every set of clients and adapters: the weights of the *)
(* model are always the ones the engine reports, and no chain of steps     *)
(* sees two models.                                                        *)
(***************************************************************************)
EXTENDS KernelService, TLAPS

(* An idle engine reports the model that it holds.                         *)
LEMMA InitIInv == Init => IInv
<1> SUFFICES ASSUME Init PROVE IInv
  OBVIOUS
<1>1. TypeOK
  BY KernelAssumption DEF Init, TypeOK, Held
<1> QED
  BY <1>1, KernelAssumption
  DEF Init, IInv, MutualExclusion, LifecycleMatches, BackupIsBase, WeightsMatchAdapter,
      Merged, ChainUsesCurrent, ChainUsesOneModel, Held

(* The engine and the chains are what the invariant is about: a step that  *)
(* leaves both alone, and enters no section of its own, preserves it.      *)
LEMMA Frame ==
  ASSUME IInv, NEW c \in Client, TypeOK', UNCHANGED <<holder, engine, req, traces>>,
         \A d \in Client \ {c} : pc'[d] = pc[d],
         holder = c, pc[c] # "idle", pc'[c] = "send"
  PROVE  IInv'
<1> USE DEF engine
<1>1. MutualExclusion'
  BY DEF IInv, MutualExclusion
<1>2. LifecycleMatches'
  BY DEF IInv, LifecycleMatches
<1>3. BackupIsBase' /\ WeightsMatchAdapter'
  BY DEF IInv, BackupIsBase, WeightsMatchAdapter, Merged
<1>4. ChainUsesCurrent' /\ ChainUsesOneModel'
  BY DEF IInv, ChainUsesCurrent, ChainUsesOneModel
<1> QED
  BY <1>1, <1>2, <1>3, <1>4 DEF IInv

(* Calls, waiting and the streams.                                         *)
LEMMA OutsideIInv ==
  ASSUME IInv, NEW c \in Client,
         BeginStream(c) \/ StreamError(c) \/ SendChunk(c) \/ Read(c) \/ HangUp(c)
  PROVE  IInv'
<1> USE DEF stream, engine
<1>0. TypeOK /\ Answer \in Seq(Nat) /\ <<ErrorChunk>> \in Seq(Nat)
  BY KernelAssumption DEF IInv, Answer, Finish, ErrorChunk
<1>1. /\ UNCHANGED <<engine, traces, holder, req>>
      /\ pc' \in {pc, [pc EXCEPT ![c] = "send"]}
      /\ pc' # pc => holder = c /\ pc[c] # "idle"
  BY DEF BeginStream, StreamError, SendChunk, Read, HangUp, Goto, IInv, MutualExclusion
<1>2. out' \in [Client -> Seq(Nat)] /\ chan' \in [Client -> Seq(Nat)]
      /\ got' \in [Client -> Seq(Nat)] /\ hung' \in [Client -> BOOLEAN]
  <2>1. CASE BeginStream(c) \/ StreamError(c)
    <3>1. out' = [out EXCEPT ![c] = Answer] \/ out' = [out EXCEPT ![c] = <<ErrorChunk>>]
      BY <2>1 DEF BeginStream, StreamError
    <3>2. out' \in [Client -> Seq(Nat)]
      BY <1>0, <3>1 DEF TypeOK
    <3> QED
      BY <1>0, <2>1, <3>2 DEF BeginStream, StreamError, TypeOK
  <2>4. CASE HangUp(c)
    BY <1>0, <2>4 DEF HangUp, TypeOK
  <2>2. CASE SendChunk(c)
    <3>1. /\ out[c] \in Seq(Nat) /\ out[c] # << >> /\ chan[c] \in Seq(Nat)
      BY <1>0, <2>2 DEF SendChunk, TypeOK
    <3>2. Append(chan[c], Head(out[c])) \in Seq(Nat) /\ Tail(out[c]) \in Seq(Nat)
      BY <3>1
    <3> QED
      BY <1>0, <2>2, <3>2 DEF SendChunk, TypeOK
  <2>3. CASE Read(c)
    <3>1. /\ chan[c] \in Seq(Nat) /\ chan[c] # << >> /\ got[c] \in Seq(Nat)
      BY <1>0, <2>3 DEF Read, TypeOK
    <3>2. Append(got[c], Head(chan[c])) \in Seq(Nat) /\ Tail(chan[c]) \in Seq(Nat)
      BY <3>1
    <3> QED
      BY <1>0, <2>3, <3>2 DEF Read, TypeOK
  <2> QED
    BY <2>1, <2>2, <2>3, <2>4
<1>3. TypeOK'
  BY <1>0, <1>1, <1>2 DEF TypeOK, Held, Goto, BeginStream, StreamError, SendChunk, Read, HangUp
<1>4. CASE pc' = pc
  <2>1. MutualExclusion' /\ LifecycleMatches' /\ BackupIsBase' /\ WeightsMatchAdapter'
    BY <1>1, <1>4 DEF IInv, MutualExclusion, LifecycleMatches, BackupIsBase,
                      WeightsMatchAdapter, Merged
  <2> QED
    BY <2>1, <1>1, <1>3, <1>4 DEF IInv, ChainUsesCurrent, ChainUsesOneModel
<1>5. CASE pc' = [pc EXCEPT ![c] = "send"] /\ pc' # pc
  BY <1>0, <1>1, <1>3, <1>5, Frame DEF TypeOK, Held
<1> QED
  BY <1>1, <1>4, <1>5

(* Calling, waiting for the mutex and taking it.                           *)
LEMMA CallLockIInv ==
  ASSUME IInv, NEW c \in Client, (\E r \in Request : Call(c, r)) \/ Lock(c)
  PROVE  IInv'
<1> USE DEF stream, engine
<1>1. CASE \E r \in Request : Call(c, r)
  <2> PICK r \in Request : Call(c, r)
    BY <1>1
  <2>1. TypeOK'
    BY DEF Call, IInv, TypeOK
  <2>2. MutualExclusion' /\ LifecycleMatches' /\ BackupIsBase' /\ WeightsMatchAdapter'
    BY DEF Call, IInv, TypeOK, MutualExclusion, LifecycleMatches, BackupIsBase,
           WeightsMatchAdapter, Merged, Held
  <2>3. \A d \in Client : traces'[d] = << >> \/ (traces'[d] = traces[d] /\ pc'[d] = pc[d])
    BY DEF Call, IInv, TypeOK
  <2>4. ChainUsesCurrent' /\ ChainUsesOneModel'
    BY <2>3 DEF Call, IInv, ChainUsesCurrent, ChainUsesOneModel
  <2> QED
    BY <2>1, <2>2, <2>4 DEF IInv
<1>2. CASE Lock(c)
  <2>1. TypeOK'
    BY <1>2 DEF Lock, IInv, TypeOK
  <2>2. MutualExclusion'
    BY <1>2, KernelAssumption DEF Lock, IInv, TypeOK, MutualExclusion
  <2>3. LifecycleMatches' /\ BackupIsBase' /\ WeightsMatchAdapter'
    BY <1>2 DEF Lock, IInv, TypeOK, LifecycleMatches, BackupIsBase, WeightsMatchAdapter, Merged
  <2>4. ChainUsesCurrent' /\ ChainUsesOneModel'
    BY <1>2 DEF Lock, IInv, TypeOK, ChainUsesCurrent, ChainUsesOneModel
  <2> QED
    BY <2>1, <2>2, <2>3, <2>4 DEF IInv
<1> QED
  BY <1>1, <1>2

(* Whoever is in a section of its own holds the mutex: the others are out. *)
LEMMA OnlyHolder ==
  ASSUME IInv, NEW c \in Client, pc[c] \in Held \cup {"locked"}
  PROVE  \A d \in Client \ {c} : pc[d] \notin Held \cup {"locked"}
BY DEF IInv, MutualExclusion

(* Where a handler's step leaves it, and everyone else.                    *)
LEMMA WhereTo ==
  ASSUME IInv, NEW c \in Client, pc[c] \in Held \cup {"locked"},
         (\E a \in {"ok", "error", "plan", "reasoning"} : Return(c, a))
           \/ (\E l \in Held : Goto(c, l))
  PROVE  /\ pc' \in [Client -> Held \cup {"idle", "waiting", "locked"}]
         /\ reply' \in [Client -> {None, "ok", "error", "plan", "reasoning"}]
         /\ holder' \in Client \cup {None}
         /\ req' = req
         /\ \A d \in Client \ {c} : pc'[d] = pc[d] /\ pc[d] \notin Held \cup {"locked"}
         /\ MutualExclusion'
<1>1. \A d \in Client \ {c} : pc[d] \notin Held \cup {"locked"}
  BY OnlyHolder
<1>2. CASE \E a \in {"ok", "error", "plan", "reasoning"} : Return(c, a)
  BY <1>1, <1>2 DEF Return, IInv, TypeOK, MutualExclusion, Held
<1>3. CASE \E l \in Held : Goto(c, l)
  BY <1>1, <1>3 DEF Goto, IInv, TypeOK, MutualExclusion
<1> QED
  BY <1>2, <1>3

(* Loading: every way out leaves the weights and the report in agreement.  *)
LEMMA LoadIInv ==
  ASSUME IInv, NEW c \in Client,
         BeginLoad(c) \/ CheckAdapter(c) \/ SaveWeights(c) \/ Merge(c)
  PROVE  IInv'
<1> USE DEF stream
<1>0. TypeOK /\ pc[c] \in Held \cup {"locked"}
  BY DEF IInv, BeginLoad, CheckAdapter, SaveWeights, Merge, Held
<1>1. (\E a \in {"ok", "error", "plan", "reasoning"} : Return(c, a)) \/ (\E l \in Held : Goto(c, l))
  BY DEF BeginLoad, CheckAdapter, SaveWeights, Merge, RollBack, Held
<1>2. /\ pc' \in [Client -> Held \cup {"idle", "waiting", "locked"}]
      /\ reply' \in [Client -> {None, "ok", "error", "plan", "reasoning"}]
      /\ holder' \in Client \cup {None}
      /\ req' = req
      /\ \A d \in Client \ {c} : pc'[d] = pc[d] /\ pc[d] \notin Held \cup {"locked"}
      /\ MutualExclusion'
  BY <1>0, <1>1, WhereTo
<1>3. UNCHANGED <<failures, traces, stream>>
  BY DEF BeginLoad, CheckAdapter, SaveWeights, Merge, RollBack, engine
<1>4. /\ weights \in Seq(Adapter)
      /\ failures = 0 => weights = Merged(adapter)
      /\ adapter = None => Merged(adapter) = << >>
      /\ \A a \in {<<>>} : a \in Seq(Adapter)
  BY DEF IInv, TypeOK, WeightsMatchAdapter, Merged
<1>5. CASE BeginLoad(c)
  <2>1. pc'[c] \in {"check", "idle"} /\ (pc'[c] = "check" => lifecycle = "Detached" /\ lifecycle' = "Loading")
        /\ (pc'[c] = "idle" => lifecycle' = lifecycle) /\ req[c].kind = "load"
    BY <1>5, <1>0 DEF BeginLoad, CanLoad, Goto, Return, TypeOK
  <2>2. UNCHANGED <<adapter, weights, backup>>
    BY <1>5 DEF BeginLoad
  <2>3. TypeOK'
    BY <1>0, <1>2, <1>3, <2>1, <2>2 DEF TypeOK
  <2>4. LifecycleMatches'
    BY <1>0, <1>2, <2>1, <2>2 DEF IInv, LifecycleMatches, Held
  <2>5. BackupIsBase' /\ WeightsMatchAdapter'
    BY <1>2, <1>3, <2>1, <2>2 DEF IInv, BackupIsBase, WeightsMatchAdapter, Merged, Held
  <2>6. ChainUsesCurrent' /\ ChainUsesOneModel'
    BY <1>2, <1>3, <2>1, <2>2 DEF IInv, ChainUsesCurrent, ChainUsesOneModel, Held
  <2> QED
    BY <1>2, <2>3, <2>4, <2>5, <2>6 DEF IInv
<1>6. CASE RollBack(c) /\ pc[c] \in {"check", "save"}
  <2>1. /\ pc'[c] = "idle" /\ lifecycle' = "Detached" /\ adapter' = None /\ backup' = None
        /\ UNCHANGED weights /\ adapter = None
    BY <1>0, <1>6 DEF RollBack, Return, IInv, LifecycleMatches, TypeOK
  <2>3. TypeOK'
    BY <1>0, <1>2, <1>3, <2>1 DEF TypeOK
  <2>4. LifecycleMatches'
    BY <1>2, <2>1 DEF IInv, LifecycleMatches, Held
  <2>5. BackupIsBase' /\ WeightsMatchAdapter'
    BY <1>2, <1>3, <1>4, <2>1 DEF BackupIsBase, WeightsMatchAdapter, Merged, Held
  <2>6. ChainUsesCurrent' /\ ChainUsesOneModel'
    BY <1>2, <1>3, <2>1 DEF IInv, ChainUsesCurrent, ChainUsesOneModel, Held
  <2> QED
    BY <1>2, <2>3, <2>4, <2>5, <2>6 DEF IInv
<1>7. CASE CheckAdapter(c) /\ ~RollBack(c)
  <2>1. pc[c] = "check" /\ pc'[c] = "save" /\ UNCHANGED <<lifecycle, adapter, weights, backup>>
    BY <1>7, <1>0 DEF CheckAdapter, Goto, engine, TypeOK
  <2>3. TypeOK'
    BY <1>0, <1>2, <1>3, <2>1 DEF TypeOK
  <2>4. LifecycleMatches'
    BY <1>2, <2>1 DEF IInv, LifecycleMatches, Held
  <2>5. BackupIsBase' /\ WeightsMatchAdapter'
    BY <1>2, <1>3, <2>1 DEF IInv, BackupIsBase, WeightsMatchAdapter, Merged, Held
  <2>6. ChainUsesCurrent' /\ ChainUsesOneModel'
    BY <1>2, <1>3, <2>1 DEF IInv, ChainUsesCurrent, ChainUsesOneModel, Held
  <2> QED
    BY <1>2, <2>3, <2>4, <2>5, <2>6 DEF IInv
<1>8. CASE SaveWeights(c) /\ ~RollBack(c)
  <2>1. /\ pc[c] = "save" /\ pc'[c] = "merge" /\ backup' = weights
        /\ UNCHANGED <<lifecycle, adapter, weights>> /\ adapter = None
    BY <1>8, <1>0 DEF SaveWeights, Goto, TypeOK, IInv, LifecycleMatches
  <2>3. TypeOK'
    BY <1>0, <1>2, <1>3, <2>1 DEF TypeOK
  <2>4. LifecycleMatches'
    BY <1>2, <2>1 DEF IInv, LifecycleMatches, Held
  <2>5. BackupIsBase' /\ WeightsMatchAdapter'
    BY <1>2, <1>3, <2>1 DEF IInv, BackupIsBase, WeightsMatchAdapter, Merged, Held
  <2>6. ChainUsesCurrent' /\ ChainUsesOneModel'
    BY <1>2, <1>3, <2>1 DEF IInv, ChainUsesCurrent, ChainUsesOneModel, Held
  <2> QED
    BY <1>2, <2>3, <2>4, <2>5, <2>6 DEF IInv
<1>9. CASE Merge(c)
  <2> DEFINE id == req[c].id
             merged == id \notin Unmatched
  <2>0. /\ pc[c] = "merge" /\ lifecycle = "Loading" /\ adapter = None /\ id \in Adapter
        /\ backup = weights
    BY <1>9 DEF Merge, IInv, TypeOK, LifecycleMatches, BackupIsBase, Request
  <2>1. pc'[c] = "idle" /\ UNCHANGED backup
    BY <1>9, <1>0 DEF Merge, Return, TypeOK
  <2>2. CASE Panics(id)
    <3>1. UNCHANGED <<lifecycle, adapter, weights>>
      BY <1>9, <2>2 DEF Merge
    <3>3. TypeOK'
      BY <1>0, <1>2, <1>3, <2>1, <3>1 DEF TypeOK
    <3>4. LifecycleMatches'
      BY <1>2, <2>0, <2>1, <3>1 DEF IInv, LifecycleMatches, Held
    <3>5. BackupIsBase' /\ WeightsMatchAdapter'
      BY <1>2, <1>3, <1>4, <2>0, <2>1, <3>1 DEF BackupIsBase, WeightsMatchAdapter, Merged, Held
    <3>6. ChainUsesCurrent' /\ ChainUsesOneModel'
      BY <1>2, <1>3, <2>1 DEF IInv, ChainUsesCurrent, ChainUsesOneModel, Held
    <3> QED
      BY <1>2, <3>3, <3>4, <3>5, <3>6 DEF IInv
  <2>3. CASE ~Panics(id)
    <3>1. /\ weights' = IF merged THEN Append(weights, id) ELSE weights
          /\ adapter' = [id |-> id, merged |-> merged]
          /\ lifecycle' = "Attached"
      BY <1>9, <2>3 DEF Merge
    <3>2. weights' \in Seq(Adapter) /\ adapter' \in [id : Adapter, merged : BOOLEAN]
          /\ adapter' # None
      <4>1. merged \in BOOLEAN
        OBVIOUS
      <4> HIDE DEF merged
      <4>2. adapter' \in [id : Adapter, merged : BOOLEAN]
        BY <2>0, <3>1, <4>1
      <4>3. weights' \in Seq(Adapter)
        BY <1>4, <2>0, <3>1, <4>1
      <4> QED
        BY <4>2, <4>3, KernelAssumption
    <3>3. TypeOK'
      BY <1>0, <1>2, <1>3, <2>1, <3>1, <3>2 DEF TypeOK
    <3>4. LifecycleMatches'
      BY <1>2, <2>1, <3>1, <3>2 DEF IInv, LifecycleMatches, Held
    <3>5. BackupIsBase'
      <4>1. backup # None /\ (failures = 0 => backup = << >>)
        BY <1>4, <2>0, KernelAssumption
      <4> QED
        BY <4>1, <1>2, <1>3, <2>1 DEF BackupIsBase, Held
    <3>6. WeightsMatchAdapter'
      <4>1. ASSUME failures = 0 PROVE weights' = IF merged THEN <<id>> ELSE << >>
        BY <1>4, <2>0, <3>1, <4>1
      <4>2. adapter'.merged = merged /\ adapter'.id = id
        BY <3>1
      <4> QED
        BY <1>3, <3>2, <4>1, <4>2 DEF WeightsMatchAdapter, Merged
    <3>7. ChainUsesCurrent' /\ ChainUsesOneModel'
      BY <1>2, <1>3, <2>1 DEF IInv, ChainUsesCurrent, ChainUsesOneModel, Held
    <3> QED
      BY <1>2, <3>3, <3>4, <3>5, <3>6, <3>7 DEF IInv
  <2> QED
    BY <2>2, <2>3
<1> QED
  BY <1>5, <1>6, <1>7, <1>8, <1>9 DEF CheckAdapter, SaveWeights

(* Detaching: a restoration that succeeds brings back the base model.      *)
LEMMA DetachIInv ==
  ASSUME IInv, NEW c \in Client, BeginDetach(c) \/ Restore(c)
  PROVE  IInv'
<1> USE DEF stream
<1>0. TypeOK /\ pc[c] \in Held \cup {"locked"}
  BY DEF IInv, BeginDetach, Restore, Held
<1>1. (\E a \in {"ok", "error", "plan", "reasoning"} : Return(c, a)) \/ (\E l \in Held : Goto(c, l))
  BY DEF BeginDetach, Restore, Held
<1>2. /\ pc' \in [Client -> Held \cup {"idle", "waiting", "locked"}]
      /\ reply' \in [Client -> {None, "ok", "error", "plan", "reasoning"}]
      /\ holder' \in Client \cup {None}
      /\ req' = req
      /\ \A d \in Client \ {c} : pc'[d] = pc[d] /\ pc[d] \notin Held \cup {"locked"}
      /\ MutualExclusion'
  BY <1>0, <1>1, WhereTo
<1>3. UNCHANGED <<traces, stream>>
  BY DEF BeginDetach, Restore
<1>4. CASE BeginDetach(c)
  <2>1. /\ UNCHANGED <<adapter, weights, backup, failures>>
        /\ pc'[c] \in {"restore", "idle"}
        /\ pc'[c] = "restore" => lifecycle = "Attached" /\ lifecycle' = "Detaching"
        /\ pc'[c] = "idle" => lifecycle' = lifecycle
        /\ pc[c] # "idle"
    BY <1>4, <1>0 DEF BeginDetach, Goto, Return, TypeOK
  <2>3. TypeOK'
    BY <1>0, <1>2, <1>3, <2>1 DEF TypeOK
  <2>4. LifecycleMatches'
    BY <1>2, <2>1 DEF IInv, LifecycleMatches, Held
  <2>5. BackupIsBase' /\ WeightsMatchAdapter'
    BY <1>2, <1>3, <2>1 DEF IInv, BackupIsBase, WeightsMatchAdapter, Merged, Held
  <2>6. ChainUsesCurrent' /\ ChainUsesOneModel'
    BY <1>2, <1>3, <2>1 DEF IInv, ChainUsesCurrent, ChainUsesOneModel, Held
  <2> QED
    BY <1>2, <2>3, <2>4, <2>5, <2>6 DEF IInv
<1>5. CASE Restore(c)
  <2>0. adapter # None /\ backup \in Seq(Adapter) /\ (failures = 0 => backup = << >>)
    BY <1>5 DEF Restore, IInv, TypeOK, LifecycleMatches, BackupIsBase
  <2>1. /\ pc'[c] = "idle" /\ backup' = None /\ adapter' = None /\ lifecycle' = "Detached"
        /\ (weights' = backup /\ failures' = failures)
             \/ (weights' = weights /\ failures' = failures + 1)
    BY <1>5, <1>0 DEF Restore, Return, TypeOK
  <2>2. failures \in Nat /\ weights \in Seq(Adapter)
    BY DEF IInv, TypeOK
  <2>3. TypeOK'
    <3>1. weights' \in Seq(Adapter) /\ failures' \in Nat
      BY <2>0, <2>1, <2>2
    <3> QED
      BY <1>0, <1>2, <1>3, <2>1, <3>1 DEF TypeOK
  <2>4. LifecycleMatches'
    BY <1>2, <2>1 DEF IInv, LifecycleMatches, Held
  <2>5. BackupIsBase'
    BY <1>2, <2>1 DEF BackupIsBase, Held
  <2>6. WeightsMatchAdapter'
    BY <2>0, <2>1, <2>2 DEF WeightsMatchAdapter, Merged
  <2>7. ChainUsesCurrent' /\ ChainUsesOneModel'
    BY <1>2, <1>3, <2>1 DEF IInv, ChainUsesCurrent, ChainUsesOneModel, Held
  <2> QED
    BY <1>2, <2>3, <2>4, <2>5, <2>6, <2>7 DEF IInv
<1> QED
  BY <1>4, <1>5

(* Chains: each step sees the weights the ones before it saw.              *)
LEMMA ChainIInv ==
  ASSUME IInv, NEW c \in Client, BeginRun(c) \/ ChainStep(c) \/ EndStream(c)
  PROVE  IInv'
<1> USE DEF stream
<1>0. TypeOK /\ pc[c] \in Held \cup {"locked"}
  BY DEF IInv, BeginRun, ChainStep, EndStream, Held
<1>1. (\E a \in {"ok", "error", "plan", "reasoning"} : Return(c, a)) \/ (\E l \in Held : Goto(c, l))
  BY DEF BeginRun, ChainStep, EndStream, Held
<1>2. /\ pc' \in [Client -> Held \cup {"idle", "waiting", "locked"}]
      /\ reply' \in [Client -> {None, "ok", "error", "plan", "reasoning"}]
      /\ holder' \in Client \cup {None}
      /\ req' = req
      /\ \A d \in Client \ {c} : pc'[d] = pc[d] /\ pc[d] \notin Held \cup {"locked"}
      /\ MutualExclusion'
  BY <1>0, <1>1, WhereTo
<1>3. UNCHANGED engine
  BY DEF BeginRun, ChainStep, EndStream
<1>4. /\ pc'[c] \in {"run", "idle"} /\ (pc'[c] = "run" => req[c].kind = "run")
      /\ pc[c] # "idle"
      /\ UNCHANGED traces \/ (traces' = [traces EXCEPT ![c] = Append(@, weights)] /\ pc[c] = "run")
      /\ pc'[c] = "idle" \/ pc[c] = "run" \/ (pc[c] = "locked" /\ UNCHANGED traces)
      /\ out' \in [Client -> Seq(Nat)] /\ UNCHANGED <<chan, got, hung>>
  <2>1. CASE BeginRun(c)
    BY <2>1, <1>0 DEF BeginRun, Goto, TypeOK
  <2>2. CASE ChainStep(c)
    <3>1. pc[c] = "run" /\ req[c].kind = "run"
      BY <2>2 DEF ChainStep, IInv, LifecycleMatches
    <3>2. pc'[c] \in {"run", "idle"}
      BY <2>2, <1>0 DEF ChainStep, Goto, Return, TypeOK
    <3> QED
      BY <2>2, <3>1, <3>2, <1>0 DEF ChainStep, TypeOK
  <2>3. CASE EndStream(c)
    BY <2>3, <1>0 DEF EndStream, Return, TypeOK
  <2> QED
    BY <2>1, <2>2, <2>3
<1>5. LifecycleMatches'
  BY <1>2, <1>3, <1>4 DEF IInv, LifecycleMatches, Held, engine
<1>6. BackupIsBase' /\ WeightsMatchAdapter'
  BY <1>2, <1>3, <1>4 DEF IInv, BackupIsBase, WeightsMatchAdapter, Merged, Held, engine
<1>7. CASE UNCHANGED traces
  <2>1. TypeOK'
    BY <1>7, <1>0, <1>2, <1>3, <1>4 DEF TypeOK, engine
  <2>2. ChainUsesCurrent'
    <3> SUFFICES ASSUME NEW d \in Client
                 PROVE  /\ pc'[d] \in {"waiting", "locked"} => traces[d] = << >>
                        /\ pc'[d] = "run" => \A i \in DOMAIN traces[d] : traces[d][i] = weights
      BY <1>3, <1>7 DEF ChainUsesCurrent, engine
    <3>1. CASE d = c
      BY <3>1, <1>4 DEF IInv, ChainUsesCurrent
    <3>2. CASE d # c
      BY <3>2, <1>2 DEF IInv, ChainUsesCurrent
    <3> QED
      BY <3>1, <3>2
  <2>3. ChainUsesOneModel'
    BY <1>7 DEF IInv, ChainUsesOneModel
  <2> QED
    BY <1>2, <1>5, <1>6, <2>1, <2>2, <2>3 DEF IInv
<1>8. CASE traces' = [traces EXCEPT ![c] = Append(@, weights)] /\ pc[c] = "run"
  <2>1. /\ weights \in Seq(Adapter) /\ traces[c] \in Seq(Seq(Adapter))
        /\ \A i \in DOMAIN traces[c] : traces[c][i] = weights
    BY <1>8 DEF IInv, TypeOK, ChainUsesCurrent
  <2>2. /\ traces'[c] = Append(traces[c], weights)
        /\ \A d \in Client \ {c} : traces'[d] = traces[d]
    BY <1>8, <1>0 DEF TypeOK
  <2>3. traces'[c] \in Seq(Seq(Adapter)) /\ \A i \in DOMAIN traces'[c] : traces'[c][i] = weights
    <3>1. /\ DOMAIN Append(traces[c], weights) = 1 .. Len(traces[c]) + 1
          /\ DOMAIN traces[c] = 1 .. Len(traces[c]) /\ Len(traces[c]) \in Nat
          /\ Append(traces[c], weights) \in Seq(Seq(Adapter))
      BY <2>1
    <3>2. \A i \in 1 .. Len(traces[c]) + 1 :
            Append(traces[c], weights)[i] = IF i = Len(traces[c]) + 1 THEN weights ELSE traces[c][i]
      BY <2>1
    <3>3. \A i \in 1 .. Len(traces[c]) + 1 : i # Len(traces[c]) + 1 => i \in DOMAIN traces[c]
      BY <3>1
    <3> QED
      BY <2>1, <2>2, <3>1, <3>2, <3>3
  <2>4. traces' \in [Client -> Seq(Seq(Adapter))]
    BY <1>8, <1>0, <2>2, <2>3 DEF TypeOK
  <2>5. TypeOK'
    BY <1>0, <1>2, <1>3, <1>4, <2>4 DEF TypeOK, engine
  <2>6. ChainUsesCurrent'
    <3> SUFFICES ASSUME NEW d \in Client
                 PROVE  /\ pc'[d] \in {"waiting", "locked"} => traces'[d] = << >>
                        /\ pc'[d] = "run" => \A i \in DOMAIN traces'[d] : traces'[d][i] = weights
      BY <1>3 DEF ChainUsesCurrent, engine
    <3>1. CASE d = c
      BY <3>1, <1>4, <2>3
    <3>2. CASE d # c
      BY <3>2, <1>2, <2>2 DEF IInv, ChainUsesCurrent
    <3> QED
      BY <3>1, <3>2
  <2>7. ChainUsesOneModel'
    <3> SUFFICES ASSUME NEW d \in Client
                 PROVE  \A i, j \in DOMAIN traces'[d] : traces'[d][i] = traces'[d][j]
      BY DEF ChainUsesOneModel
    <3>1. CASE d = c
      BY <3>1, <2>3
    <3>2. CASE d # c
      BY <3>2, <2>2 DEF IInv, ChainUsesOneModel
    <3> QED
      BY <3>1, <3>2
  <2> QED
    BY <1>2, <1>5, <1>6, <2>5, <2>6, <2>7 DEF IInv
<1> QED
  BY <1>4, <1>7, <1>8

(* Every step of every handler keeps the invariant.                        *)
LEMMA NextIInv == IInv /\ [Next]_vars => IInv'
<1> SUFFICES ASSUME IInv, [Next]_vars
             PROVE  IInv'
  OBVIOUS
<1>1. CASE UNCHANGED vars
  BY <1>1 DEF vars, engine, stream, IInv, TypeOK, MutualExclusion, LifecycleMatches,
              BackupIsBase, WeightsMatchAdapter, Merged, ChainUsesCurrent, ChainUsesOneModel
<1>2. CASE Next
  BY <1>2, CallLockIInv, OutsideIInv, LoadIInv, DetachIInv, ChainIInv DEF Next, Step
<1> QED
  BY <1>1, <1>2

(* The model's weights are always the base model with the reported adapter *)
(* merged into it, unless a restoration failed.                            *)
THEOREM EngineReportsItsWeights == Spec => []WeightsMatchAdapter
<1>1. IInv => WeightsMatchAdapter
  BY DEF IInv
<1> QED
  BY InitIInv, NextIInv, <1>1, PTL DEF Spec

(* No chain is computed by two models, for any number of clients.          *)
THEOREM ChainsSeeOneModel == Spec => []ChainUsesOneModel
<1>1. IInv => ChainUsesOneModel
  BY DEF IInv
<1> QED
  BY InitIInv, NextIInv, <1>1, PTL DEF Spec
==============================================================================
