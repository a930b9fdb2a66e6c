---------------------------- MODULE KernelService ----------------------------
(***************************************************************************)
(* The reasoning-kernel server of crates/llm: the gRPC handlers of         *)
(* server/service.rs around one LlamaEngine (engine.rs) behind a mutex.    *)
(* Each handler runs on a blocking thread that takes the mutex, works for  *)
(* several steps and lets it go; adapters are merged into the weights of   *)
(* the model every later answer is computed with.                          *)
(*                                                                         *)
(* The weights are abstracted to the sequence of adapters merged into the  *)
(* base model, << >> being the base model itself.  A saved copy and its    *)
(* restoration are taken as exact (the code rounds to half precision).     *)
(***************************************************************************)
EXTENDS Naturals, Sequences

CONSTANTS
  Client,      \* callers; each has at most one call running
  Adapter,     \* adapters of the registry
  Rejected,    \* not found, incompatible or without a merge plan
  Unmatched,   \* no tensor of the model has their name (or no "import" feature)
  Malformed,   \* factors of a shape the tensor library panics on
  Chunks,      \* messages of a streamed answer before its finish message
  Buffer,      \* mpsc::channel(64)
  MaxFailures, \* bound: restorations that fail
  None

ASSUME KernelAssumption ==
  /\ Rejected \subseteq Adapter /\ Unmatched \subseteq Adapter
  /\ Malformed \subseteq Adapter
  /\ Chunks \in Nat /\ Buffer \in Nat \ {0} /\ MaxFailures \in Nat
  /\ None \notin Client /\ None \notin Adapter
  /\ None \notin Seq(Adapter)
  /\ None \notin [id : Adapter, merged : BOOLEAN]

VARIABLES
  holder,     \* the client whose thread holds the engine mutex, or None
  lifecycle,  \* adapter_lifecycle
  adapter,    \* adapter: None or its id and whether its weights were merged
  weights,    \* the model's weights
  backup,     \* original_weights_path: None or the weights saved there
  failures,   \* history: restorations that failed
  pc,         \* [Client -> where its handler is]
  req,        \* [Client -> its last request]
  reply,      \* [Client -> the reply to it]
  traces,     \* [Client -> weights used by each step of its last chain]
  out,        \* [Client -> messages its stream has still to send]
  chan,       \* [Client -> messages in its stream's channel]
  got,        \* [Client -> messages it has read]
  hung        \* [Client -> it dropped the stream]

engine == <<lifecycle, adapter, weights, backup, failures>>
stream == <<out, chan, got, hung>>
vars == <<holder, engine, pc, req, reply, traces, stream>>

Request == [kind : {"load"}, id : Adapter] \cup [kind : {"detach", "stream"}, id : {None}]
             \cup [kind : {"run"}, id : Adapter \cup {None}]
Finish == Chunks + 1
ErrorChunk == 0
Answer == [i \in 1 .. Finish |-> i]
Held == {"check", "save", "merge", "restore", "run", "send"}

TypeOK ==
  /\ holder \in Client \cup {None}
  /\ lifecycle \in {"Detached", "Loading", "Attached", "Detaching"}
  /\ adapter \in [id : Adapter, merged : BOOLEAN] \cup {None}
  /\ weights \in Seq(Adapter)
  /\ backup \in Seq(Adapter) \cup {None}
  /\ failures \in Nat
  /\ pc \in [Client -> Held \cup {"idle", "waiting", "locked"}]
  /\ req \in [Client -> Request \cup {None}]
  /\ reply \in [Client -> {None, "ok", "error", "plan", "reasoning"}]
  /\ traces \in [Client -> Seq(Seq(Adapter))]
  /\ out \in [Client -> Seq(Nat)]
  /\ chan \in [Client -> Seq(Nat)]
  /\ got \in [Client -> Seq(Nat)]
  /\ hung \in [Client -> BOOLEAN]

Init ==
  /\ holder = None
  /\ lifecycle = "Detached"
  /\ adapter = None
  /\ weights = << >>
  /\ backup = None
  /\ failures = 0
  /\ pc = [c \in Client |-> "idle"]
  /\ req = [c \in Client |-> None]
  /\ reply = [c \in Client |-> None]
  /\ traces = [c \in Client |-> << >>]
  /\ out = [c \in Client |-> << >>]
  /\ chan = [c \in Client |-> << >>]
  /\ got = [c \in Client |-> << >>]
  /\ hung = [c \in Client |-> FALSE]

------------------------------------------------------------------------------
Call(c, r) ==
  /\ pc[c] = "idle"
  /\ chan[c] = << >>
  /\ pc' = [pc EXCEPT ![c] = "waiting"]
  /\ req' = [req EXCEPT ![c] = r]
  /\ reply' = [reply EXCEPT ![c] = None]
  /\ traces' = [traces EXCEPT ![c] = << >>]
  /\ got' = [got EXCEPT ![c] = << >>]
  /\ hung' = [hung EXCEPT ![c] = FALSE]
  /\ UNCHANGED <<holder, engine, out, chan>>

(* Mutant: the engine is not locked.                                       *)
LockBusy(c) ==
  /\ pc[c] = "waiting"
  /\ holder' = c
  /\ pc' = [pc EXCEPT ![c] = "locked"]
  /\ UNCHANGED <<engine, req, reply, traces, stream>>

(* blocking_lock on the blocking thread of the call.                       *)
Lock(c) ==
  /\ pc[c] = "waiting"
  /\ holder = None
  /\ holder' = c
  /\ pc' = [pc EXCEPT ![c] = "locked"]
  /\ UNCHANGED <<engine, req, reply, traces, stream>>

(* Mutant: the guard is never dropped.                                     *)
ReturnLocked(c, answer) ==
  /\ pc' = [pc EXCEPT ![c] = "idle"]
  /\ reply' = [reply EXCEPT ![c] = answer]
  /\ UNCHANGED <<holder, req>>

(* The guard is dropped, on return or by unwinding, and the call answered. *)
Return(c, answer) ==
  /\ holder' = None
  /\ pc' = [pc EXCEPT ![c] = "idle"]
  /\ reply' = [reply EXCEPT ![c] = answer]
  /\ UNCHANGED req

Goto(c, label) ==
  /\ pc' = [pc EXCEPT ![c] = label]
  /\ UNCHANGED <<holder, req, reply>>

(* transition_lifecycle(Loading): from Detached only.                      *)
CanLoad == lifecycle = "Detached"

BeginLoad(c) ==
  /\ pc[c] = "locked" /\ req[c].kind = "load"
  /\ IF CanLoad
       THEN lifecycle' = "Loading" /\ Goto(c, "check")
       ELSE Return(c, "error") /\ UNCHANGED lifecycle
  /\ UNCHANGED <<adapter, weights, backup, failures, traces, stream>>

(* The error branch of load_adapter.                                       *)
RollBack(c) ==
  /\ lifecycle' = "Detached"
  /\ adapter' = None
  /\ backup' = None
  /\ Return(c, "error")
  /\ UNCHANGED <<weights, failures, traces, stream>>

(* Manifest, compatibility, weights, target layers and merge plan.         *)
CheckAdapter(c) ==
  /\ pc[c] = "check"
  /\ \/ req[c].id \in Rejected /\ RollBack(c)
     \/ /\ req[c].id \notin Rejected
        /\ Goto(c, "save")
        /\ UNCHANGED <<engine, traces, stream>>

(* save_original_weights writes a file, and may fail.                      *)
SaveWeights(c) ==
  /\ pc[c] = "save"
  /\ \/ RollBack(c)
     \/ /\ backup' = weights
        /\ Goto(c, "merge")
        /\ UNCHANGED <<lifecycle, adapter, weights, failures, traces, stream>>

(* apply_lora_merge.  Without a matching tensor the report says blocked    *)
(* and the adapter is attached all the same.  A panic unwinds through      *)
(* load_adapter, which has then no occasion to roll back.                  *)
Panics(id) == id \in Malformed \ Unmatched

Merge(c) ==
  LET id == req[c].id
      merged == id \notin Unmatched
  IN  /\ pc[c] = "merge"
      /\ IF Panics(id)
           THEN Return(c, "error") /\ UNCHANGED <<lifecycle, adapter, weights>>
           ELSE /\ weights' = IF merged THEN Append(weights, id) ELSE weights
                /\ adapter' = [id |-> id, merged |-> merged]
                /\ lifecycle' = "Attached"
                /\ Return(c, "ok")
      /\ UNCHANGED <<backup, failures, traces, stream>>

BeginDetach(c) ==
  /\ pc[c] = "locked" /\ req[c].kind = "detach"
  /\ \/ /\ lifecycle = "Attached"
        /\ lifecycle' = "Detaching"
        /\ Goto(c, "restore")
     \/ /\ lifecycle # "Attached"
        /\ Return(c, IF lifecycle = "Detached" THEN "ok" ELSE "error")
        /\ UNCHANGED lifecycle
  /\ UNCHANGED <<adapter, weights, backup, failures, traces, stream>>

(* Mutant: a detach that leaves the merged weights in place.               *)
RestoreNothing(c) ==
  /\ pc[c] = "restore"
  /\ Return(c, "ok")
  /\ backup' = None
  /\ adapter' = None
  /\ lifecycle' = "Detached"
  /\ UNCHANGED <<weights, failures, traces, stream>>

(* restore_original_weights reads the file, and may fail; the adapter is   *)
(* forgotten and the saved copy deleted either way.                        *)
Restore(c) ==
  /\ pc[c] = "restore"
  /\ \/ /\ weights' = backup
        /\ Return(c, "ok")
        /\ UNCHANGED failures
     \/ /\ failures < MaxFailures
        /\ failures' = failures + 1
        /\ Return(c, "error")
        /\ UNCHANGED weights
  /\ backup' = None
  /\ adapter' = None
  /\ lifecycle' = "Detached"
  /\ UNCHANGED <<traces, stream>>

(* validate_adapter_for_envelope                                           *)
Accepts(id) == id = None \/ (adapter # None /\ adapter.id = id)

BeginRun(c) ==
  /\ pc[c] = "locked" /\ req[c].kind = "run"
  /\ Goto(c, "run")
  /\ UNCHANGED <<engine, traces, stream>>

(* One step of run_with_plan: reasoning, evaluation, planning.  It fails   *)
(* with an error, or its output is traced and validated.                   *)
ChainStep(c) ==
  /\ pc[c] = "run"
  /\ \/ /\ Return(c, "error")
        /\ UNCHANGED traces
     \/ /\ Accepts(req[c].id)
        /\ traces' = [traces EXCEPT ![c] = Append(@, weights)]
        /\ \/ Return(c, "reasoning")
           \/ Len(traces[c]) < 2 /\ Goto(c, "run")
           \/ Len(traces[c]) = 2 /\ Return(c, "plan")
  /\ UNCHANGED <<engine, stream>>

(* stream_generate computes the whole answer first.                        *)
BeginStream(c) ==
  /\ pc[c] = "locked" /\ req[c].kind = "stream"
  /\ Goto(c, "send")
  /\ out' = [out EXCEPT ![c] = Answer]
  /\ UNCHANGED <<engine, traces, chan, got, hung>>

StreamError(c) ==
  /\ pc[c] = "locked" /\ req[c].kind = "stream"
  /\ Goto(c, "send")
  /\ out' = [out EXCEPT ![c] = <<ErrorChunk>>]
  /\ UNCHANGED <<engine, traces, chan, got, hung>>

(* blocking_send waits for room, with the mutex held.                      *)
SendChunk(c) ==
  /\ pc[c] = "send" /\ out[c] # << >> /\ ~hung[c]
  /\ Len(chan[c]) < Buffer
  /\ chan' = [chan EXCEPT ![c] = Append(@, Head(out[c]))]
  /\ out' = [out EXCEPT ![c] = Tail(@)]
  /\ UNCHANGED <<holder, engine, pc, req, reply, traces, got, hung>>

EndStream(c) ==
  /\ pc[c] = "send" /\ (out[c] = << >> \/ hung[c])
  /\ Return(c, "ok")
  /\ out' = [out EXCEPT ![c] = << >>]
  /\ UNCHANGED <<engine, traces, chan, got, hung>>

Read(c) ==
  /\ chan[c] # << >>
  /\ got' = [got EXCEPT ![c] = Append(@, Head(chan[c]))]
  /\ chan' = [chan EXCEPT ![c] = Tail(@)]
  /\ UNCHANGED <<holder, engine, pc, req, reply, traces, out, hung>>

HangUp(c) ==
  /\ req[c] # None /\ req[c].kind = "stream" /\ ~hung[c]
  /\ hung' = [hung EXCEPT ![c] = TRUE]
  /\ chan' = [chan EXCEPT ![c] = << >>]
  /\ UNCHANGED <<holder, engine, pc, req, reply, traces, out, got>>

Step(c) ==
  \/ BeginLoad(c) \/ CheckAdapter(c) \/ SaveWeights(c) \/ Merge(c)
  \/ BeginDetach(c) \/ Restore(c)
  \/ BeginRun(c) \/ ChainStep(c)
  \/ BeginStream(c) \/ StreamError(c) \/ SendChunk(c) \/ EndStream(c)

Next ==
  \E c \in Client :
    \/ \E r \in Request : Call(c, r)
    \/ Lock(c)
    \/ Step(c)
    \/ Read(c)
    \/ HangUp(c)

Spec == Init /\ [][Next]_vars

(* Threads run on; tokio's mutex is fair to those waiting for it; a client *)
(* reads its stream (or hangs up, after which nothing is left to read).    *)
Fairness ==
  \A c \in Client : WF_vars(Step(c)) /\ SF_vars(Lock(c)) /\ WF_vars(Read(c))

FairSpec == Spec /\ Fairness

------------------------------------------------------------------------------
Merged(a) == IF a # None /\ a.merged THEN <<a.id>> ELSE << >>

(* What the engine reports is what the model is: as long as no restoration *)
(* failed, the weights are the base model with the attached adapter merged *)
(* into it if it says so, and with nothing else, whatever loads failed,    *)
(* panicked, were refused or undone before.                                *)
WeightsMatchAdapter == failures = 0 => weights = Merged(adapter)

(* A chain's three steps are computed by one and the same model, although  *)
(* other clients load and detach adapters meanwhile.                       *)
ChainUsesOneModel ==
  \A c \in Client : \A i, j \in DOMAIN traces[c] : traces[c][i] = traces[c][j]

(* Every call is answered, whatever the others do.                         *)
EveryCallAnswered == \A c \in Client : pc[c] = "waiting" ~> pc[c] = "idle"

(* The inductive invariant.                                                *)
MutualExclusion ==
  \A c \in Client : pc[c] \in Held \cup {"locked"} => holder = c

LifecycleMatches ==
  /\ lifecycle \in {"Attached", "Detaching"} <=> adapter # None
  /\ \A c \in Client :
       /\ pc[c] # "idle" => req[c] \in Request
       /\ pc[c] \in {"check", "save", "merge"} => lifecycle = "Loading" /\ req[c].kind = "load"
       /\ pc[c] = "restore" => lifecycle = "Detaching"
       /\ pc[c] = "run" => req[c].kind = "run"

BackupIsBase ==
  /\ adapter # None => backup # None /\ (failures = 0 => backup = << >>)
  /\ \A c \in Client : pc[c] = "merge" => backup = weights

ChainUsesCurrent ==
  \A c \in Client :
    /\ pc[c] \in {"waiting", "locked"} => traces[c] = << >>
    /\ pc[c] = "run" => \A i \in DOMAIN traces[c] : traces[c][i] = weights

IInv ==
  /\ TypeOK
  /\ MutualExclusion
  /\ LifecycleMatches
  /\ BackupIsBase
  /\ WeightsMatchAdapter
  /\ ChainUsesCurrent
  /\ ChainUsesOneModel
==============================================================================
