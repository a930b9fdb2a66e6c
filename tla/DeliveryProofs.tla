--------------------------- MODULE DeliveryProofs ---------------------------
(***************************************************************************)
(* What is delivered.  The push half of the sync engine, for every set of   *)
(* devices' events, cycles and crashes: an event that is no longer queued  *)
(* is in the remote log, which never changes one it has.  The pull half,   *)
(* for every set of documents and collections and any number of remote     *)
(* writes: with a remote store whose updated_after filter works (redb),    *)
(* the only update a device can lose is one that raced a pull, and with any *)
(* store a copy is made older only by cycles that overlap.  The hub,        *)
(* for every set of events, publishers and subscribers and every capacity: *)
(* attaching before the snapshot leaves no gap between replay and live     *)
(* stream.                                                                 *)
(***************************************************************************)
EXTENDS EventSync, DocumentSync, EventHub, TLAPS

------------------------------------------------------------------------------
(* The push half: EventSync.                                               *)

USE DEF EventId

(* The initial state, with empty tables and no cycle, satisfies the        *)
(* invariant.                                                              *)
LEMMA InitIInv == Init => IInv
  BY EventAssumption
  DEF Init, IInv, TypeOK, SyncedIsRemote, TablesAgree, BatchIsLocal,
      AckedIsRemote, RemoteIsLocal, Held, Nothing

(* The local append transaction keeps the invariant: it adds a record and  *)
(* its queue entry together, and leaves an existing record alone.          *)
LEMMA AppendIInv ==
  ASSUME IInv, NEW id \in DeviceId, NEW body \in Body, AppendEvent(id, body)
  PROVE  IInv'
<1> USE EventAssumption DEF AppendEvent, cycleVars
<1>1. TypeOK'
  BY DEF IInv, TypeOK
<1>2. SyncedIsRemote' /\ TablesAgree'
  BY DEF IInv, TypeOK, SyncedIsRemote, TablesAgree, Held
<1>3. BatchIsLocal' /\ AckedIsRemote' /\ RemoteIsLocal'
  BY DEF IInv, TypeOK, BatchIsLocal, AckedIsRemote, RemoteIsLocal, Held
<1> QED
  BY <1>1, <1>2, <1>3 DEF IInv

(* A service writing its own event to the remote log keeps the invariant.  *)
LEMMA CloudAppendIInv ==
  ASSUME IInv, NEW id \in CloudId, NEW body \in Body, CloudAppend(id, body)
  PROVE  IInv'
<1> USE EventAssumption DEF CloudAppend, localVars, cycleVars
<1>1. TypeOK'
  BY DEF IInv, TypeOK
<1>2. SyncedIsRemote' /\ TablesAgree'
  BY DEF IInv, TypeOK, SyncedIsRemote, TablesAgree, Held
<1>3. BatchIsLocal' /\ AckedIsRemote' /\ RemoteIsLocal'
  BY DEF IInv, TypeOK, BatchIsLocal, AckedIsRemote, RemoteIsLocal, Held
<1> QED
  BY <1>1, <1>2, <1>3 DEF IInv

(* Trying one event of a batch, whatever becomes of the request, keeps the *)
(* invariant: only what was written is acknowledged, and what is written   *)
(* is the local body.                                                      *)
LEMMA PushIInv ==
  ASSUME IInv, NEW c \in Cycle, NEW id \in DeviceId,
         \/ PushOk(c, id)
         \/ PushAnswerLost(c, id)
         \/ PushFailed(c, id)
  PROVE  IInv'
<1> USE EventAssumption DEF localVars, Tried, IsNext, RemoteWrite
<1>1. /\ remote' \in {remote, [remote EXCEPT ![id] = batch[c][id]]}
      /\ batch[c][id] # NoBody /\ batch[c][id] = events[id]
  BY DEF PushOk, PushAnswerLost, PushFailed, IInv, BatchIsLocal, Held
<1>2. \/ acked' = acked
      \/ /\ acked' = [acked EXCEPT ![c] = @ \cup {id}]
         /\ remote' = [remote EXCEPT ![id] = batch[c][id]]
  BY DEF PushOk, PushAnswerLost, PushFailed
<1>3. /\ batch' = [batch EXCEPT ![c] = [@ EXCEPT ![id] = NoBody]]
      /\ UNCHANGED <<events, syncedAt, unsynced, pc, crashes>>
  BY DEF PushOk, PushAnswerLost, PushFailed
<1>4. TypeOK'
  <2>1. /\ remote' \in [EventId -> Body \cup {NoBody}]
        /\ acked' \in [Cycle -> SUBSET DeviceId]
    BY <1>1, <1>2 DEF IInv, TypeOK
  <2>2. batch' \in [Cycle -> [DeviceId -> Body \cup {NoBody}]]
    BY <1>3 DEF IInv, TypeOK
  <2> QED
    BY <1>3, <2>1, <2>2 DEF IInv, TypeOK
<1>5. SyncedIsRemote' /\ TablesAgree'
  BY <1>1, <1>3 DEF IInv, TypeOK, SyncedIsRemote, TablesAgree, Held
<1>6. BatchIsLocal'
  BY <1>3 DEF IInv, TypeOK, BatchIsLocal, Held
<1>7. AckedIsRemote'
  BY <1>1, <1>2, <1>3 DEF IInv, TypeOK, AckedIsRemote, Held
<1>8. RemoteIsLocal'
  BY <1>1, <1>3 DEF IInv, TypeOK, RemoteIsLocal
<1> QED
  BY <1>4, <1>5, <1>6, <1>7, <1>8 DEF IInv

(* The bookkeeping steps of a cycle keep the invariant; mark_synced takes  *)
(* off the queue only what the remote log holds.                           *)
LEMMA CycleIInv ==
  ASSUME IInv, NEW c \in Cycle,
         \/ BeginPush(c)
         \/ EndOfBatch(c)
         \/ NothingToMark(c)
         \/ MarkSynced(c)
         \/ MarkFailed(c)
  PROVE  IInv'
<1> USE EventAssumption DEF localVars
<1>1. CASE BeginPush(c)
  BY <1>1 DEF BeginPush, IInv, TypeOK, SyncedIsRemote, TablesAgree,
              BatchIsLocal, AckedIsRemote, RemoteIsLocal, Held
<1>2. CASE EndOfBatch(c) \/ NothingToMark(c)
  <2>1. /\ pc' \in [Cycle -> {"idle", "push", "mark"}]
        /\ UNCHANGED <<events, syncedAt, unsynced, remote, batch, acked, crashes>>
    BY <1>2 DEF EndOfBatch, NothingToMark, IInv, TypeOK
  <2> QED
    BY <2>1 DEF IInv, TypeOK, SyncedIsRemote, TablesAgree, BatchIsLocal,
                AckedIsRemote, RemoteIsLocal, Held
<1>3. CASE MarkSynced(c)
  <2> USE <1>3 DEF MarkSynced
  <2>1. TypeOK'
    BY DEF IInv, TypeOK, Held
  <2>2. SyncedIsRemote' /\ TablesAgree'
    BY DEF IInv, TypeOK, SyncedIsRemote, TablesAgree, AckedIsRemote, Held
  <2>3. BatchIsLocal' /\ AckedIsRemote' /\ RemoteIsLocal'
    BY DEF IInv, TypeOK, BatchIsLocal, AckedIsRemote, RemoteIsLocal, Held
  <2> QED
    BY <2>1, <2>2, <2>3 DEF IInv
<1>4. CASE MarkFailed(c)
  BY <1>4 DEF MarkFailed, IInv, TypeOK, SyncedIsRemote, TablesAgree,
              BatchIsLocal, AckedIsRemote, RemoteIsLocal, Held
<1> QED
  BY <1>1, <1>2, <1>3, <1>4

(* A crash forgets every batch and acknowledgement and nothing else.       *)
LEMMA CrashIInv ==
  ASSUME IInv, Crash
  PROVE  IInv'
<1> USE EventAssumption DEF Crash, localVars, Nothing
<1>1. TypeOK'
  BY DEF IInv, TypeOK
<1>2. SyncedIsRemote' /\ TablesAgree' /\ RemoteIsLocal'
  BY DEF IInv, SyncedIsRemote, TablesAgree, RemoteIsLocal, Held
<1>3. BatchIsLocal' /\ AckedIsRemote'
  BY DEF BatchIsLocal, AckedIsRemote, Held
<1> QED
  BY <1>1, <1>2, <1>3 DEF IInv

(* IInv is inductive.                                                      *)
LEMMA NextIInv == IInv /\ [Next]_vars => IInv'
<1> SUFFICES ASSUME IInv, [Next]_vars
             PROVE  IInv'
  OBVIOUS
<1>1. CASE UNCHANGED vars
  BY <1>1 DEF vars, IInv, TypeOK, SyncedIsRemote, TablesAgree, BatchIsLocal,
              AckedIsRemote, RemoteIsLocal, Held
<1>2. CASE Next
  BY <1>2, AppendIInv, CloudAppendIInv, PushIInv, CycleIInv, CrashIInv DEF Next
<1> QED
  BY <1>1, <1>2

(* Every reachable state satisfies the inductive invariant.                *)
THEOREM Invariance == Spec => []IInv
  BY InitIInv, NextIInv, PTL DEF Spec

(* No event is taken off the sync queue before the remote log holds it.    *)
THEOREM SyncedEventsAreRemote == Spec => []SyncedIsRemote
<1>1. IInv => SyncedIsRemote
  BY DEF IInv
<1> QED
  BY <1>1, Invariance, PTL

(* The queue and the synced_at flags of the records always agree.          *)
THEOREM QueueMatchesRecords == Spec => []TablesAgree
<1>1. IInv => TablesAgree
  BY DEF IInv
<1> QED
  BY <1>1, Invariance, PTL

------------------------------------------------------------------------------
(* The step of the remote log that each action takes, in a state of the    *)
(* invariant: nothing, one new event of the service, or one device event   *)
(* with its local body.                                                    *)
LEMMA RemoteStep ==
  ASSUME IInv, [Next]_vars
  PROVE  \/ UNCHANGED remote
         \/ \E id \in CloudId, body \in Body :
              remote[id] = NoBody /\ remote' = [remote EXCEPT ![id] = body]
         \/ \E id \in DeviceId :
              events[id] # NoBody /\ remote' = [remote EXCEPT ![id] = events[id]]
<1>1. CASE \E c \in Cycle, id \in DeviceId : PushOk(c, id) \/ PushAnswerLost(c, id)
  <2> PICK c \in Cycle, id \in DeviceId : PushOk(c, id) \/ PushAnswerLost(c, id)
    BY <1>1
  <2>1. remote' = [remote EXCEPT ![id] = batch[c][id]] /\ id \in Held(batch[c])
    BY DEF PushOk, PushAnswerLost, RemoteWrite, IsNext
  <2>2. batch[c][id] = events[id] /\ events[id] # NoBody
    BY <2>1 DEF IInv, BatchIsLocal, Held
  <2> QED
    BY <2>1, <2>2
<1>2. CASE \E id \in CloudId, body \in Body : CloudAppend(id, body)
  <2> PICK id \in CloudId, body \in Body : CloudAppend(id, body)
    BY <1>2
  <2>1. remote[id] = NoBody /\ remote' = [remote EXCEPT ![id] = body]
    BY DEF CloudAppend, Held, IInv, TypeOK
  <2> QED
    BY <2>1
<1>3. CASE \/ UNCHANGED vars
           \/ \E id \in DeviceId, body \in Body : AppendEvent(id, body)
           \/ \E c \in Cycle, id \in DeviceId : PushFailed(c, id)
           \/ \E c \in Cycle : \/ BeginPush(c) \/ EndOfBatch(c)
                               \/ NothingToMark(c) \/ MarkSynced(c) \/ MarkFailed(c)
           \/ Crash
  BY <1>3 DEF vars, AppendEvent, PushFailed, BeginPush, EndOfBatch, NothingToMark,
              MarkSynced, MarkFailed, Crash
<1> QED
  BY <1>1, <1>2, <1>3 DEF Next

(* No step changes or removes an event the remote log holds.               *)
THEOREM RemoteNeverChanges == Spec => RemoteAppendOnly
<1>1. ASSUME IInv, [Next]_vars
      PROVE  [\A id \in Held(remote) : remote'[id] = remote[id]]_vars
  BY <1>1, RemoteStep, EventAssumption DEF IInv, TypeOK, RemoteIsLocal, Held
<1> QED
  BY <1>1, Invariance, PTL DEF Spec, RemoteAppendOnly

(* The engine's initial state is ReliableLog's.                            *)
LEMMA InitRefines == Init => Promise!Init
  BY EventAssumption DEF Init, Promise!Init, Held, Nothing

(* Each step of the engine is a step of ReliableLog or leaves it unchanged: *)
(* Append accepts, an applied request delivers, mark_synced confirms.      *)
LEMMA StepRefines ==
  ASSUME IInv, [Next]_vars
  PROVE  [Promise!Next]_(Promise!vars)
<1> USE DEF Promise!Next, Promise!vars
<1>1. CASE \E id \in DeviceId, body \in Body : AppendEvent(id, body)
  <2> PICK id \in DeviceId, body \in Body : AppendEvent(id, body)
    BY <1>1
  <2>1. CASE events[id] = NoBody
    <3>1. /\ events' = [events EXCEPT ![id] = body]
          /\ unsynced' = unsynced \cup {id} /\ remote' = remote
      BY <2>1 DEF AppendEvent
    <3>2. (Held(events) \ unsynced)' = Held(events) \ unsynced
      BY <2>1, <3>1, EventAssumption DEF Held, IInv, TypeOK
    <3> QED
      BY <2>1, <3>1, <3>2 DEF Promise!Accept
  <2>2. CASE events[id] # NoBody
    BY <2>2 DEF AppendEvent, Held
  <2> QED
    BY <2>1, <2>2
<1>2. CASE \E c \in Cycle : MarkSynced(c)
  <2> PICK c \in Cycle : MarkSynced(c)
    BY <1>2
  <2> DEFINE ids == acked[c] \cap unsynced
  <2>1. ids \in SUBSET DeviceId
    BY DEF IInv, TypeOK
  <2>2. \A id \in ids : events[id] # NoBody /\ remote[id] # NoBody
    BY DEF IInv, AckedIsRemote, Held
  <2>3. (Held(events) \ unsynced)' = (Held(events) \ unsynced) \cup ids
    BY DEF MarkSynced, IInv, AckedIsRemote, Held
  <2>4. UNCHANGED <<events, remote>>
    BY DEF MarkSynced
  <2>5. Promise!Confirm(ids)
    BY <2>2, <2>3, <2>4 DEF Promise!Confirm
  <2> QED
    BY <2>1, <2>5
<1>3. CASE \/ \E id \in CloudId, body \in Body : CloudAppend(id, body)
           \/ \E c \in Cycle, id \in DeviceId :
                PushOk(c, id) \/ PushAnswerLost(c, id) \/ PushFailed(c, id)
  <2>1. UNCHANGED <<events, unsynced>>
    BY <1>3 DEF localVars, CloudAppend, PushOk, PushAnswerLost, PushFailed, Tried
  <2>2. UNCHANGED (Held(events) \ unsynced)
    BY <2>1 DEF Held
  <2> QED
    BY <2>1, <2>2, RemoteStep DEF Promise!Deliver, Promise!CloudWrite
<1>4. CASE \/ UNCHANGED vars
           \/ \E c \in Cycle : \/ BeginPush(c) \/ EndOfBatch(c)
                               \/ NothingToMark(c) \/ MarkFailed(c)
           \/ Crash
  <2>1. UNCHANGED <<events, unsynced, remote>>
    BY <1>4 DEF vars, localVars, BeginPush, EndOfBatch, NothingToMark, MarkFailed, Crash
  <2> QED
    BY <2>1 DEF Held
<1> QED
  BY <1>1, <1>2, <1>3, <1>4 DEF Next

(* The sync engine implements at-least-once delivery as ReliableLog states *)
(* it.                                                                     *)
THEOREM Refinement == Spec => ImplementsReliableLog
  BY InitRefines, StepRefines, Invariance, PTL
  DEF Spec, ImplementsReliableLog, Promise!Spec

------------------------------------------------------------------------------
(* The pull half: DocumentSync.                                            *)

(* The number of collections is a positive natural.                        *)
LEMMA CollectionCount == Len(Collections) \in Nat \ {0}
  BY DocumentAssumption

(* Before the first cycle nothing is queried, held or missed.               *)
LEMMA InitPullInv == PullInit => PullInv /\ CopyInv
  BY DocumentAssumption, CollectionCount
  DEF PullInit, NoDocs, PullInv, CopyInv, PullTypes, BehindIsAhead, Current, QueriedIsHandled,
      AlreadyQueried, BatchIsOfCollection, BatchIsFresh, RunsAlone, CloudIsLatest, BatchesAgree,
      AloneIsNewer, NotOlder

(* A cycle that goes on after it has queried or put: where it is then, and *)
(* what it has queried.                                                    *)
LEMMA ProceedMoves ==
  ASSUME PullTypes, NEW c \in Caller, pull[c] \in {"query", "put"},
         NEW rest \in [Doc -> 0 .. clock],
         \A d \in Doc : rest[d] # 0 => CollectionOf[d] = col[c],
         BatchIsOfCollection, local' \in [Doc -> 0 .. clock \cup {Edited}],
         fetched' = [fetched EXCEPT ![c] = rest], Proceed(c, rest),
         UNCHANGED <<clock, cloud, checkpoint, since, raced, overlapped>>
  PROVE  /\ PullTypes' /\ BatchIsOfCollection'
         /\ fetched'[c] = rest
         /\ \A o \in Caller \ {c} : /\ pull'[o] = pull[o] /\ col'[o] = col[o]
                                    /\ now'[o] = now[o] /\ fetched'[o] = fetched[o]
         /\ pull'[c] # "idle"
         /\ pull'[c] = "save" => /\ now'[c] = clock /\ rest = NoDocs
                                 /\ \A d \in Doc : CollectionOf[d] <= col[c]
         /\ \A d \in Doc : AlreadyQueried(c, d)' => CollectionOf[d] <= col[c]
         /\ \A o \in Caller \ {c}, d \in Doc : AlreadyQueried(o, d)' => AlreadyQueried(o, d)
<1> USE DocumentAssumption, CollectionCount
<1>1. /\ fetched' \in [Caller -> [Doc -> 0 .. clock]] /\ fetched'[c] = rest
      /\ \A o \in Caller \ {c} : fetched'[o] = fetched[o]
  BY DEF PullTypes
<1>2. /\ pull' \in [Caller -> {"idle", "query", "put", "save"}] /\ pull'[c] # "idle"
      /\ col' \in [Caller -> 1 .. Len(Collections)] /\ now' \in [Caller -> 0 .. clock]
      /\ \A o \in Caller \ {c} : pull'[o] = pull[o] /\ col'[o] = col[o] /\ now'[o] = now[o]
  <2>1. CASE rest # NoDocs
    BY <2>1 DEF Proceed, PullTypes
  <2>2. CASE rest = NoDocs /\ col[c] < Len(Collections)
    <3>1. col[c] + 1 \in 1 .. Len(Collections)
      BY <2>2 DEF PullTypes
    <3> QED BY <2>2, <3>1 DEF Proceed, PullTypes
  <2>3. CASE rest = NoDocs /\ ~(col[c] < Len(Collections))
    <3>1. clock \in 0 .. clock
      BY DEF PullTypes
    <3> QED BY <2>3, <3>1 DEF Proceed, PullTypes
  <2> QED BY <2>1, <2>2, <2>3
<1>3. /\ rest # NoDocs => pull'[c] = "put" /\ col'[c] = col[c]
      /\ rest = NoDocs => \/ pull'[c] = "query" /\ col'[c] = col[c] + 1
                          \/ pull'[c] = "save" /\ now'[c] = clock /\ col[c] >= Len(Collections)
  BY DEF Proceed, PullTypes
<1>4. PullTypes'
  BY <1>1, <1>2 DEF PullTypes
<1>5. BatchIsOfCollection'
  <2> SUFFICES ASSUME NEW o \in Caller, NEW d \in Doc, fetched'[o][d] # 0
               PROVE  pull'[o] = "put" /\ CollectionOf[d] = col'[o]
    BY DEF BatchIsOfCollection
  <2>1. CASE o = c
    <3>1. rest[d] # 0
      BY <1>1, <2>1
    <3>2. rest # NoDocs
      BY <3>1 DEF NoDocs
    <3> QED BY <1>3, <2>1, <3>1, <3>2
  <2>2. CASE o # c
    BY <1>1, <1>2, <2>2 DEF BatchIsOfCollection
  <2> QED BY <2>1, <2>2
<1>6. \A d \in Doc : AlreadyQueried(c, d)' => CollectionOf[d] <= col[c]
  BY <1>3 DEF AlreadyQueried, PullTypes
<1>7. pull'[c] = "save" => /\ now'[c] = clock /\ rest = NoDocs
                           /\ \A d \in Doc : CollectionOf[d] <= col[c]
  BY <1>3 DEF PullTypes
<1>8. \A o \in Caller \ {c}, d \in Doc : AlreadyQueried(o, d)' => AlreadyQueried(o, d)
  BY <1>2 DEF AlreadyQueried
<1> QED BY <1>1, <1>2, <1>4, <1>5, <1>6, <1>7, <1>8

(* Types and batches outside the cycles.                                    *)
LEMMA PutTypes ==
  ASSUME PullTypes, NEW d \in Doc, RemotePut(d)
  PROVE  /\ PullTypes'
         /\ clock \in Nat /\ clock' = clock + 1
         /\ cloud'[d] = clock + 1 /\ \A e \in Doc \ {d} : cloud'[e] = cloud[e]
         /\ UNCHANGED <<local, checkpoint, pull, since, col, fetched, now, overlapped>>
         /\ \A e \in Doc \ raced' : /\ e # d => e \notin raced
                                    /\ \A c \in Caller : AlreadyQueried(c, e) => e # d
<1> USE DocumentAssumption, CollectionCount DEF RemotePut, cycles
<1>1. /\ clock \in Nat /\ clock' = clock + 1 /\ clock' \in 0 .. MaxWrites
      /\ \A t \in 0 .. clock : t \in 0 .. clock'
  BY DEF PullTypes
<1>2. cloud' \in [Doc -> 0 .. clock'] /\ cloud'[d] = clock + 1 /\ \A e \in Doc \ {d} : cloud'[e] = cloud[e]
  BY <1>1 DEF PullTypes
<1>3. /\ local' \in [Doc -> 0 .. clock' \cup {Edited}]
      /\ checkpoint' \in 0 .. clock' \cup {Never} /\ since' \in [Caller -> 0 .. clock' \cup {Never}]
      /\ fetched' \in [Caller -> [Doc -> 0 .. clock']] /\ now' \in [Caller -> 0 .. clock']
  BY <1>1 DEF PullTypes
<1>4. raced' \subseteq Doc
  BY DEF PullTypes, Race
<1>5. PullTypes'
  BY <1>1, <1>2, <1>3, <1>4 DEF PullTypes
<1>6. \A e \in Doc \ raced' : /\ e # d => e \notin raced
                              /\ \A c \in Caller : AlreadyQueried(c, e) => e # d
  BY DEF Race
<1> QED BY <1>1, <1>2, <1>5, <1>6

LEMMA EndTypes ==
  ASSUME PullTypes, BatchIsOfCollection, NEW c \in Caller, Ended(c), UNCHANGED <<clock, cloud, local, raced>>,
         checkpoint' \in 0 .. clock \cup {Never}
  PROVE  /\ PullTypes' /\ BatchIsOfCollection'
         /\ pull'[c] = "idle" /\ \A d \in Doc : fetched'[c][d] = 0 /\ ~AlreadyQueried(c, d)'
         /\ c \notin overlapped' /\ overlapped' \subseteq overlapped
         /\ \A o \in Caller \ {c} : /\ pull'[o] = pull[o] /\ col'[o] = col[o] /\ since'[o] = since[o]
                                    /\ now'[o] = now[o] /\ fetched'[o] = fetched[o]
                                    /\ o \in overlapped' <=> o \in overlapped
<1> USE DocumentAssumption, CollectionCount DEF Ended, NoDocs
<1>1. /\ pull'[c] = "idle" /\ \A d \in Doc : fetched'[c][d] = 0
      /\ \A o \in Caller \ {c} : /\ pull'[o] = pull[o] /\ col'[o] = col[o] /\ since'[o] = since[o]
                                 /\ now'[o] = now[o] /\ fetched'[o] = fetched[o]
                                 /\ o \in overlapped' <=> o \in overlapped
      /\ c \notin overlapped' /\ overlapped' \subseteq overlapped
  BY DEF PullTypes
<1>2. PullTypes'
  BY DEF PullTypes
<1>3. BatchIsOfCollection'
  BY <1>1 DEF BatchIsOfCollection
<1>4. \A d \in Doc : ~AlreadyQueried(c, d)'
  BY <1>1 DEF AlreadyQueried
<1> QED BY <1>1, <1>2, <1>3, <1>4
------------------------------------------------------------------------------
LEMMA RemotePutIInv == ASSUME PullInv, NEW d \in Doc, RemotePut(d) PROVE PullInv'
<1> USE DocumentAssumption, CollectionCount
<1>0. PullTypes /\ BehindIsAhead /\ QueriedIsHandled /\ BatchIsOfCollection /\ BatchIsFresh
  BY DEF PullInv
<1>1. /\ PullTypes'
      /\ clock \in Nat /\ clock' = clock + 1
      /\ cloud'[d] = clock + 1 /\ \A e \in Doc \ {d} : cloud'[e] = cloud[e]
      /\ UNCHANGED <<local, checkpoint, pull, since, col, fetched, now, overlapped>>
      /\ \A e \in Doc \ raced' : /\ e # d => e \notin raced
                                 /\ \A c \in Caller : AlreadyQueried(c, e) => e # d
  BY <1>0, PutTypes
<1>2. BatchIsOfCollection'
  BY <1>0, <1>1 DEF BatchIsOfCollection
<1>3. BehindIsAhead'
  <2> SUFFICES ASSUME NEW e \in Doc, e \notin raced', cloud'[e] # 0, ~Current(e)'
               PROVE  /\ After(e, checkpoint)'
                      /\ \A c \in Caller : /\ pull[c] # "idle" => After(e, since[c])'
                                           /\ pull[c] = "save" => After(e, now[c])'
    BY <1>1 DEF BehindIsAhead
  <2>1. CASE e = d
    BY <1>0, <1>1, <2>1 DEF After, PullTypes
  <2>2. CASE e # d
    <3>1. e \notin raced /\ cloud'[e] = cloud[e] /\ ~Current(e)
      BY <1>1, <2>2 DEF Current
    <3> QED BY <1>0, <1>1, <3>1 DEF BehindIsAhead, After
  <2> QED BY <2>1, <2>2
<1>4. QueriedIsHandled'
  <2> SUFFICES ASSUME NEW c \in Caller, NEW e \in Doc, e \notin raced', cloud'[e] # 0, AlreadyQueried(c, e)
               PROVE  Current(e)' \/ fetched[c][e] = cloud'[e]
    BY <1>1 DEF QueriedIsHandled, AlreadyQueried
  <2>1. e # d /\ e \notin raced /\ cloud'[e] = cloud[e]
    BY <1>1
  <2> QED BY <1>0, <1>1, <2>1 DEF QueriedIsHandled, Current
<1>5. BatchIsFresh'
  <2> SUFFICES ASSUME NEW c \in Caller, NEW e \in Doc, e \notin raced', fetched[c][e] # 0
               PROVE  fetched[c][e] = cloud'[e] \/ cloud'[e] = 0
    BY <1>1 DEF BatchIsFresh
  <2>1. AlreadyQueried(c, e)
    BY <1>0 DEF AlreadyQueried, PullTypes, BatchIsOfCollection
  <2>2. e # d /\ e \notin raced /\ cloud'[e] = cloud[e]
    BY <1>1, <2>1
  <2> QED BY <1>0, <2>2 DEF BatchIsFresh
<1> QED BY <1>1, <1>2, <1>3, <1>4, <1>5 DEF PullInv

LEMMA OutsideIInv ==
  ASSUME PullInv, NEW d \in Doc, RemoteDelete(d) \/ LocalWrite(d)
  PROVE  PullInv'
<1> USE DocumentAssumption, CollectionCount DEF cycles
<1>1. CASE RemoteDelete(d)
  <2> USE <1>1 DEF RemoteDelete
  <2>1. PullTypes'
    BY DEF PullInv, PullTypes
  <2>2. BehindIsAhead' /\ QueriedIsHandled' /\ BatchIsFresh' /\ BatchIsOfCollection'
    BY DEF PullInv, PullTypes, BehindIsAhead, After, QueriedIsHandled, Current, AlreadyQueried,
           BatchIsFresh, BatchIsOfCollection
  <2> QED
    BY <2>1, <2>2 DEF PullInv
<1>2. CASE LocalWrite(d)
  <2> USE <1>2 DEF LocalWrite
  <2>1. PullTypes'
    BY DEF PullInv, PullTypes
  <2>2. BehindIsAhead' /\ QueriedIsHandled' /\ BatchIsFresh' /\ BatchIsOfCollection'
    BY DEF PullInv, PullTypes, BehindIsAhead, After, QueriedIsHandled, Current, AlreadyQueried,
           BatchIsFresh, BatchIsOfCollection
  <2> QED
    BY <2>1, <2>2 DEF PullInv
<1> QED
  BY <1>1, <1>2

(* A cycle goes on: what its batch held is current or still in it.          *)
LEMMA ProceedIInv ==
  ASSUME PullInv, NEW c \in Caller, pull[c] \in {"query", "put"},
         NEW rest \in [Doc -> 0 .. clock],
         \A d \in Doc : rest[d] # 0 => CollectionOf[d] = col[c],
         \A d \in Doc \ raced : cloud[d] # 0 =>
           /\ Current(d) => Current(d)'
           /\ rest[d] # 0 => rest[d] = cloud[d]
           /\ CollectionOf[d] <= col[c] => Current(d)' \/ rest[d] = cloud[d],
         local' \in [Doc -> 0 .. clock \cup {Edited}],
         fetched' = [fetched EXCEPT ![c] = rest], Proceed(c, rest),
         UNCHANGED <<clock, cloud, checkpoint, since, raced, overlapped>>
  PROVE  PullInv'
<1>0. PullTypes /\ BehindIsAhead /\ QueriedIsHandled /\ BatchIsOfCollection /\ BatchIsFresh
  BY DEF PullInv
<1>1. /\ PullTypes' /\ BatchIsOfCollection'
      /\ fetched'[c] = rest
      /\ \A o \in Caller \ {c} : /\ pull'[o] = pull[o] /\ col'[o] = col[o]
                                 /\ now'[o] = now[o] /\ fetched'[o] = fetched[o]
      /\ pull'[c] # "idle"
      /\ pull'[c] = "save" => /\ now'[c] = clock /\ rest = NoDocs
                              /\ \A d \in Doc : CollectionOf[d] <= col[c]
      /\ \A d \in Doc : AlreadyQueried(c, d)' => CollectionOf[d] <= col[c]
      /\ \A o \in Caller \ {c}, d \in Doc : AlreadyQueried(o, d)' => AlreadyQueried(o, d)
  BY <1>0, ProceedMoves
<1>2. BehindIsAhead'
  <2> SUFFICES ASSUME NEW d \in Doc, d \notin raced, cloud[d] # 0, ~Current(d)'
               PROVE  /\ After(d, checkpoint)
                      /\ \A o \in Caller : /\ pull'[o] # "idle" => After(d, since[o])
                                           /\ pull'[o] = "save" => After(d, now'[o])
    BY DEF BehindIsAhead, After
  <2>1. ~Current(d)
    OBVIOUS
  <2>2. /\ After(d, checkpoint)
        /\ \A o \in Caller : /\ pull[o] # "idle" => After(d, since[o])
                             /\ pull[o] = "save" => After(d, now[o])
    BY <1>0, <2>1 DEF BehindIsAhead
  <2>3. pull'[c] # "save"
    BY <1>1 DEF NoDocs
  <2> QED BY <1>1, <2>2, <2>3
<1>3. QueriedIsHandled'
  <2> SUFFICES ASSUME NEW o \in Caller, NEW d \in Doc, d \notin raced, cloud[d] # 0, AlreadyQueried(o, d)'
               PROVE  Current(d)' \/ fetched'[o][d] = cloud[d]
    BY DEF QueriedIsHandled
  <2>1. CASE o = c
    BY <1>1, <2>1
  <2>2. CASE o # c
    BY <1>0, <1>1, <2>2 DEF QueriedIsHandled
  <2> QED BY <2>1, <2>2
<1>4. BatchIsFresh'
  BY <1>0, <1>1 DEF BatchIsFresh
<1> QED BY <1>1, <1>2, <1>3, <1>4 DEF PullInv

LEMMA QueryTypes ==
  ASSUME PullTypes, BatchIsOfCollection, NEW c \in Caller, QueryCollection(c)
  PROVE  \E answer \in [Doc -> 0 .. clock] :
           /\ answer = QueryResult(col[c], since[c])
           /\ \A d \in Doc : /\ answer[d] # 0 => CollectionOf[d] = col[c] /\ answer[d] = cloud[d]
                             /\ fetched[c][d] = 0
           /\ fetched' = [fetched EXCEPT ![c] = answer] /\ Proceed(c, answer)
<1>1. QueryResult(col[c], since[c]) \in [Doc -> 0 .. clock]
  BY DEF QueryResult, PullTypes
<1>2. \A d \in Doc : QueryResult(col[c], since[c])[d] # 0 =>
        CollectionOf[d] = col[c] /\ QueryResult(col[c], since[c])[d] = cloud[d]
  BY DEF QueryResult
<1>3. \A d \in Doc : fetched[c][d] = 0
  BY DEF QueryCollection, BatchIsOfCollection
<1> QED BY <1>1, <1>2, <1>3 DEF QueryCollection

LEMMA PutIsProceed ==
  ASSUME PullTypes, BatchIsOfCollection, NEW c \in Caller, NEW d \in Doc, PutDocument(c, d)
  PROVE  /\ local' \in [Doc -> 0 .. clock \cup {Edited}]
         /\ local'[d] = fetched[c][d] /\ \A e \in Doc \ {d} : local'[e] = local[e]
         /\ fetched[c][d] # 0 /\ CollectionOf[d] = col[c] /\ pull[c] = "put"
         /\ UNCHANGED <<clock, cloud, checkpoint, since, raced, overlapped>>
         /\ \E rest \in [Doc -> 0 .. clock] :
              /\ rest[d] = 0 /\ \A e \in Doc \ {d} : rest[e] = fetched[c][e]
              /\ fetched' = [fetched EXCEPT ![c] = rest] /\ Proceed(c, rest)
<1>1. [fetched[c] EXCEPT ![d] = 0] \in [Doc -> 0 .. clock]
  BY DEF PullTypes
<1>2. /\ [fetched[c] EXCEPT ![d] = 0][d] = 0
      /\ \A e \in Doc \ {d} : [fetched[c] EXCEPT ![d] = 0][e] = fetched[c][e]
  BY DEF PullTypes
<1>3. /\ local' \in [Doc -> 0 .. clock \cup {Edited}]
      /\ local'[d] = fetched[c][d] /\ \A e \in Doc \ {d} : local'[e] = local[e]
  BY DEF PutDocument, PullTypes
<1>4. CollectionOf[d] = col[c]
  BY DEF PutDocument, BatchIsOfCollection
<1> QED BY <1>1, <1>2, <1>3, <1>4 DEF PutDocument

(* The steps of a cycle.  A query returns everything that is ahead of its   *)
(* checkpoint in its collection; a put makes its document current; the time *)
(* is taken when every collection is queried and the batch is empty.        *)
LEMMA PullCycleIInv ==
  ASSUME Backend = "redb", PullInv, NEW c \in Caller,
         \/ BeginPull(c) \/ QueryCollection(c) \/ SaveCheckpoint(c) \/ Abort(c)
         \/ \E d \in Doc : PutDocument(c, d)
  PROVE  PullInv'
<1> USE DocumentAssumption, CollectionCount
<1>0. PullTypes /\ BehindIsAhead /\ QueriedIsHandled /\ BatchIsOfCollection /\ BatchIsFresh
  BY DEF PullInv
<1>1. CASE BeginPull(c)
  <2> USE <1>1 DEF BeginPull, stores
  <2>1. /\ pull'[c] = "query" /\ since'[c] = checkpoint /\ col'[c] = 1 /\ pull[c] = "idle"
        /\ \A o \in Caller \ {c} : pull'[o] = pull[o] /\ since'[o] = since[o] /\ col'[o] = col[o]
    BY <1>0 DEF PullTypes
  <2>2. PullTypes'
    BY <1>0 DEF PullTypes, Running
  <2>3. BehindIsAhead'
    BY <1>0, <2>1 DEF BehindIsAhead, After, Current
  <2>4. \A o \in Caller, d \in Doc : AlreadyQueried(o, d)' => AlreadyQueried(o, d)
    BY <1>0, <2>1 DEF AlreadyQueried, PullTypes
  <2>5. QueriedIsHandled' /\ BatchIsOfCollection' /\ BatchIsFresh'
    BY <1>0, <2>1, <2>4 DEF QueriedIsHandled, BatchIsOfCollection, BatchIsFresh, Current
  <2> QED
    BY <2>2, <2>3, <2>5 DEF PullInv
<1>2. CASE QueryCollection(c)
  <2>1. PICK answer \in [Doc -> 0 .. clock] :
           /\ answer = QueryResult(col[c], since[c])
           /\ \A d \in Doc : /\ answer[d] # 0 => CollectionOf[d] = col[c] /\ answer[d] = cloud[d]
                             /\ fetched[c][d] = 0
           /\ fetched' = [fetched EXCEPT ![c] = answer] /\ Proceed(c, answer)
    BY <1>0, <1>2, QueryTypes
  <2>2. pull[c] = "query" /\ UNCHANGED <<clock, cloud, local, checkpoint, since, raced, overlapped>>
    BY <1>2 DEF QueryCollection, stores
  <2>3. ASSUME NEW d \in Doc, d \notin raced, cloud[d] # 0, CollectionOf[d] <= col[c], ~Current(d)
        PROVE  answer[d] = cloud[d]
    <3>1. CASE CollectionOf[d] = col[c]
      <4>1. After(d, since[c])
        BY <1>0, <2>2, <2>3 DEF BehindIsAhead
      <4>2. ChangedAfter(d, since[c])
        BY <4>1 DEF ChangedAfter, After
      <4> QED BY <2>1, <3>1, <4>2 DEF QueryResult
    <3>2. CASE CollectionOf[d] # col[c]
      <4>1. AlreadyQueried(c, d)
        BY <1>0, <2>2, <2>3, <3>2 DEF AlreadyQueried, PullTypes
      <4>2. fetched[c][d] = cloud[d]
        BY <1>0, <2>3, <4>1 DEF QueriedIsHandled
      <4> QED BY <2>1, <2>3, <4>2
    <3> QED BY <3>1, <3>2
  <2>4. local' \in [Doc -> 0 .. clock \cup {Edited}]
    BY <1>0, <2>2 DEF PullTypes
  <2>5. \A d \in Doc \ raced : cloud[d] # 0 =>
           /\ Current(d) => Current(d)'
           /\ answer[d] # 0 => answer[d] = cloud[d]
           /\ CollectionOf[d] <= col[c] => Current(d)' \/ answer[d] = cloud[d]
    BY <2>1, <2>2, <2>3 DEF Current
  <2> QED
    BY <2>1, <2>2, <2>4, <2>5, ProceedIInv
<1>3. CASE \E d \in Doc : PutDocument(c, d)
  <2>0. PICK d \in Doc : PutDocument(c, d)
    BY <1>3
  <2>1. /\ local' \in [Doc -> 0 .. clock \cup {Edited}]
        /\ local'[d] = fetched[c][d] /\ \A e \in Doc \ {d} : local'[e] = local[e]
        /\ fetched[c][d] # 0 /\ CollectionOf[d] = col[c] /\ pull[c] = "put"
        /\ UNCHANGED <<clock, cloud, checkpoint, since, raced, overlapped>>
        /\ \E rest \in [Doc -> 0 .. clock] :
             /\ rest[d] = 0 /\ \A e \in Doc \ {d} : rest[e] = fetched[c][e]
             /\ fetched' = [fetched EXCEPT ![c] = rest] /\ Proceed(c, rest)
    BY <1>0, <2>0, PutIsProceed
  <2>2. PICK rest \in [Doc -> 0 .. clock] :
             /\ rest[d] = 0 /\ \A e \in Doc \ {d} : rest[e] = fetched[c][e]
             /\ fetched' = [fetched EXCEPT ![c] = rest] /\ Proceed(c, rest)
    BY <2>1
  <2>3. \A e \in Doc : rest[e] # 0 => e # d /\ CollectionOf[e] = col[c]
    BY <1>0, <2>2 DEF BatchIsOfCollection
  <2>4. ASSUME NEW e \in Doc \ raced, cloud[e] # 0
        PROVE  /\ Current(e) => Current(e)'
               /\ rest[e] # 0 => rest[e] = cloud[e]
               /\ CollectionOf[e] <= col[c] => Current(e)' \/ rest[e] = cloud[e]
    <3>1. CASE e = d
      BY <1>0, <2>1, <2>2, <2>4, <3>1 DEF BatchIsFresh, Current
    <3>2. CASE e # d
      <4>1. local'[e] = local[e] /\ rest[e] = fetched[c][e] /\ cloud' = cloud
        BY <2>1, <2>2, <3>2
      <4>2. CollectionOf[e] <= col[c] => AlreadyQueried(c, e)
        BY <2>1 DEF AlreadyQueried
      <4> QED BY <1>0, <2>4, <4>1, <4>2 DEF BatchIsFresh, QueriedIsHandled, Current
    <3> QED BY <3>1, <3>2
  <2> QED
    BY <2>1, <2>2, <2>3, <2>4, ProceedIInv
<1>4. CASE SaveCheckpoint(c) \/ Abort(c)
  <2>1. Ended(c) /\ UNCHANGED <<clock, cloud, local, raced>>
    BY <1>4 DEF SaveCheckpoint, Abort, stores
  <2>2. checkpoint' \in 0 .. clock \cup {Never}
    BY <1>0, <1>4 DEF SaveCheckpoint, Abort, stores, PullTypes
  <2>3. /\ PullTypes' /\ BatchIsOfCollection'
        /\ pull'[c] = "idle" /\ \A d \in Doc : fetched'[c][d] = 0 /\ ~AlreadyQueried(c, d)'
        /\ \A o \in Caller \ {c} : /\ pull'[o] = pull[o] /\ col'[o] = col[o] /\ since'[o] = since[o]
                                   /\ now'[o] = now[o] /\ fetched'[o] = fetched[o]
    BY <1>0, <2>1, <2>2, EndTypes
  <2>4. \A d \in Doc \ raced : cloud[d] # 0 /\ ~Current(d) => After(d, checkpoint')
    BY <1>0, <1>4 DEF SaveCheckpoint, Abort, stores, BehindIsAhead
  <2>5. BehindIsAhead'
    BY <1>0, <2>1, <2>3, <2>4 DEF BehindIsAhead, After, Current
  <2>6. QueriedIsHandled'
    <3> SUFFICES ASSUME NEW o \in Caller, NEW d \in Doc, d \notin raced, cloud[d] # 0, AlreadyQueried(o, d)'
                 PROVE  Current(d)' \/ fetched'[o][d] = cloud[d]
      BY <2>1 DEF QueriedIsHandled
    <3>1. o # c
      BY <2>3
    <3>2. AlreadyQueried(o, d) /\ fetched'[o] = fetched[o]
      BY <2>3, <3>1 DEF AlreadyQueried
    <3> QED BY <1>0, <2>1, <3>2 DEF QueriedIsHandled, Current
  <2>7. BatchIsFresh'
    BY <1>0, <2>1, <2>3 DEF BatchIsFresh
  <2> QED
    BY <2>3, <2>5, <2>6, <2>7 DEF PullInv
<1> QED
  BY <1>1, <1>2, <1>3, <1>4

(* With a redb remote the invariant is inductive.                          *)
LEMMA NextPullInv ==
  ASSUME Backend = "redb"
  PROVE  PullInv /\ [PullNext]_pullVars => PullInv'
<1> SUFFICES ASSUME PullInv, [PullNext]_pullVars
             PROVE  PullInv'
  OBVIOUS
<1>1. CASE UNCHANGED pullVars
  BY <1>1 DEF pullVars, PullInv, PullTypes, BehindIsAhead, After, Current, QueriedIsHandled,
              AlreadyQueried, BatchIsOfCollection, BatchIsFresh
<1>2. CASE PullNext
  BY <1>2, RemotePutIInv, OutsideIInv, PullCycleIInv DEF PullNext
<1> QED
  BY <1>1, <1>2

(* The checkpoint of a device syncing with a redb store never passes a     *)
(* document the device does not have, unless that document was written     *)
(* behind the back of a running pull; cycles may overlap.                  *)
THEOREM OnlyRacedUpdatesAreLost ==
  ASSUME Backend = "redb"
  PROVE  PullSpec => []MissedOnlyIfRaced
<1>1. PullInv => MissedOnlyIfRaced
  BY DEF PullInv, BehindIsAhead, After, MissedOnlyIfRaced, Pending
<1>2. PullInv /\ [PullNext]_pullVars => PullInv'
  BY NextPullInv
<1> QED
  BY InitPullInv, <1>1, <1>2, PTL DEF PullSpec

------------------------------------------------------------------------------
(* What the steps outside the cycles keep of the copies: a write is later   *)
(* than every copy and batch, and a document a cycle still holds and that   *)
(* is written is raced.                                                     *)
LEMMA RemotePutCopies == ASSUME CopyInv, NEW d \in Doc, RemotePut(d) PROVE CopyInv'
<1>0. /\ PullTypes /\ BatchIsOfCollection /\ BatchIsFresh
      /\ RunsAlone /\ CloudIsLatest /\ BatchesAgree /\ AloneIsNewer
  BY DEF CopyInv
<1>1. /\ PullTypes'
      /\ clock \in Nat /\ clock' = clock + 1
      /\ cloud'[d] = clock + 1 /\ \A e \in Doc \ {d} : cloud'[e] = cloud[e]
      /\ UNCHANGED <<local, checkpoint, pull, since, col, fetched, now, overlapped>>
      /\ \A e \in Doc \ raced' : /\ e # d => e \notin raced
                                 /\ \A c \in Caller : AlreadyQueried(c, e) => e # d
  BY <1>0, PutTypes
<1>2. BatchIsOfCollection' /\ RunsAlone' /\ AloneIsNewer'
  BY <1>0, <1>1 DEF BatchIsOfCollection, RunsAlone, Running, AloneIsNewer, NotOlder
<1>3. \A c \in Caller, e \in Doc \ raced' : fetched[c][e] # 0 =>
        e # d /\ e \notin raced /\ cloud'[e] = cloud[e]
  <2> SUFFICES ASSUME NEW c \in Caller, NEW e \in Doc, e \notin raced', fetched[c][e] # 0
               PROVE  e # d /\ e \notin raced /\ cloud'[e] = cloud[e]
    OBVIOUS
  <2>1. CollectionOf[e] = col[c] /\ pull[c] = "put" /\ col[c] \in Nat
    BY <1>0, DocumentAssumption DEF BatchIsOfCollection, PullTypes
  <2>2. AlreadyQueried(c, e)
    BY <2>1 DEF AlreadyQueried
  <2> QED BY <1>1, <2>2
<1>4. BatchIsFresh' /\ BatchesAgree'
  BY <1>0, <1>1, <1>3 DEF BatchIsFresh, BatchesAgree, NotOlder
<1>5. CloudIsLatest'
  <2> SUFFICES ASSUME NEW e \in Doc, cloud'[e] # 0
               PROVE  NotOlder(e, cloud'[e]) /\ \A c \in Caller : fetched[c][e] <= cloud'[e]
    BY <1>1 DEF CloudIsLatest, NotOlder
  <2>1. CASE e = d
    BY <1>0, <1>1, <2>1 DEF PullTypes, NotOlder
  <2>2. CASE e # d
    BY <1>0, <1>1, <2>2 DEF CloudIsLatest
  <2> QED BY <2>1, <2>2
<1> QED BY <1>1, <1>2, <1>4, <1>5 DEF CopyInv

LEMMA OutsideCopies ==
  ASSUME CopyInv, NEW d \in Doc, RemoteDelete(d) \/ LocalWrite(d)
  PROVE  CopyInv'
<1>1. CASE RemoteDelete(d)
  <2> USE <1>1 DEF RemoteDelete, cycles
  <2>1. PullTypes' /\ BatchIsOfCollection' /\ RunsAlone' /\ AloneIsNewer' /\ BatchesAgree'
    BY DEF CopyInv, PullTypes, BatchIsOfCollection, RunsAlone, Running, AloneIsNewer, BatchesAgree, NotOlder
  <2>2. BatchIsFresh' /\ CloudIsLatest'
    BY DEF CopyInv, PullTypes, BatchIsFresh, CloudIsLatest, NotOlder
  <2> QED BY <2>1, <2>2 DEF CopyInv
<1>2. CASE LocalWrite(d)
  <2> USE <1>2 DEF LocalWrite, cycles
  <2>0. local'[d] = Edited /\ \A e \in Doc \ {d} : local'[e] = local[e]
    BY DEF CopyInv, PullTypes
  <2>1. PullTypes' /\ BatchIsOfCollection' /\ RunsAlone' /\ BatchIsFresh'
    BY DEF CopyInv, PullTypes, BatchIsOfCollection, BatchIsFresh, RunsAlone, Running
  <2>2. CloudIsLatest' /\ BatchesAgree' /\ AloneIsNewer'
    BY <2>0 DEF CopyInv, CloudIsLatest, BatchesAgree, AloneIsNewer, NotOlder
  <2> QED BY <2>1, <2>2 DEF CopyInv
<1> QED
  BY <1>1, <1>2

(* The steps of a cycle: it is alone only as long as no other one runs, a   *)
(* query returns what the store holds, and a put leaves no other batch with *)
(* anything else of its document, unless that was raced.                    *)
LEMMA CycleCopies ==
  ASSUME CopyInv, NEW c \in Caller,
         \/ BeginPull(c) \/ QueryCollection(c) \/ SaveCheckpoint(c) \/ Abort(c)
         \/ \E d \in Doc : PutDocument(c, d)
  PROVE  CopyInv'
<1> USE DocumentAssumption, CollectionCount
<1>0. /\ PullTypes /\ BatchIsOfCollection /\ BatchIsFresh
      /\ RunsAlone /\ CloudIsLatest /\ BatchesAgree /\ AloneIsNewer
  BY DEF CopyInv
<1>1. CASE BeginPull(c)
  <2> USE <1>1 DEF BeginPull, stores
  <2>1. /\ pull'[c] = "query" /\ pull[c] = "idle"
        /\ \A o \in Caller \ {c} : pull'[o] = pull[o] /\ col'[o] = col[o]
        /\ overlapped \subseteq overlapped'
    BY <1>0 DEF PullTypes
  <2>2. PullTypes'
    BY <1>0 DEF PullTypes, Running
  <2>3. BatchIsOfCollection' /\ BatchIsFresh' /\ CloudIsLatest' /\ BatchesAgree' /\ AloneIsNewer'
    BY <1>0, <2>1
    DEF BatchIsOfCollection, BatchIsFresh, CloudIsLatest, BatchesAgree, AloneIsNewer, NotOlder
  <2>4. RunsAlone'
    <3> SUFFICES ASSUME NEW o \in Caller, o \notin overlapped', pull'[o] # "idle"
                 PROVE  Running(o)' = {}
      BY DEF RunsAlone
    <3>1. Running(c) = {}
      BY <2>1 DEF Running
    <3>2. o = c
      BY <2>1, <3>1 DEF Running
    <3> QED BY <2>1, <3>1, <3>2 DEF Running
  <2> QED
    BY <2>2, <2>3, <2>4 DEF CopyInv
<1>2. CASE QueryCollection(c)
  <2>1. PICK answer \in [Doc -> 0 .. clock] :
           /\ answer = QueryResult(col[c], since[c])
           /\ \A d \in Doc : /\ answer[d] # 0 => CollectionOf[d] = col[c] /\ answer[d] = cloud[d]
                             /\ fetched[c][d] = 0
           /\ fetched' = [fetched EXCEPT ![c] = answer] /\ Proceed(c, answer)
    BY <1>0, <1>2, QueryTypes
  <2>2. pull[c] = "query" /\ UNCHANGED <<clock, cloud, local, checkpoint, since, raced, overlapped>>
    BY <1>2 DEF QueryCollection, stores
  <2>3. local' \in [Doc -> 0 .. clock \cup {Edited}]
    BY <1>0, <2>2 DEF PullTypes
  <2>4. /\ PullTypes' /\ BatchIsOfCollection'
        /\ fetched'[c] = answer
        /\ \A o \in Caller \ {c} : pull'[o] = pull[o] /\ fetched'[o] = fetched[o]
        /\ pull'[c] # "idle"
    BY <1>0, <2>1, <2>2, <2>3, ProceedMoves
  <2>5. \A o \in Caller, d \in Doc : fetched'[o][d] = fetched[o][d] \/ fetched'[o][d] \in {0, cloud[d]}
    BY <2>1, <2>4
  <2>6. RunsAlone'
    BY <1>0, <2>2, <2>4 DEF RunsAlone, Running
  <2>7. BatchIsFresh'
    BY <1>0, <2>2, <2>5 DEF BatchIsFresh
  <2>8. CloudIsLatest'
    <3> SUFFICES ASSUME NEW d \in Doc, cloud[d] # 0
                 PROVE  NotOlder(d, cloud[d]) /\ \A o \in Caller : fetched'[o][d] <= cloud[d]
      BY <2>2 DEF CloudIsLatest, NotOlder
    <3>1. cloud[d] \in Nat
      BY <1>0 DEF PullTypes
    <3>2. NotOlder(d, cloud[d]) /\ \A o \in Caller : fetched[o][d] <= cloud[d]
      BY <1>0 DEF CloudIsLatest
    <3> QED BY <2>5, <3>1, <3>2
  <2>9. \A d \in Doc, o \in Caller : fetched'[o][d] # 0 =>
          fetched'[o][d] = fetched[o][d] \/ (cloud[d] # 0 /\ fetched'[o][d] = cloud[d])
    BY <2>5
  <2>10. BatchesAgree'
    <3> SUFFICES ASSUME NEW d \in Doc, d \notin raced, NEW p \in Caller, fetched'[p][d] # 0
                 PROVE  /\ NotOlder(d, fetched'[p][d])
                        /\ \A o \in Caller : fetched'[o][d] \in {0, fetched'[p][d]}
      BY <2>2 DEF BatchesAgree, NotOlder
    <3>1. CASE cloud[d] # 0
      <4>1. \A o \in Caller : fetched'[o][d] \in {0, cloud[d]}
        BY <1>0, <2>9, <3>1 DEF BatchIsFresh
      <4> QED BY <1>0, <3>1, <4>1 DEF CloudIsLatest
    <3>2. CASE cloud[d] = 0
      <4>1. \A o \in Caller : fetched'[o][d] = fetched[o][d] \/ fetched'[o][d] = 0
        BY <2>5, <3>2
      <4> QED BY <1>0, <4>1 DEF BatchesAgree
    <3> QED BY <3>1, <3>2
  <2>11. AloneIsNewer'
    BY <1>0, <2>2, <2>9 DEF AloneIsNewer, CloudIsLatest, NotOlder
  <2> QED
    BY <2>4, <2>6, <2>7, <2>8, <2>10, <2>11 DEF CopyInv
<1>3. CASE \E d \in Doc : PutDocument(c, d)
  <2>0. PICK d \in Doc : PutDocument(c, d)
    BY <1>3
  <2>1. /\ local' \in [Doc -> 0 .. clock \cup {Edited}]
        /\ local'[d] = fetched[c][d] /\ \A e \in Doc \ {d} : local'[e] = local[e]
        /\ fetched[c][d] # 0 /\ CollectionOf[d] = col[c] /\ pull[c] = "put"
        /\ UNCHANGED <<clock, cloud, checkpoint, since, raced, overlapped>>
    BY <1>0, <2>0, PutIsProceed
  <2>2. PICK rest \in [Doc -> 0 .. clock] :
             /\ rest[d] = 0 /\ \A e \in Doc \ {d} : rest[e] = fetched[c][e]
             /\ fetched' = [fetched EXCEPT ![c] = rest] /\ Proceed(c, rest)
    BY <1>0, <2>0, PutIsProceed
  <2>3. \A e \in Doc : rest[e] # 0 => e # d /\ CollectionOf[e] = col[c]
    BY <1>0, <2>2 DEF BatchIsOfCollection
  <2>4. /\ PullTypes' /\ BatchIsOfCollection'
        /\ fetched'[c] = rest
        /\ \A o \in Caller \ {c} : pull'[o] = pull[o] /\ fetched'[o] = fetched[o]
        /\ pull'[c] # "idle"
    <3>1. pull[c] \in {"query", "put"} /\ \A e \in Doc : rest[e] # 0 => CollectionOf[e] = col[c]
      BY <2>1, <2>3
    <3>2. local' \in [Doc -> 0 .. clock \cup {Edited}]
      BY <2>1
    <3>3. UNCHANGED <<clock, cloud, checkpoint, since, raced, overlapped>>
      BY <2>1
    <3>4. fetched' = [fetched EXCEPT ![c] = rest] /\ Proceed(c, rest)
      BY <2>2
    <3> QED BY <1>0, <3>1, <3>2, <3>3, <3>4, ProceedMoves
  <2>5. /\ fetched'[c][d] = 0
        /\ \A o \in Caller, e \in Doc : <<o, e>> # <<c, d>> => fetched'[o][e] = fetched[o][e]
    BY <2>2, <2>4
  <2>6. RunsAlone'
    <3>1. overlapped' = overlapped /\ pull[c] = "put"
      BY <2>1
    <3> QED BY <1>0, <2>4, <3>1 DEF RunsAlone, Running
  <2>7. BatchIsFresh'
    <3>1. raced' = raced /\ cloud' = cloud
      BY <2>1
    <3> QED BY <1>0, <2>5, <3>1 DEF BatchIsFresh
  <2>8. fetched[c][d] \in 0 .. clock /\ \A o \in Caller, e \in Doc : fetched[o][e] \in 0 .. clock
    BY <1>0 DEF PullTypes
  <2>9. CloudIsLatest'
    <3> SUFFICES ASSUME NEW e \in Doc, cloud[e] # 0
                 PROVE  NotOlder(e, cloud[e])' /\ \A o \in Caller : fetched'[o][e] <= cloud[e]
      BY <2>1 DEF CloudIsLatest, NotOlder
    <3>1. cloud[e] \in 0 .. clock
      BY <1>0 DEF PullTypes
    <3>2. NotOlder(e, cloud[e]) /\ \A o \in Caller : fetched[o][e] <= cloud[e]
      BY <1>0 DEF CloudIsLatest
    <3>3. \A o \in Caller : fetched'[o][e] <= cloud[e]
      BY <2>5, <3>1, <3>2
    <3>4. local'[e] = local[e] \/ local'[e] = fetched[c][e]
      BY <2>1
    <3> QED BY <2>1, <3>2, <3>3, <3>4 DEF NotOlder
  <2>10. BatchesAgree'
    <3> SUFFICES ASSUME NEW e \in Doc, e \notin raced, NEW p \in Caller, fetched'[p][e] # 0
                 PROVE  /\ NotOlder(e, fetched[p][e])'
                        /\ \A o \in Caller : fetched'[o][e] \in {0, fetched'[p][e]}
      <4>1. raced' = raced
        BY <2>1
      <4> QED BY <4>1, Zenon DEF BatchesAgree
    <3>1. fetched'[p][e] = fetched[p][e] /\ \A o \in Caller : fetched'[o][e] \in {0, fetched[o][e]}
      BY <2>5
    <3>2. NotOlder(e, fetched[p][e]) /\ \A o \in Caller : fetched[o][e] \in {0, fetched[p][e]}
      BY <1>0, <3>1 DEF BatchesAgree
    <3>3. local'[e] = local[e] \/ local'[e] = fetched[p][e]
      BY <2>1, <3>1, <3>2
    <3>4. fetched[p][e] <= fetched[p][e]
      BY <2>8
    <3> QED BY <3>1, <3>2, <3>3, <3>4 DEF NotOlder
  <2>11. AloneIsNewer'
    <3> SUFFICES ASSUME NEW o \in Caller, o \notin overlapped, NEW e \in Doc, fetched'[o][e] # 0
                 PROVE  NotOlder(e, fetched[o][e])'
      BY <2>1 DEF AloneIsNewer
    <3>1. fetched'[o][e] = fetched[o][e] /\ fetched[o][e] # 0
      BY <2>5
    <3>2. o = c
      <4>1. pull[o] = "put"
        BY <1>0, <3>1 DEF BatchIsOfCollection
      <4>2. c \notin Running(o)
        BY <1>0, <4>1 DEF RunsAlone
      <4> QED BY <2>1, <4>2 DEF Running
    <3>3. e # d
      BY <2>5, <3>1, <3>2
    <3>4. NotOlder(e, fetched[o][e]) /\ local'[e] = local[e]
      BY <1>0, <2>1, <3>1, <3>3 DEF AloneIsNewer
    <3> QED BY <3>1, <3>4 DEF NotOlder
  <2> QED
    BY <2>4, <2>6, <2>7, <2>9, <2>10, <2>11 DEF CopyInv
<1>4. CASE SaveCheckpoint(c) \/ Abort(c)
  <2>1. Ended(c) /\ UNCHANGED <<clock, cloud, local, raced>>
    BY <1>4 DEF SaveCheckpoint, Abort, stores
  <2>2. checkpoint' \in 0 .. clock \cup {Never}
    BY <1>0, <1>4 DEF SaveCheckpoint, Abort, stores, PullTypes
  <2>3. /\ PullTypes' /\ BatchIsOfCollection'
        /\ pull'[c] = "idle" /\ \A d \in Doc : fetched'[c][d] = 0
        /\ \A o \in Caller \ {c} : /\ pull'[o] = pull[o] /\ fetched'[o] = fetched[o]
                                   /\ o \in overlapped' <=> o \in overlapped
    BY <1>0, <2>1, <2>2, EndTypes
  <2>4. \A o \in Caller, d \in Doc : fetched'[o][d] \in {0, fetched[o][d]}
    BY <2>3
  <2>5. BatchIsFresh' /\ CloudIsLatest'
    <3>1. \A d \in Doc : cloud[d] \in Nat
      BY <1>0 DEF PullTypes
    <3>2. \A o \in Caller, d \in Doc : fetched[o][d] <= cloud[d] => fetched'[o][d] <= cloud[d]
      BY <2>4, <3>1
    <3>3. BatchIsFresh'
      BY <1>0, <2>1, <2>4 DEF BatchIsFresh
    <3>4. CloudIsLatest'
      BY <1>0, <2>1, <3>2 DEF CloudIsLatest, NotOlder
    <3> QED BY <3>3, <3>4
  <2>6. BatchesAgree' /\ AloneIsNewer'
    BY <1>0, <2>1, <2>3, <2>4 DEF BatchesAgree, AloneIsNewer, NotOlder
  <2>7. RunsAlone'
    BY <1>0, <2>3 DEF RunsAlone, Running
  <2> QED
    BY <2>3, <2>5, <2>6, <2>7 DEF CopyInv
<1> QED
  BY <1>1, <1>2, <1>3, <1>4

LEMMA NextCopyInv == CopyInv /\ [PullNext]_pullVars => CopyInv'
<1> SUFFICES ASSUME CopyInv, [PullNext]_pullVars
             PROVE  CopyInv'
  OBVIOUS
<1>1. CASE UNCHANGED pullVars
  BY <1>1 DEF pullVars, CopyInv, PullTypes, BatchIsOfCollection, BatchIsFresh, RunsAlone, Running,
              CloudIsLatest, BatchesAgree, AloneIsNewer, NotOlder
<1>2. CASE PullNext
  BY <1>2, RemotePutCopies, OutsideCopies, CycleCopies DEF PullNext
<1> QED
  BY <1>1, <1>2

(* Only a put of a cycle makes a copy older, and only one that ran together *)
(* with another cycle, of a document written behind the back of a cycle.    *)
LEMMA OlderIsRaced ==
  ASSUME CopyInv, PullNext, NEW d \in Doc, local[d] # Edited, local'[d] # Edited, local'[d] < local[d]
  PROVE  d \in raced /\ \E c \in overlapped : fetched[c][d] = local'[d]
<1>0. local \in [Doc -> 0 .. clock \cup {Edited}] /\ overlapped \subseteq Caller /\ clock \in 0 .. MaxWrites
  BY DEF CopyInv, PullTypes
<1>1. local'[d] # local[d]
  BY <1>0, DocumentAssumption
<1>2. PICK c \in Caller, e \in Doc : PutDocument(c, e)
  BY <1>0, <1>1
  DEF PullNext, RemotePut, RemoteDelete, LocalWrite, BeginPull, QueryCollection, SaveCheckpoint, Abort, stores, cycles
<1>3. e = d /\ local'[d] = fetched[c][d] /\ fetched[c][d] # 0
  BY <1>0, <1>1, <1>2 DEF PutDocument
<1>4. ~NotOlder(d, fetched[c][d])
  BY <1>0, <1>3, DocumentAssumption DEF NotOlder, CopyInv, PullTypes
<1>5. d \in raced
  BY <1>3, <1>4 DEF CopyInv, BatchesAgree
<1>6. c \in overlapped
  BY <1>3, <1>4 DEF CopyInv, AloneIsNewer
<1> QED BY <1>3, <1>5, <1>6

(* With any remote store, a pull replaces a copy by an older one only if it *)
(* overlapped another cycle, and only if the document was written behind    *)
(* the back of a cycle.                                                     *)
THEOREM CopiesNeverRegress == PullSpec => NeverRegresses
<1>1. CopyInv /\ [PullNext]_pullVars =>
        [\A d \in Doc :
           local[d] # Edited /\ local'[d] # Edited /\ local'[d] < local[d] =>
             d \in raced /\ \E c \in overlapped : fetched[c][d] = local'[d]]_pullVars
  BY OlderIsRaced
<1> QED
  BY InitPullInv, NextCopyInv, <1>1, PTL DEF PullSpec, NeverRegresses

------------------------------------------------------------------------------
(* The hub: EventHub.                                                      *)


(* Appending to a sequence adds one element and keeps the others in place. *)
LEMMA AppendFacts ==
  ASSUME NEW S, NEW seq \in Seq(S), NEW x \in S
  PROVE  /\ Append(seq, x) \in Seq(S)
         /\ Len(Append(seq, x)) = Len(seq) + 1
         /\ \A i \in 1 .. Len(seq) : Append(seq, x)[i] = seq[i]
         /\ Append(seq, x)[Len(seq) + 1] = x
         /\ Elements(Append(seq, x)) = Elements(seq) \cup {x}
<1>1. /\ Append(seq, x) \in Seq(S)
      /\ Len(Append(seq, x)) = Len(seq) + 1
      /\ \A i \in 1 .. Len(seq) : Append(seq, x)[i] = seq[i]
      /\ Append(seq, x)[Len(seq) + 1] = x
      /\ DOMAIN Append(seq, x) = 1 .. Len(seq) + 1
      /\ DOMAIN seq = 1 .. Len(seq) /\ Len(seq) \in Nat
  OBVIOUS
<1>2. Elements(Append(seq, x)) = Elements(seq) \cup {x}
  BY <1>1 DEF Elements
<1> QED
  BY <1>1, <1>2

(* Dropping the head of a sequence loses at most the head.                 *)
LEMMA DropHead ==
  ASSUME NEW S, NEW seq \in Seq(S)
  PROVE  /\ SubSeq(seq, 2, Len(seq)) \in Seq(S)
         /\ seq # << >> => Elements(seq) \subseteq
              Elements(SubSeq(seq, 2, Len(seq))) \cup {seq[1]}
         /\ Elements(SubSeq(seq, 2, Len(seq))) \subseteq Elements(seq)
         /\ seq = << >> => Elements(seq) = {}
         /\ seq # << >> => seq[1] \in S
<1> DEFINE tail == SubSeq(seq, 2, Len(seq))
<1>1. Len(seq) \in Nat /\ DOMAIN seq = 1 .. Len(seq)
  OBVIOUS
<1>2. tail \in Seq(S)
  BY <1>1
<1>3. seq # << >> => Len(seq) >= 1 /\ seq[1] \in S
  BY <1>1
<1>4. seq = << >> => Elements(seq) = {}
  BY DEF Elements
<1>5. ASSUME seq # << >>, NEW i \in 1 .. Len(seq), i # 1
      PROVE  seq[i] \in Elements(tail)
  <2>1. i - 1 \in 1 .. Len(seq) - 1
    BY <1>1, <1>5
  <2>2. Len(tail) = Len(seq) - 1 /\ DOMAIN tail = 1 .. Len(seq) - 1
    BY <1>1, <1>3, <1>5
  <2>3. tail[i - 1] = seq[i]
    BY <1>1, <1>5, <2>1
  <2> QED
    BY <2>1, <2>2, <2>3 DEF Elements
<1>6. seq # << >> => Elements(seq) \subseteq Elements(tail) \cup {seq[1]}
  BY <1>1, <1>5 DEF Elements
<1>7. Elements(tail) \subseteq Elements(seq)
  <2> SUFFICES ASSUME NEW i \in DOMAIN tail PROVE tail[i] \in Elements(seq)
    BY DEF Elements
  <2>1. tail[i] = seq[i + 1] /\ i + 1 \in DOMAIN seq
    BY <1>1
  <2> QED
    BY <2>1 DEF Elements
<1> QED
  BY <1>2, <1>3, <1>4, <1>6, <1>7

(* An empty hub: nothing buffered, sent or in flight.                      *)
LEMMA InitHubInv == HubInit => HubInv
  BY HubAssumption
  DEF HubInit, HubInv, HubTypes, BufferedOrEvicted, PositionInChannel, NoMiss, Elements

(* Publishing into the buffer: the new event is in flight for everyone and *)
(* what leaves the buffer is evicted.                                      *)
LEMMA BufferIInv ==
  ASSUME HubInv, NEW p \in Publisher, NEW e \in Event, Buffer(p, e)
  PROVE  HubInv'
<1> DEFINE full == Len(replay) >= Capacity
           kept == IF full THEN SubSeq(replay, 2, Len(replay)) ELSE replay
<1> USE HubAssumption
<1>1. replay \in Seq(Event) /\ kept \in Seq(Event)
  BY DropHead DEF HubInv, HubTypes
<1>2. /\ replay' = Append(kept, e)
      /\ evicted' = IF full /\ replay # << >> THEN evicted \cup {replay[1]} ELSE evicted
      /\ pushed' = pushed \cup {e}
      /\ sending[p] = None
      /\ sending' = [sending EXCEPT ![p] = e]
      /\ UNCHANGED <<sent, phase, cursor, pos, consumed, gone, lagged>>
  BY DEF Buffer
<1>3. /\ replay' \in Seq(Event)
      /\ Elements(replay') = Elements(kept) \cup {e}
  <2> HIDE DEF kept
  <2> QED
    BY <1>1, <1>2, AppendFacts
<1>4. evicted' \subseteq Event /\ evicted \subseteq evicted'
  BY <1>1, <1>2, DropHead DEF HubInv, HubTypes
<1>5. HubTypes'
  BY <1>2, <1>3, <1>4 DEF HubInv, HubTypes
<1>6. BufferedOrEvicted'
  <2>1. Elements(replay) \subseteq Elements(kept) \cup evicted'
    BY <1>1, <1>2, DropHead
  <2> QED
    BY <2>1, <1>2, <1>3, <1>4 DEF HubInv, BufferedOrEvicted
<1>7. PositionInChannel'
  BY <1>2 DEF HubInv, PositionInChannel
<1>8. \A f \in Event : InFlight(f) => InFlight(f)'
  BY <1>2 DEF InFlight, HubInv, HubTypes
<1>9. InFlight(e)'
  BY <1>2 DEF InFlight, HubInv, HubTypes
<1>10. NoMiss'
  BY <1>2, <1>8, <1>9 DEF HubInv, HubTypes, NoMiss, Accounted, Waiting
<1> QED
  BY <1>5, <1>6, <1>7, <1>10 DEF HubInv

(* Sending moves an event from in flight to waiting for every receiver.    *)
LEMMA SendIInv ==
  ASSUME HubInv, NEW p \in Publisher, Send(p)
  PROVE  HubInv'
<1> USE HubAssumption
<1> PICK e \in Event : e = sending[p]
  BY DEF Send, HubInv, HubTypes
<1>1. /\ sending[p] = e
      /\ sent' = Append(sent, e)
      /\ sending' = [sending EXCEPT ![p] = None]
      /\ UNCHANGED <<replay, phase, cursor, pos, consumed, pushed, evicted, gone, lagged>>
  BY DEF Send, HubInv, HubTypes
<1>2. /\ sent' \in Seq(Event) /\ sent \in Seq(Event)
      /\ Len(sent') = Len(sent) + 1 /\ Len(sent) \in Nat
      /\ \A i \in 1 .. Len(sent) : sent'[i] = sent[i]
      /\ sent'[Len(sent) + 1] = e
  BY <1>1, AppendFacts DEF HubInv, HubTypes
<1>3. HubTypes' /\ BufferedOrEvicted'
  BY <1>1, <1>2 DEF HubInv, HubTypes, BufferedOrEvicted
<1>4. \A s \in Subscriber : pos[s] \in Nat \ {0} /\ pos[s] <= Len(sent) + 1
  BY DEF HubInv, HubTypes, PositionInChannel
<1>5. PositionInChannel'
  BY <1>1, <1>2, <1>4 DEF PositionInChannel
<1>6. \A s \in Subscriber, f \in Event : Waiting(s, f) => Waiting(s, f)'
  BY <1>1, <1>2, <1>4 DEF Waiting
<1>7. \A s \in Subscriber : Waiting(s, e)'
  <2> SUFFICES ASSUME NEW s \in Subscriber
               PROVE  \E i \in pos'[s] .. Len(sent') : sent'[i] = e
    BY <1>1 DEF Waiting
  <2>1. Len(sent) + 1 \in pos'[s] .. Len(sent')
    BY <1>1, <1>2, <1>4
  <2> QED
    BY <2>1, <1>2
<1>8. \A f \in Event : InFlight(f) => InFlight(f)' \/ f = e
  BY <1>1 DEF InFlight, HubInv, HubTypes
<1>9. NoMiss'
  <2> SUFFICES ASSUME NEW s \in Subscriber, phase[s] = "on",
                      NEW f \in pushed \ (gone[s] \cup lagged[s]), Matches(f, cursor[s])
               PROVE  Accounted(s, f)'
    BY <1>1 DEF NoMiss
  <2>1. f \in Event /\ Accounted(s, f)
    BY DEF HubInv, HubTypes, NoMiss
  <2>2. CASE f = e
    BY <2>2, <1>7 DEF Accounted
  <2>3. CASE f # e
    BY <2>1, <2>3, <1>1, <1>6, <1>8 DEF Accounted
  <2> QED
    BY <2>2, <2>3
<1> QED
  BY <1>3, <1>5, <1>9 DEF HubInv

(* A snapshot covers everything buffered; what is not is evicted.          *)
LEMMA SubscribeIInv ==
  ASSUME HubInv, NEW s \in Subscriber,
         (\E c \in Cursor : Attach(s, c)) \/ Snapshot(s) \/ Disconnect(s)
  PROVE  HubInv'
<1> USE HubAssumption
<1>0. sent \in Seq(Event) /\ Len(sent) \in Nat
  BY DEF HubInv, HubTypes
<1>1. CASE \E c \in Cursor : Attach(s, c)
  <2> PICK c \in Cursor : Attach(s, c)
    BY <1>1
  <2> USE DEF Attach, hub
  <2>1. HubTypes'
    BY <1>0 DEF HubInv, HubTypes
  <2>2. BufferedOrEvicted' /\ PositionInChannel'
    BY <1>0 DEF HubInv, HubTypes, BufferedOrEvicted, PositionInChannel
  <2>3. NoMiss'
    <3> SUFFICES ASSUME NEW t \in Subscriber, phase'[t] = "on",
                        NEW e \in pushed \ (gone[t] \cup lagged[t]), Matches(e, cursor'[t])
                 PROVE  Accounted(t, e)'
      BY DEF NoMiss
    <3>1. t # s /\ phase[t] = "on" /\ cursor'[t] = cursor[t] /\ pos'[t] = pos[t]
      BY DEF HubInv, HubTypes
    <3> QED
      BY <3>1 DEF HubInv, NoMiss, Accounted, InFlight, Waiting
  <2> QED
    BY <2>1, <2>2, <2>3 DEF HubInv
<1>2. CASE Snapshot(s)
  <2> USE <1>2 DEF Snapshot, hub
  <2>1. Elements(replay) \subseteq Event
    BY DEF Elements, HubInv, HubTypes
  <2>2. HubTypes'
    BY <2>1 DEF HubInv, HubTypes
  <2>3. BufferedOrEvicted' /\ PositionInChannel'
    BY DEF HubInv, BufferedOrEvicted, PositionInChannel
  <2>4. NoMiss'
    <3> SUFFICES ASSUME NEW t \in Subscriber, phase'[t] = "on",
                        NEW e \in pushed, e \notin gone'[t], e \notin lagged[t],
                        Matches(e, cursor[t])
                 PROVE  Accounted(t, e)'
      BY DEF NoMiss
    <3>1. CASE t = s
      <4>1. e \in Elements(replay)
        BY <3>1 DEF HubInv, HubTypes, BufferedOrEvicted
      <4>2. consumed'[t] = consumed[t] \cup {f \in Elements(replay) : Matches(f, cursor[t])}
        BY <3>1 DEF HubInv, HubTypes
      <4> QED
        BY <4>1, <4>2 DEF Accounted
    <3>2. CASE t # s
      <4>1. phase[t] = "on" /\ gone'[t] = gone[t] /\ consumed'[t] = consumed[t]
        BY <3>2 DEF HubInv, HubTypes
      <4>2. Accounted(t, e)
        BY <4>1 DEF HubInv, NoMiss
      <4> QED
        BY <4>1, <4>2 DEF Accounted, InFlight, Waiting
    <3> QED
      BY <3>1, <3>2
  <2> QED
    BY <2>2, <2>3, <2>4 DEF HubInv
<1>3. CASE Disconnect(s)
  <2> USE <1>3 DEF Disconnect, hub
  <2>1. HubTypes' /\ BufferedOrEvicted' /\ PositionInChannel'
    BY DEF HubInv, HubTypes, BufferedOrEvicted, PositionInChannel
  <2>2. NoMiss'
    <3> SUFFICES ASSUME NEW t \in Subscriber, phase'[t] = "on",
                        NEW e \in pushed \ (gone[t] \cup lagged[t]), Matches(e, cursor[t])
                 PROVE  Accounted(t, e)'
      BY DEF NoMiss
    <3>1. phase[t] = "on"
      BY DEF HubInv, HubTypes
    <3> QED
      BY <3>1 DEF HubInv, NoMiss, Accounted, InFlight, Waiting
  <2> QED
    BY <2>1, <2>2 DEF HubInv
<1> QED
  BY <1>1, <1>2, <1>3

(* A receiver gives the event at its position to the client, or skips      *)
(* exactly the ones the channel has overwritten.                           *)
LEMMA ReceiveIInv ==
  ASSUME HubInv, NEW s \in Subscriber, Receive(s) \/ Lagged(s)
  PROVE  HubInv'
<1> USE HubAssumption DEF Behind
<1>0. /\ sent \in Seq(Event) /\ Len(sent) \in Nat
      /\ pos[s] \in Nat \ {0} /\ pos[s] <= Len(sent) + 1
      /\ \A i \in 1 .. Len(sent) : sent[i] \in Event
  BY DEF HubInv, HubTypes, PositionInChannel
<1>1. CASE Receive(s)
  <2> USE <1>1 DEF Receive, hub
  <2>1. pos[s] \in 1 .. Len(sent) /\ sent[pos[s]] \in Event
    BY <1>0
  <2>2. HubTypes'
    <3>1. consumed' \in [Subscriber -> SUBSET Event]
      BY <2>1 DEF HubInv, HubTypes
    <3>2. pos' \in [Subscriber -> Nat \ {0}]
      BY <1>0 DEF HubInv, HubTypes
    <3> QED
      BY <3>1, <3>2 DEF HubInv, HubTypes
  <2>3. BufferedOrEvicted' /\ PositionInChannel'
    BY <1>0, <2>1 DEF HubInv, HubTypes, BufferedOrEvicted, PositionInChannel
  <2>4. \A e \in Event : Accounted(s, e) => Accounted(s, e)'
    BY <1>0, <2>1 DEF Accounted, InFlight, Waiting, HubInv, HubTypes
  <2>5. \A t \in Subscriber \ {s}, e \in Event : Accounted(t, e) => Accounted(t, e)'
    BY DEF Accounted, InFlight, Waiting, HubInv, HubTypes
  <2>6. NoMiss'
    <3> SUFFICES ASSUME NEW t \in Subscriber, phase[t] = "on",
                        NEW e \in pushed \ (gone[t] \cup lagged[t]), Matches(e, cursor[t])
                 PROVE  Accounted(t, e)'
      BY DEF NoMiss
    <3>1. e \in Event /\ Accounted(t, e)
      BY DEF HubInv, HubTypes, NoMiss
    <3> QED
      BY <3>1, <2>4, <2>5
  <2> QED
    BY <2>2, <2>3, <2>6 DEF HubInv
<1>2. CASE Lagged(s)
  <2> USE <1>2 DEF Lagged, hub
  <2> DEFINE skipped == {sent[i] : i \in pos[s] .. Len(sent) - Ring}
  <2>1. pos'[s] = Len(sent) - Ring + 1 /\ pos'[s] \in Nat \ {0} /\ pos'[s] <= Len(sent) + 1
    BY <1>0 DEF HubInv, HubTypes
  <2>2. skipped \subseteq Event
    BY <1>0
  <2>3. HubTypes'
    BY <1>0, <2>1, <2>2 DEF HubInv, HubTypes
  <2>4. BufferedOrEvicted' /\ PositionInChannel'
    BY <1>0, <2>1 DEF HubInv, HubTypes, BufferedOrEvicted, PositionInChannel
  <2>5. \A e \in Event : Accounted(s, e) => Accounted(s, e)' \/ e \in lagged'[s]
    BY <1>0, <2>1 DEF Accounted, InFlight, Waiting, HubInv, HubTypes
  <2>6. \A t \in Subscriber \ {s}, e \in Event : Accounted(t, e) => Accounted(t, e)'
    BY DEF Accounted, InFlight, Waiting, HubInv, HubTypes
  <2>7. \A t \in Subscriber : lagged[t] \subseteq lagged'[t]
    BY DEF HubInv, HubTypes
  <2>8. NoMiss'
    <3> SUFFICES ASSUME NEW t \in Subscriber, phase[t] = "on", NEW e \in pushed,
                        e \notin gone[t], e \notin lagged'[t], Matches(e, cursor[t])
                 PROVE  Accounted(t, e)'
      BY DEF NoMiss
    <3>1. e \in Event /\ e \notin lagged[t] /\ Accounted(t, e)
      BY <2>7 DEF HubInv, HubTypes, NoMiss
    <3> QED
      BY <3>1, <2>5, <2>6
  <2> QED
    BY <2>3, <2>4, <2>8 DEF HubInv
<1> QED
  BY <1>1, <1>2

(* Every step keeps the invariant, publishers and subscribers interleaved. *)
LEMMA NextHubInv == HubInv /\ [HubNext]_hubVars => HubInv'
<1> SUFFICES ASSUME HubInv, [HubNext]_hubVars
             PROVE  HubInv'
  OBVIOUS
<1>1. CASE UNCHANGED hubVars
  BY <1>1 DEF hubVars, HubInv, HubTypes, BufferedOrEvicted, PositionInChannel, NoMiss,
              Accounted, InFlight, Waiting
<1>2. CASE HubNext
  BY <1>2, BufferIInv, SendIInv, SubscribeIInv, ReceiveIInv DEF HubNext
<1> QED
  BY <1>1, <1>2

(* Whatever the interleaving of publishers and subscriptions, no event     *)
(* falls between a client's replay and its live stream.                    *)
THEOREM NoEventMissed == HubSpec => []NoMiss
<1>1. HubInv => NoMiss
  BY DEF HubInv
<1> QED
  BY InitHubInv, NextHubInv, <1>1, PTL DEF HubSpec

(* What CatchUpComplete needs besides: where an event published has got to, *)
(* and that what a client consumed bears out the sequence it comes back     *)
(* with.                                                                    *)
PublishedOnce ==
  /\ \A e, f \in pushed \cap Numbered : SeqOf[e] = SeqOf[f] => e = f
  /\ Elements(replay) \cup Elements(sent) \subseteq pushed
  /\ \A p \in Publisher : sending[p] # None => sending[p] \in pushed
  /\ \A e \in pushed : InFlight(e) \/ e \in Elements(sent)

CursorIsConsumed ==
  \A s \in Subscriber :
    /\ consumed[s] \subseteq pushed /\ gone[s] \subseteq evicted
    /\ cursor[s] = None => consumed[s] = {}
    /\ cursor[s] # None /\ cursor[s].last # None =>
         \E e \in consumed[s] : SeqOf[e] = cursor[s].last

(* An event still in flight when a later one has been sent: sending it too  *)
(* would break the order.                                                   *)
Overtaken(e) ==
  InFlight(e) /\ \E f \in Elements(sent) \cap Numbered : SeqOf[e] < SeqOf[f]

Settled(s, e) == e \in consumed[s] \cup gone[s] \cup lagged[s] \/ Overtaken(e)

(* Everything before what a client consumed is settled for it, and so is    *)
(* everything before the position of its receiver.                          *)
SettledUpToConsumed ==
  \A s \in Subscriber : cursor[s] # None =>
    \A f \in consumed[s] \cap Numbered, e \in pushed \cap Numbered \cap cursor[s].wanted :
      SeqOf[e] < SeqOf[f] => Settled(s, e)

SettledUpToPosition ==
  \A s \in Subscriber : phase[s] = "on" =>
    \A i \in 1 .. Len(sent) :
      i < pos[s] /\ sent[i] \in Numbered \cap cursor[s].wanted => Settled(s, sent[i])

CatchUp ==
  /\ HubInv
  /\ PublishedOnce
  /\ CursorIsConsumed
  /\ SentInOrder => SettledUpToConsumed /\ SettledUpToPosition

(* Before the first event nothing can be caught up with.                   *)
LEMMA InitCatchUp == HubInit => CatchUp
BY InitHubInv, HubAssumption
   DEF HubInit, CatchUp, PublishedOnce, CursorIsConsumed, SettledUpToConsumed, SettledUpToPosition, Elements

(* What is sent is in the channel at an index, and what was is sent before. *)
LEMMA SentAt ==
  ASSUME HubInv
  PROVE  /\ Len(sent) \in Nat /\ Elements(sent) = {sent[i] : i \in 1 .. Len(sent)}
         /\ \A i \in 1 .. Len(sent) : sent[i] \in Event /\ sent[i] \in Elements(sent)
BY DEF HubInv, HubTypes, Elements

(* Buffering an event: it is later than anything a client consumed.         *)
LEMMA BufferCatchUp ==
  ASSUME CatchUp, NEW p \in Publisher, NEW e \in Event, Buffer(p, e)
  PROVE  CatchUp'
<1> USE HubAssumption
<1>1. HubInv /\ HubInv'
  BY BufferIInv DEF CatchUp
<1>2. /\ e \notin pushed /\ pushed' = pushed \cup {e} /\ pushed \subseteq Event
      /\ e \in Numbered => \A f \in pushed \cap Numbered : SeqOf[f] < SeqOf[e]
      /\ sending[p] = None /\ sending' = [sending EXCEPT ![p] = e]
      /\ UNCHANGED <<sent, phase, cursor, pos, consumed, gone, lagged>>
  BY <1>1 DEF Buffer, Numbered, HubInv, HubTypes
<1>3. \A f \in Event : SeqOf[f] \in Nat
  OBVIOUS
<1>4. \A f \in Event : InFlight(f) => InFlight(f)'
  BY <1>1, <1>2 DEF InFlight, HubInv, HubTypes
<1>5. InFlight(e)'
  BY <1>1, <1>2 DEF InFlight, HubInv, HubTypes
<1>6. Elements(replay') \subseteq Elements(replay) \cup {e} /\ evicted \subseteq evicted'
  <2> DEFINE full == Len(replay) >= Capacity
             kept == IF full THEN SubSeq(replay, 2, Len(replay)) ELSE replay
  <2>1. replay \in Seq(Event) /\ kept \in Seq(Event)
    BY <1>1, DropHead DEF HubInv, HubTypes
  <2>2. Elements(kept) \subseteq Elements(replay)
    BY <2>1, DropHead
  <2>3. replay' = Append(kept, e) /\ evicted \subseteq evicted'
    BY DEF Buffer
  <2> HIDE DEF kept
  <2> QED
    BY <2>1, <2>2, <2>3, AppendFacts
<1>7. PublishedOnce'
  <2>1. \A f, g \in pushed' \cap Numbered : SeqOf[f] = SeqOf[g] => f = g
    BY <1>2, <1>3 DEF CatchUp, PublishedOnce
  <2>2. Elements(replay') \cup Elements(sent') \subseteq pushed'
    BY <1>2, <1>6 DEF CatchUp, PublishedOnce
  <2>3. \A q \in Publisher : sending'[q] # None => sending'[q] \in pushed'
    BY <1>1, <1>2 DEF CatchUp, PublishedOnce, HubInv, HubTypes
  <2>4. \A f \in pushed' : InFlight(f)' \/ f \in Elements(sent')
    BY <1>2, <1>4, <1>5 DEF CatchUp, PublishedOnce
  <2> QED
    BY <2>1, <2>2, <2>3, <2>4 DEF PublishedOnce
<1>8. CursorIsConsumed'
  BY <1>2, <1>6 DEF CatchUp, CursorIsConsumed
<1>9. \A s \in Subscriber, f \in Event : Settled(s, f) => Settled(s, f)'
  BY <1>2, <1>4 DEF Settled, Overtaken
<1>10. SentInOrder' => SettledUpToConsumed' /\ SettledUpToPosition'
  <2> SUFFICES ASSUME SentInOrder PROVE SettledUpToConsumed' /\ SettledUpToPosition'
    BY <1>2 DEF SentInOrder
  <2>1. SettledUpToConsumed'
    <3> SUFFICES ASSUME NEW s \in Subscriber, cursor[s] # None, NEW f \in consumed[s] \cap Numbered,
                        NEW g \in pushed' \cap Numbered \cap cursor[s].wanted, SeqOf[g] < SeqOf[f]
                 PROVE  Settled(s, g)'
      BY <1>2 DEF SettledUpToConsumed
    <3>1. f \in pushed /\ f \in Event /\ g # e
      BY <1>2, <1>3 DEF CatchUp, CursorIsConsumed, Numbered
    <3>2. g \in pushed /\ g \in Event /\ Settled(s, g)
      BY <1>2, <3>1 DEF CatchUp, SettledUpToConsumed
    <3> QED
      BY <1>9, <3>2
  <2>2. SettledUpToPosition'
    BY <1>1, <1>2, <1>9, SentAt DEF CatchUp, SettledUpToPosition
  <2> QED
    BY <2>1, <2>2
<1> QED
  BY <1>1, <1>7, <1>8, <1>10 DEF CatchUp

(* Sending: an event that was overtaken would be sent out of order.         *)
LEMMA SendCatchUp ==
  ASSUME CatchUp, NEW p \in Publisher, Send(p)
  PROVE  CatchUp'
<1> USE HubAssumption
<1>0. \A s \in Subscriber : pos[s] \in Nat /\ pos[s] <= Len(sent) + 1
  BY DEF CatchUp, HubInv, HubTypes, PositionInChannel
<1>1. HubInv /\ HubInv'
  BY SendIInv DEF CatchUp
<1> PICK e \in Event : e = sending[p]
  BY <1>1 DEF Send, HubInv, HubTypes
<1>2. /\ sending[p] = e /\ e \in pushed
      /\ sent' = Append(sent, e)
      /\ sending' = [sending EXCEPT ![p] = None]
      /\ UNCHANGED <<replay, phase, cursor, pos, consumed, pushed, evicted, gone, lagged>>
  BY DEF Send, CatchUp, PublishedOnce
<1>3. /\ sent \in Seq(Event) /\ Len(sent') = Len(sent) + 1 /\ Len(sent) \in Nat
      /\ \A i \in 1 .. Len(sent) : sent'[i] = sent[i]
      /\ sent'[Len(sent) + 1] = e
      /\ Elements(sent') = Elements(sent) \cup {e}
      /\ DOMAIN sent = 1 .. Len(sent) /\ DOMAIN sent' = 1 .. Len(sent')
  BY <1>1, <1>2, AppendFacts DEF HubInv, HubTypes
<1>4. \A f \in Event : InFlight(f) => InFlight(f)' \/ f = e
  BY <1>1, <1>2 DEF InFlight, HubInv, HubTypes
<1>5. PublishedOnce'
  <2>1. Elements(replay') \cup Elements(sent') \subseteq pushed'
    BY <1>2, <1>3 DEF CatchUp, PublishedOnce
  <2>2. \A q \in Publisher : sending'[q] # None => sending'[q] \in pushed'
    BY <1>1, <1>2 DEF CatchUp, PublishedOnce, HubInv, HubTypes
  <2>3. \A f \in pushed' : InFlight(f)' \/ f \in Elements(sent')
    BY <1>1, <1>2, <1>3, <1>4 DEF CatchUp, PublishedOnce, HubInv, HubTypes
  <2> QED
    BY <1>2, <2>1, <2>2, <2>3 DEF CatchUp, PublishedOnce
<1>6. CursorIsConsumed'
  BY <1>2 DEF CatchUp, CursorIsConsumed
<1>7. ASSUME SentInOrder'
      PROVE  SettledUpToConsumed' /\ SettledUpToPosition'
  <2>1. SentInOrder
    BY <1>3, <1>7 DEF SentInOrder
  <2>2. e \in Numbered => ~Overtaken(e)
    <3> SUFFICES ASSUME e \in Numbered, NEW i \in 1 .. Len(sent), sent[i] \in Numbered, SeqOf[e] < SeqOf[sent[i]]
                 PROVE  FALSE
      BY <1>1, SentAt DEF Overtaken
    <3>1. i < Len(sent) + 1 /\ i \in DOMAIN sent' /\ Len(sent) + 1 \in DOMAIN sent'
      BY <1>3
    <3>2. SeqOf[sent[i]] < SeqOf[e]
      BY <1>3, <1>7, <3>1 DEF SentInOrder
    <3> QED
      BY <3>2 DEF Numbered
  <2>3. \A s \in Subscriber, f \in Numbered : Settled(s, f) => Settled(s, f)'
    BY <1>2, <1>3, <1>4, <2>2 DEF Settled, Overtaken, Numbered
  <2>4. SettledUpToConsumed'
    BY <1>2, <2>1, <2>3 DEF CatchUp, SettledUpToConsumed
  <2>5. SettledUpToPosition'
    <3> SUFFICES ASSUME NEW s \in Subscriber, phase[s] = "on", NEW i \in 1 .. Len(sent'), i < pos[s],
                        sent'[i] \in Numbered \cap cursor[s].wanted
                 PROVE  Settled(s, sent[i])'
      BY <1>2 DEF SettledUpToPosition
    <3>1. pos[s] \in Nat /\ pos[s] <= Len(sent) + 1
      BY <1>0
    <3>2. i \in 1 .. Len(sent) /\ sent'[i] = sent[i]
      BY <1>3, <3>1
    <3>3. Settled(s, sent[i])
      BY <2>1, <3>2 DEF CatchUp, SettledUpToPosition
    <3>4. PICK f \in Numbered : f = sent[i]
      BY <3>2
    <3>5. Settled(s, f)'
      <4>1. Settled(s, f)
        BY <3>3, <3>4
      <4> QED
        BY <2>3, <4>1
    <3> QED
      BY <3>2, <3>4, <3>5 DEF Settled, Overtaken, InFlight
  <2> QED
    BY <2>4, <2>5
<1> QED
  BY <1>1, <1>5, <1>6, <1>7 DEF CatchUp

(* Coming back: the cursor holds what was consumed.                         *)
LEMMA AttachCatchUp ==
  ASSUME CatchUp, NEW s \in Subscriber, NEW c \in Cursor, Attach(s, c)
  PROVE  CatchUp'
<1> USE HubAssumption
<1>1. HubInv /\ HubInv'
  BY SubscribeIInv DEF CatchUp
<1>2. /\ phase[s] = "off" /\ phase' = [phase EXCEPT ![s] = "attached"]
      /\ cursor' = [cursor EXCEPT ![s] = c]
      /\ c.last # None => \E e \in consumed[s] : SeqOf[e] = c.last
      /\ cursor[s] # None => c.wanted = cursor[s].wanted
      /\ UNCHANGED <<replay, sent, sending, pushed, evicted, consumed, gone, lagged>>
  <2>1. c.last # None => \E e \in consumed[s] : SeqOf[e] = c.last
    <3>1. c.last = None \/ IsLast(s, c.last)
      BY DEF Attach
    <3> QED
      BY <3>1 DEF IsLast
  <2> QED
    BY <2>1 DEF Attach, hub
<1>3. pos' = [pos EXCEPT ![s] = Len(sent) + 1]
  BY DEF Attach
<1>4. PublishedOnce'
  BY <1>2 DEF CatchUp, PublishedOnce, InFlight
<1>5. CursorIsConsumed'
  BY <1>1, <1>2 DEF CatchUp, CursorIsConsumed, HubInv, HubTypes
<1>6. \A t \in Subscriber, f \in Event : Settled(t, f) <=> Settled(t, f)'
  BY <1>2 DEF Settled, Overtaken, InFlight
<1>7. ASSUME SentInOrder'
      PROVE  SettledUpToConsumed' /\ SettledUpToPosition'
  <2>1. SentInOrder
    BY <1>2, <1>7 DEF SentInOrder
  <2>2. SettledUpToConsumed'
    <3> SUFFICES ASSUME NEW t \in Subscriber, cursor'[t] # None, NEW f \in consumed[t] \cap Numbered,
                        NEW g \in pushed \cap Numbered \cap cursor'[t].wanted, SeqOf[g] < SeqOf[f]
                 PROVE  Settled(t, g)'
      BY <1>2 DEF SettledUpToConsumed
    <3>1. cursor[t] # None /\ cursor'[t].wanted = cursor[t].wanted
      BY <1>1, <1>2 DEF CatchUp, CursorIsConsumed, HubInv, HubTypes
    <3>2. Settled(t, g)
      BY <2>1, <3>1 DEF CatchUp, SettledUpToConsumed
    <3> QED
      BY <1>6, <3>2 DEF Numbered
  <2>3. SettledUpToPosition'
    <3> SUFFICES ASSUME NEW t \in Subscriber, phase'[t] = "on", NEW i \in 1 .. Len(sent), i < pos'[t],
                        sent[i] \in Numbered \cap cursor'[t].wanted
                 PROVE  Settled(t, sent[i])'
      BY <1>2 DEF SettledUpToPosition
    <3>1. t # s /\ phase[t] = "on" /\ pos'[t] = pos[t] /\ cursor'[t] = cursor[t]
      BY <1>1, <1>2, <1>3 DEF HubInv, HubTypes
    <3>2. Settled(t, sent[i])
      BY <2>1, <3>1 DEF CatchUp, SettledUpToPosition
    <3> QED
      BY <1>2, <3>2 DEF Settled, Overtaken, InFlight
  <2> QED
    BY <2>2, <2>3
<1> QED
  BY <1>1, <1>4, <1>5, <1>7 DEF CatchUp

(* What a snapshot leaves out was evicted, or is not later than what the    *)
(* client consumed.                                                         *)
LEMMA SnapshotSettles ==
  ASSUME CatchUp, NEW s \in Subscriber, Snapshot(s), SentInOrder,
         NEW e \in pushed \cap Numbered \cap cursor[s].wanted
  PROVE  Settled(s, e)'
<1> USE HubAssumption
<1>1. HubInv
  BY DEF CatchUp
<1>2. /\ cursor[s] # None
      /\ consumed'[s] = consumed[s] \cup {f \in Elements(replay) : Matches(f, cursor[s])}
      /\ gone'[s] = evicted /\ gone[s] \subseteq evicted
      /\ UNCHANGED <<sent, sending, lagged>>
  <2>1. cursor[s] # None
    BY <1>1 DEF Snapshot, HubInv, HubTypes
  <2> QED
    BY <1>1, <2>1 DEF Snapshot, HubInv, HubTypes, CatchUp, CursorIsConsumed, hub
<1>3. e \in Elements(replay) \/ e \in evicted
  BY <1>1 DEF HubInv, BufferedOrEvicted
<1>4. Settled(s, e) => Settled(s, e)'
  BY <1>2 DEF Settled, Overtaken, InFlight
<1>5. CASE Matches(e, cursor[s])
  BY <1>2, <1>3, <1>5 DEF Settled
<1>6. CASE ~Matches(e, cursor[s])
  <2>1. cursor[s].last # None /\ ~(SeqOf[e] > cursor[s].last)
    BY <1>6 DEF Matches
  <2> PICK f \in consumed[s] : SeqOf[f] = cursor[s].last
    BY <1>2, <2>1 DEF CatchUp, CursorIsConsumed
  <2>2. f \in pushed /\ f \in Event /\ SeqOf[f] \in Nat /\ SeqOf[e] \in Nat /\ SeqOf[e] > 0
    BY <1>1 DEF CatchUp, CursorIsConsumed, HubInv, HubTypes, Numbered
  <2>3. SeqOf[e] <= SeqOf[f] /\ f \in Numbered
    BY <2>1, <2>2 DEF Numbered
  <2>4. CASE SeqOf[e] = SeqOf[f]
    BY <1>4, <2>2, <2>3, <2>4 DEF CatchUp, PublishedOnce, Settled
  <2>5. CASE SeqOf[e] < SeqOf[f]
    BY <1>2, <1>4, <2>3, <2>5 DEF CatchUp, SettledUpToConsumed
  <2> QED
    BY <2>2, <2>3, <2>4, <2>5
<1> QED
  BY <1>5, <1>6

(* The snapshot gives a client all it asked for that is buffered.          *)
LEMMA SnapshotCatchUp ==
  ASSUME CatchUp, NEW s \in Subscriber, Snapshot(s)
  PROVE  CatchUp'
<1> USE HubAssumption
<1>1. HubInv /\ HubInv'
  BY SubscribeIInv DEF CatchUp
<1>2. /\ phase' = [phase EXCEPT ![s] = "on"] /\ cursor[s] # None
      /\ consumed' = [consumed EXCEPT ![s] = @ \cup {e \in Elements(replay) : Matches(e, cursor[s])}]
      /\ gone' = [gone EXCEPT ![s] = evicted]
      /\ UNCHANGED <<replay, sent, sending, pushed, evicted, cursor, pos, lagged>>
  <2>1. cursor[s] # None
    BY <1>1 DEF Snapshot, HubInv, HubTypes
  <2> QED
    BY <2>1 DEF Snapshot, hub
<1>3. PublishedOnce'
  BY <1>2 DEF CatchUp, PublishedOnce, InFlight
<1>4. CursorIsConsumed'
  BY <1>1, <1>2 DEF CatchUp, CursorIsConsumed, PublishedOnce, HubInv, HubTypes
<1>5. \A t \in Subscriber \ {s}, f \in Event : Settled(t, f) => Settled(t, f)'
  BY <1>1, <1>2 DEF Settled, Overtaken, InFlight, HubInv, HubTypes
<1>6. ASSUME SentInOrder'
      PROVE  SettledUpToConsumed' /\ SettledUpToPosition'
  <2>1. SentInOrder
    BY <1>2, <1>6 DEF SentInOrder
  <2>2. SettledUpToConsumed'
    <3> SUFFICES ASSUME NEW t \in Subscriber, cursor[t] # None, NEW f \in consumed'[t] \cap Numbered,
                        NEW g \in pushed \cap Numbered \cap cursor[t].wanted, SeqOf[g] < SeqOf[f]
                 PROVE  Settled(t, g)'
      BY <1>2 DEF SettledUpToConsumed
    <3>1. CASE t = s
      BY <2>1, <3>1, SnapshotSettles
    <3>2. CASE t # s
      <4>1. f \in consumed[t]
        BY <1>1, <1>2, <3>2 DEF HubInv, HubTypes
      <4>2. Settled(t, g)
        BY <2>1, <4>1 DEF CatchUp, SettledUpToConsumed
      <4> QED
        BY <1>5, <3>2, <4>2 DEF Numbered
    <3> QED
      BY <3>1, <3>2
  <2>3. SettledUpToPosition'
    <3> SUFFICES ASSUME NEW t \in Subscriber, phase'[t] = "on", NEW i \in 1 .. Len(sent), i < pos[t],
                        NEW e \in Numbered \cap cursor[t].wanted, e = sent[i]
                 PROVE  Settled(t, e)'
      BY <1>2 DEF SettledUpToPosition, Settled, Overtaken, InFlight
    <3>1. e \in pushed
      BY <1>1, SentAt DEF CatchUp, PublishedOnce
    <3>2. CASE t = s
      BY <2>1, <3>1, <3>2, SnapshotSettles
    <3>3. CASE t # s
      <4>1. phase[t] = "on"
        BY <1>1, <1>2, <3>3 DEF HubInv, HubTypes
      <4>2. Settled(t, e)
        BY <2>1, <4>1 DEF CatchUp, SettledUpToPosition
      <4> QED
        BY <1>5, <3>3, <4>2 DEF Numbered
    <3> QED
      BY <3>2, <3>3
  <2> QED
    BY <2>2, <2>3
<1> QED
  BY <1>1, <1>3, <1>4, <1>6 DEF CatchUp

(* The receiver takes the events in the order they were sent, so that what  *)
(* it passed over is settled before what it takes.                          *)
LEMMA ReceiveCatchUp ==
  ASSUME CatchUp, NEW s \in Subscriber, Receive(s)
  PROVE  CatchUp'
<1> USE HubAssumption
<1>1. HubInv /\ HubInv'
  BY ReceiveIInv DEF CatchUp
<1>2. Len(sent) \in Nat /\ pos[s] \in Nat \ {0} /\ DOMAIN sent = 1 .. Len(sent)
  BY <1>1 DEF HubInv, HubTypes
<1>3. phase[s] = "on" /\ pos[s] \in 1 .. Len(sent)
  BY <1>2 DEF Receive, Behind
<1> PICK e \in Event : e = sent[pos[s]]
  BY <1>1, <1>3, SentAt
<1>4. /\ pos'[s] = pos[s] + 1 /\ consumed'[s] = consumed[s] \cup {e}
      /\ \A t \in Subscriber \ {s} : pos'[t] = pos[t] /\ consumed'[t] = consumed[t]
      /\ UNCHANGED <<replay, sent, sending, pushed, evicted, phase, cursor, gone, lagged>>
  BY <1>1 DEF Receive, hub, HubInv, HubTypes
<1>5. e \in pushed /\ e \in Elements(sent)
  BY <1>1, <1>3, SentAt DEF CatchUp, PublishedOnce
<1>6. PublishedOnce'
  BY <1>4 DEF CatchUp, PublishedOnce, InFlight
<1>7. CursorIsConsumed'
  <2>1. cursor[s] # None
    BY <1>1, <1>3 DEF HubInv, HubTypes
  <2> QED
    BY <1>4, <1>5, <2>1 DEF CatchUp, CursorIsConsumed
<1>8. \A t \in Subscriber, f \in Event : Settled(t, f) => Settled(t, f)'
  BY <1>4 DEF Settled, Overtaken, InFlight
<1>9. ASSUME SentInOrder'
      PROVE  SettledUpToConsumed' /\ SettledUpToPosition'
  <2>1. SentInOrder
    BY <1>4, <1>9 DEF SentInOrder
  <2>2. SettledUpToConsumed'
    <3> SUFFICES ASSUME NEW t \in Subscriber, cursor[t] # None, NEW f \in consumed'[t] \cap Numbered,
                        NEW g \in pushed \cap Numbered \cap cursor[t].wanted, SeqOf[g] < SeqOf[f]
                 PROVE  Settled(t, g)'
      BY <1>4 DEF SettledUpToConsumed
    <3>1. CASE f \in consumed[t]
      <4>1. Settled(t, g)
        BY <2>1, <3>1 DEF CatchUp, SettledUpToConsumed
      <4> QED
        BY <1>8, <4>1 DEF Numbered
    <3>2. CASE t = s /\ f = e
      <4>1. CASE InFlight(g)
        BY <1>4, <1>5, <3>2, <4>1 DEF Settled, Overtaken, InFlight
      <4>2. CASE g \in Elements(sent)
        <5> PICK i \in 1 .. Len(sent) : sent[i] = g
          BY <1>1, <4>2, SentAt
        <5>1. SeqOf[g] \in Nat /\ SeqOf[e] \in Nat
          BY DEF Numbered
        <5>2. i # pos[s] /\ ~(pos[s] < i)
          BY <1>2, <1>3, <2>1, <3>2, <5>1 DEF SentInOrder
        <5>3. i < pos[s]
          BY <1>2, <5>2
        <5>4. Settled(t, g)
          BY <1>3, <2>1, <3>2, <5>3 DEF CatchUp, SettledUpToPosition
        <5> QED
          BY <1>8, <5>4 DEF Numbered
      <4> QED
        BY <4>1, <4>2 DEF CatchUp, PublishedOnce
    <3> QED
      BY <1>4, <3>1, <3>2
  <2>3. SettledUpToPosition'
    <3> SUFFICES ASSUME NEW t \in Subscriber, phase[t] = "on", NEW i \in 1 .. Len(sent), i < pos'[t],
                        NEW f \in Numbered \cap cursor[t].wanted, f = sent[i]
                 PROVE  Settled(t, f)'
      BY <1>4 DEF SettledUpToPosition, Settled, Overtaken, InFlight
    <3>1. CASE i < pos[t]
      <4>1. Settled(t, f)
        BY <2>1, <3>1 DEF CatchUp, SettledUpToPosition
      <4> QED
        BY <1>8, <4>1 DEF Numbered
    <3>2. CASE ~(i < pos[t])
      <4>1. t = s /\ i = pos[s]
        BY <1>2, <1>4, <3>2
      <4> QED
        BY <1>4, <4>1 DEF Settled
    <3> QED
      BY <3>1, <3>2
  <2> QED
    BY <2>2, <2>3
<1> QED
  BY <1>1, <1>6, <1>7, <1>9 DEF CatchUp

(* What the receiver is told it skipped is settled by that.                 *)
LEMMA LaggedCatchUp ==
  ASSUME CatchUp, NEW s \in Subscriber, Lagged(s)
  PROVE  CatchUp'
<1> USE HubAssumption
<1>1. HubInv /\ HubInv'
  BY ReceiveIInv DEF CatchUp
<1>2. Len(sent) \in Nat /\ pos[s] \in Nat \ {0}
  BY <1>1 DEF HubInv, HubTypes
<1>3. /\ phase[s] = "on" /\ pos'[s] = Len(sent) - Ring + 1
      /\ lagged'[s] = lagged[s] \cup {sent[i] : i \in pos[s] .. Len(sent) - Ring}
      /\ \A t \in Subscriber \ {s} : pos'[t] = pos[t] /\ lagged'[t] = lagged[t]
      /\ UNCHANGED <<replay, sent, sending, pushed, evicted, phase, cursor, consumed, gone>>
  BY <1>1 DEF Lagged, hub, HubInv, HubTypes
<1>4. PublishedOnce'
  BY <1>3 DEF CatchUp, PublishedOnce, InFlight
<1>5. CursorIsConsumed'
  BY <1>3 DEF CatchUp, CursorIsConsumed
<1>6. \A t \in Subscriber, f \in Event : Settled(t, f) => Settled(t, f)'
  BY <1>3 DEF Settled, Overtaken, InFlight
<1>7. ASSUME SentInOrder'
      PROVE  SettledUpToConsumed' /\ SettledUpToPosition'
  <2>1. SentInOrder
    BY <1>3, <1>7 DEF SentInOrder
  <2>2. SettledUpToConsumed'
    BY <1>3, <1>6, <2>1 DEF CatchUp, SettledUpToConsumed, Numbered
  <2>3. SettledUpToPosition'
    <3> SUFFICES ASSUME NEW t \in Subscriber, phase[t] = "on", NEW i \in 1 .. Len(sent), i < pos'[t],
                        NEW f \in Numbered \cap cursor[t].wanted, f = sent[i]
                 PROVE  Settled(t, f)'
      BY <1>3 DEF SettledUpToPosition, Settled, Overtaken, InFlight
    <3>1. CASE i < pos[t]
      <4>1. Settled(t, f)
        BY <2>1, <3>1 DEF CatchUp, SettledUpToPosition
      <4> QED
        BY <1>6, <4>1 DEF Numbered
    <3>2. CASE ~(i < pos[t])
      <4>1. t = s /\ i \in pos[s] .. Len(sent) - Ring
        BY <1>2, <1>3, <3>2
      <4> QED
        BY <1>3, <4>1 DEF Settled
    <3> QED
      BY <3>1, <3>2
  <2> QED
    BY <2>2, <2>3
<1> QED
  BY <1>1, <1>4, <1>5, <1>7 DEF CatchUp

(* Every step keeps the catch-up invariant.                                *)
LEMMA NextCatchUp == CatchUp /\ [HubNext]_hubVars => CatchUp'
<1> SUFFICES ASSUME CatchUp, [HubNext]_hubVars PROVE CatchUp'
  OBVIOUS
<1>1. CASE UNCHANGED hubVars
  <2>1. HubInv'
    BY <1>1, NextHubInv DEF CatchUp
  <2>2. PublishedOnce' /\ CursorIsConsumed'
    BY <1>1 DEF hubVars, CatchUp, PublishedOnce, CursorIsConsumed, InFlight
  <2>3. SentInOrder' => SettledUpToConsumed' /\ SettledUpToPosition'
    BY <1>1 DEF hubVars, CatchUp, SentInOrder, SettledUpToConsumed, SettledUpToPosition,
                Settled, Overtaken, InFlight
  <2> QED
    BY <2>1, <2>2, <2>3 DEF CatchUp
<1>2. ASSUME NEW s \in Subscriber, Disconnect(s)
      PROVE  CatchUp'
  <2>1. HubInv'
    BY <1>2, SubscribeIInv DEF CatchUp
  <2>2. /\ \A t \in Subscriber : phase'[t] = "on" => phase[t] = "on"
        /\ UNCHANGED <<replay, sent, sending, pushed, evicted, cursor, pos, consumed, gone, lagged>>
    BY <1>2 DEF Disconnect, hub, CatchUp, HubInv, HubTypes
  <2>3. PublishedOnce' /\ CursorIsConsumed'
    BY <2>2 DEF CatchUp, PublishedOnce, CursorIsConsumed, InFlight
  <2>4. SentInOrder' => SettledUpToConsumed' /\ SettledUpToPosition'
    BY <2>2 DEF CatchUp, SentInOrder, SettledUpToConsumed, SettledUpToPosition,
                Settled, Overtaken, InFlight
  <2> QED
    BY <2>1, <2>3, <2>4 DEF CatchUp
<1> QED
  BY <1>1, <1>2, BufferCatchUp, SendCatchUp, AttachCatchUp, SnapshotCatchUp, ReceiveCatchUp, LaggedCatchUp
     DEF HubNext

(* A client that comes back with the last sequence it consumed, and its     *)
(* filter, is given every numbered event it asks for that it has not seen   *)
(* and that neither the buffer nor the channel has dropped, over any number *)
(* of reconnections, as long as no send overtook another.                   *)
THEOREM CatchUpMissesNothing == HubSpec => []CatchUpComplete
<1>1. CatchUp => CatchUpComplete
  <2> SUFFICES ASSUME CatchUp, SentInOrder, NEW s \in Subscriber, phase[s] = "on",
                      NEW e \in (pushed \ (gone[s] \cup lagged[s])) \cap Numbered \cap cursor[s].wanted,
                      ~InFlight(e)
               PROVE  Accounted(s, e)
    BY DEF CatchUpComplete, Accounted
  <2>1. HubInv
    BY DEF CatchUp
  <2>2. Len(sent) \in Nat /\ pos[s] \in Nat \ {0}
    BY <2>1 DEF HubInv, HubTypes
  <2> PICK i \in 1 .. Len(sent) : sent[i] = e
    BY <2>1, SentAt DEF CatchUp, PublishedOnce
  <2>3. CASE i < pos[s]
    <3>1. Settled(s, e)
      BY <2>3 DEF CatchUp, SettledUpToPosition
    <3> QED
      BY <3>1 DEF Settled, Overtaken, Accounted
  <2>4. CASE ~(i < pos[s])
    <3>1. i \in pos[s] .. Len(sent)
      BY <2>2, <2>4
    <3> QED
      BY <3>1 DEF Accounted, Waiting
  <2> QED
    BY <2>3, <2>4
<1> QED
  BY InitCatchUp, NextCatchUp, <1>1, PTL DEF HubSpec
==============================================================================
