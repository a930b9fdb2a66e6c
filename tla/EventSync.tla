------------------------------ MODULE EventSync ------------------------------
(***************************************************************************)
(* The push half of the sync engine (runway-storage, local/sync.rs) over   *)
(* the redb event log (local/event.rs) and a remote event log              *)
(* (remote/event.rs).                                                      *)
(*                                                                         *)
(* A device appends events to its local log; sync cycles copy the ones     *)
(* still in the UNSYNCED table to the remote log, one request per event,   *)
(* and then mark the acknowledged ones in one transaction.  A request may  *)
(* fail, may be applied with its answer lost, and the process may crash    *)
(* between any two steps; the two redb tables survive.  Cycles may         *)
(* overlap: SyncEngine::sync takes &self and no lock.                      *)
(***************************************************************************)
EXTENDS Naturals

CONSTANTS
  DeviceId,     \* event_id values of events the application logs locally
  CloudId,      \* event_id values minted by a service on the remote kit
  Body,         \* the rest of a StoredEvent
  Cycle,        \* concurrent calls of SyncEngine::sync
  OccurredAt,   \* [DeviceId -> Nat], the occurred_at of each event
  NoBody,       \* "no such record"
  MaxCrashes    \* bound: process crashes in a behaviour

EventId == DeviceId \cup CloudId

ASSUME EventAssumption ==
  /\ NoBody \notin Body
  /\ DeviceId \cap CloudId = {}
  /\ OccurredAt \in [DeviceId -> Nat]
  /\ MaxCrashes \in Nat

VARIABLES
  events,    \* local table EVENTS without synced_at: [EventId -> Body or NoBody]
  syncedAt,  \* ids whose EVENTS record carries synced_at
  unsynced,  \* local table UNSYNCED
  remote,    \* the remote log: [EventId -> Body or NoBody]
  pc,        \* where each cycle is: idle, pushing its batch, about to mark
  batch,     \* each cycle's query_unsynced result not yet tried
  acked,     \* each cycle's synced_ids
  crashes    \* crashes so far

localVars == <<events, syncedAt, unsynced>>
cycleVars == <<pc, batch, acked>>
vars == <<events, syncedAt, unsynced, remote, pc, batch, acked, crashes>>

Nothing == [id \in DeviceId |-> NoBody]

(* The ids a log or a batch holds a record of.                             *)
Held(log) == {id \in DOMAIN log : log[id] # NoBody}

TypeOK ==
  /\ events \in [DeviceId -> Body \cup {NoBody}]
  /\ syncedAt \subseteq DeviceId
  /\ unsynced \subseteq DeviceId
  /\ remote \in [EventId -> Body \cup {NoBody}]
  /\ pc \in [Cycle -> {"idle", "push", "mark"}]
  /\ batch \in [Cycle -> [DeviceId -> Body \cup {NoBody}]]
  /\ acked \in [Cycle -> SUBSET DeviceId]
  /\ crashes \in 0 .. MaxCrashes

Init ==
  /\ events = Nothing
  /\ syncedAt = {}
  /\ unsynced = {}
  /\ remote = [id \in EventId |-> NoBody]
  /\ pc = [c \in Cycle |-> "idle"]
  /\ batch = [c \in Cycle |-> Nothing]
  /\ acked = [c \in Cycle |-> {}]
  /\ crashes = 0

(* The application appends an event: one write transaction on EVENTS and   *)
(* UNSYNCED that ignores an id already present.                            *)
AppendEvent(id, body) ==
  /\ IF events[id] = NoBody
     THEN /\ events' = [events EXCEPT ![id] = body]
          /\ unsynced' = unsynced \cup {id}
     ELSE UNCHANGED <<events, unsynced>>
  /\ UNCHANGED <<syncedAt, remote, cycleVars, crashes>>

(* api-server on the remote kit appends an event under a fresh uuid.       *)
CloudAppend(id, body) ==
  /\ id \notin Held(remote)
  /\ remote' = [remote EXCEPT ![id] = body]
  /\ UNCHANGED <<localVars, cycleVars, crashes>>

(* query_unsynced: one read transaction; the records are copied out.  An   *)
(* empty answer ends the push at once.                                     *)
BeginPush(c) ==
  /\ pc[c] = "idle"
  /\ unsynced # {}
  /\ pc' = [pc EXCEPT ![c] = "push"]
  /\ batch' = [batch EXCEPT ![c] =
                 [id \in DeviceId |-> IF id \in unsynced THEN events[id] ELSE NoBody]]
  /\ UNCHANGED <<localVars, remote, acked, crashes>>

(* The batch is tried in occurred_at order, each event once.               *)
IsNext(c, id) ==
  /\ pc[c] = "push"
  /\ id \in Held(batch[c])
  /\ \A other \in Held(batch[c]) : OccurredAt[id] <= OccurredAt[other]

RemoteWrite(c, id) == remote' = [remote EXCEPT ![id] = batch[c][id]]

Tried(c, id) ==
  /\ batch' = [batch EXCEPT ![c] = [@ EXCEPT ![id] = NoBody]]
  /\ UNCHANGED <<localVars, pc, crashes>>

PushOk(c, id) ==
  /\ IsNext(c, id)
  /\ RemoteWrite(c, id)
  /\ acked' = [acked EXCEPT ![c] = @ \cup {id}]
  /\ Tried(c, id)

(* The request was applied but its answer was lost: an error to the cycle, *)
(* which skips the event.                                                  *)
PushAnswerLost(c, id) ==
  /\ IsNext(c, id)
  /\ RemoteWrite(c, id)
  /\ UNCHANGED acked
  /\ Tried(c, id)

(* Mutant: a failed request is acknowledged all the same.                  *)
PushFailedAcked(c, id) ==
  /\ IsNext(c, id)
  /\ acked' = [acked EXCEPT ![c] = @ \cup {id}]
  /\ UNCHANGED remote
  /\ Tried(c, id)

PushFailed(c, id) ==
  /\ IsNext(c, id)
  /\ UNCHANGED <<remote, acked>>
  /\ Tried(c, id)

EndOfBatch(c) ==
  /\ pc[c] = "push"
  /\ Held(batch[c]) = {}
  /\ pc' = [pc EXCEPT ![c] = "mark"]
  /\ UNCHANGED <<localVars, remote, batch, acked, crashes>>

(* No event was acknowledged: mark_synced is not called.                   *)
NothingToMark(c) ==
  /\ pc[c] = "mark"
  /\ acked[c] = {}
  /\ pc' = [pc EXCEPT ![c] = "idle"]
  /\ UNCHANGED <<localVars, remote, batch, acked, crashes>>

(* Mutants: synced_at is written but the queue entry stays; the queue      *)
(* entry goes but synced_at is not written; everything queued is marked,   *)
(* not only what was acknowledged.                                         *)
MarkAs(c, marked, removed) ==
  /\ pc[c] = "mark"
  /\ acked[c] # {}
  /\ syncedAt' = syncedAt \cup marked
  /\ unsynced' = unsynced \ removed
  /\ pc' = [pc EXCEPT ![c] = "idle"]
  /\ acked' = [acked EXCEPT ![c] = {}]
  /\ UNCHANGED <<events, remote, batch, crashes>>
MarkSyncedKeepsQueue(c) == MarkAs(c, acked[c], {})
MarkSyncedQueueOnly(c) == MarkAs(c, {}, acked[c])
MarkSyncedAll(c) == MarkAs(c, unsynced, unsynced)

(* mark_synced: one write transaction over both tables; ids that are not   *)
(* in EVENTS get no synced_at.                                             *)
MarkSynced(c) ==
  /\ pc[c] = "mark"
  /\ acked[c] # {}
  /\ syncedAt' = syncedAt \cup (acked[c] \cap Held(events))
  /\ unsynced' = unsynced \ acked[c]
  /\ pc' = [pc EXCEPT ![c] = "idle"]
  /\ acked' = [acked EXCEPT ![c] = {}]
  /\ UNCHANGED <<events, remote, batch, crashes>>

(* The transaction fails: sync returns the error and forgets the batch.    *)
MarkFailed(c) ==
  /\ pc[c] = "mark"
  /\ acked[c] # {}
  /\ pc' = [pc EXCEPT ![c] = "idle"]
  /\ acked' = [acked EXCEPT ![c] = {}]
  /\ UNCHANGED <<localVars, remote, batch, crashes>>

(* The process dies: every running cycle is gone, the tables are not.      *)
Crash ==
  /\ crashes < MaxCrashes
  /\ \E c \in Cycle : pc[c] # "idle"
  /\ crashes' = crashes + 1
  /\ pc' = [c \in Cycle |-> "idle"]
  /\ batch' = [c \in Cycle |-> Nothing]
  /\ acked' = [c \in Cycle |-> {}]
  /\ UNCHANGED <<localVars, remote>>

Next ==
  \/ \E id \in DeviceId, body \in Body : AppendEvent(id, body)
  \/ \E id \in CloudId, body \in Body : CloudAppend(id, body)
  \/ \E c \in Cycle : BeginPush(c)
  \/ \E c \in Cycle, id \in DeviceId : PushOk(c, id)
  \/ \E c \in Cycle, id \in DeviceId : PushAnswerLost(c, id)
  \/ \E c \in Cycle, id \in DeviceId : PushFailed(c, id)
  \/ \E c \in Cycle : EndOfBatch(c)
  \/ \E c \in Cycle : NothingToMark(c)
  \/ \E c \in Cycle : MarkSynced(c)
  \/ \E c \in Cycle : MarkFailed(c)
  \/ Crash

Spec == Init /\ [][Next]_vars

(* sync is called "periodically (e.g. every 30 s)", a started cycle runs   *)
(* on, and a request or a transaction tried again and again does not fail  *)
(* for ever.                                                               *)
Fairness ==
  /\ \A c \in Cycle : /\ WF_vars(BeginPush(c))
                      /\ WF_vars(EndOfBatch(c))
                      /\ WF_vars(NothingToMark(c))
  /\ \A c \in Cycle : SF_vars(MarkSynced(c))
  /\ \A c \in Cycle, id \in DeviceId : SF_vars(PushOk(c, id))

FairSpec == Spec /\ Fairness

------------------------------------------------------------------------------
(* An event the device has logged and will not send again is in the        *)
(* remote log: no failed or unanswered request, lost transaction, crash or *)
(* overlapping cycle makes mark_synced drop an event the remote never got. *)
SyncedIsRemote ==
  Held(events) \ unsynced \subseteq Held(remote)

(* The two tables agree after every transaction: an event is queued        *)
(* exactly when its record carries no synced_at, so query_unsynced and the *)
(* record's own flag never tell different stories.                         *)
TablesAgree ==
  /\ syncedAt \subseteq Held(events)
  /\ unsynced = Held(events) \ syncedAt

(* traits/event.rs: "Append-only - never updated or deleted".  However     *)
(* often an event is pushed again, by an overlapping cycle or after a lost *)
(* answer, no step changes or drops an event the remote log already holds, *)
(* although a remote append is a Firestore PATCH that would replace it.    *)
RemoteAppendOnly ==
  [][\A id \in Held(remote) : remote'[id] = remote[id]]_vars

(* Every event queued for sync is some day taken off the queue.            *)
EventuallySynced ==
  \A id \in DeviceId : (id \in unsynced) ~> (id \notin unsynced)

(* The inductive invariant behind the safety properties: a batch holds     *)
(* copies of local records, a cycle acknowledges only what the remote      *)
(* holds, and the remote copy of a device's event is the local body.       *)
BatchIsLocal ==
  \A c \in Cycle : \A id \in Held(batch[c]) : batch[c][id] = events[id]
AckedIsRemote ==
  \A c \in Cycle : acked[c] \subseteq Held(events) \cap Held(remote)
RemoteIsLocal ==
  \A id \in DeviceId : remote[id] \in {NoBody, events[id]}

IInv ==
  /\ TypeOK
  /\ SyncedIsRemote
  /\ TablesAgree
  /\ BatchIsLocal
  /\ AckedIsRemote
  /\ RemoteIsLocal

(* The engine implements ReliableLog: accepted is the EVENTS table,        *)
(* delivered the remote log, confirmed what is no longer queued.           *)
Promise == INSTANCE ReliableLog WITH
  accepted <- events, delivered <- remote,
  confirmed <- Held(events) \ unsynced

ImplementsReliableLog == Promise!Spec
==============================================================================
