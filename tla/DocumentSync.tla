--------------------------- MODULE DocumentSync ----------------------------
(***************************************************************************)
(* The pull half of the sync engine (runway-storage, local/sync.rs): a     *)
(* cycle loads the checkpoint, queries each collection of the remote       *)
(* document store for what changed since, overwrites the local copies one  *)
(* by one, and after a fully successful pull saves the time at which it    *)
(* had put the last of them as the new checkpoint.  sync takes &self and   *)
(* no lock, so cycles overlap.  Any request can fail and the process can   *)
(* crash between two steps; other clients keep writing the remote store    *)
(* meanwhile.                                                              *)
(*                                                                         *)
(* Time is counted in remote writes: a write happens at time clock + 1 and *)
(* its time identifies both its updated_at and its content.                *)
(***************************************************************************)
EXTENDS Naturals, Sequences

CONSTANTS
  Collections,   \* SyncEngine.collections, a sequence of collection names
  Doc,           \* the documents of all collections
  CollectionOf,  \* [Doc -> 1 .. Len(Collections)]
  Caller,         \* the callers of sync, whose cycles can overlap
  Periodic,      \* those that call it again and again
  Backend,       \* the remote kit's document store: "redb" or "firestore"
  Edited,        \* local content last written by the local application
  Never,         \* no checkpoint
  MaxWrites      \* bound: remote writes in a behaviour

ASSUME DocumentAssumption ==
  /\ Collections \in Seq(STRING) /\ Len(Collections) > 0
  /\ CollectionOf \in [Doc -> 1 .. Len(Collections)]
  /\ Periodic \subseteq Caller
  /\ Backend \in {"redb", "firestore"}
  /\ Edited \notin Nat /\ Never \notin Nat
  /\ MaxWrites \in Nat

VARIABLES
  clock,       \* remote writes so far
  cloud,       \* [Doc -> time of its last write, 0 if it does not exist]
  local,       \* [Doc -> the write it was copied from, 0, or Edited]
  checkpoint,  \* "sync/checkpoint.json": Never or a time
  pull,        \* [Caller -> where the cycle is]
  since,       \* [Caller -> the checkpoint it loaded]
  col,         \* [Caller -> the collection it is at]
  fetched,     \* [Caller -> query results not yet put: [Doc -> time or 0]]
  now,         \* [Caller -> the time it will save]
  raced,       \* history: documents last written behind the back of a cycle,
               \* after the query that should have returned them
  overlapped   \* history: running cycles that ran together with another

stores == <<clock, cloud, local, checkpoint>>
cycles == <<pull, since, col, fetched, now>>
pullVars == <<clock, cloud, local, checkpoint, pull, since, col, fetched, now, raced, overlapped>>

NoDocs == [d \in Doc |-> 0]

PullTypes ==
  /\ clock \in 0 .. MaxWrites
  /\ cloud \in [Doc -> 0 .. clock]
  /\ local \in [Doc -> 0 .. clock \cup {Edited}]
  /\ checkpoint \in 0 .. clock \cup {Never}
  /\ pull \in [Caller -> {"idle", "query", "put", "save"}]
  /\ since \in [Caller -> 0 .. clock \cup {Never}]
  /\ col \in [Caller -> 1 .. Len(Collections)]
  /\ fetched \in [Caller -> [Doc -> 0 .. clock]]
  /\ now \in [Caller -> 0 .. clock]
  /\ raced \subseteq Doc /\ overlapped \subseteq Caller

PullInit ==
  /\ clock = 0
  /\ cloud = NoDocs
  /\ local = NoDocs
  /\ checkpoint = Never
  /\ pull = [c \in Caller |-> "idle"]
  /\ since = [c \in Caller |-> Never]
  /\ col = [c \in Caller |-> 1]
  /\ fetched = [c \in Caller |-> NoDocs]
  /\ now = [c \in Caller |-> 0]
  /\ raced = {}
  /\ overlapped = {}

------------------------------------------------------------------------------
(* The running cycle c has queried the collection of d, and has not yet    *)
(* taken the time it will save.                                            *)
AlreadyQueried(c, d) ==
  \/ pull[c] = "query" /\ CollectionOf[d] < col[c]
  \/ pull[c] = "put" /\ CollectionOf[d] <= col[c]

Race(d) == IF \E c \in Caller : AlreadyQueried(c, d) THEN raced \cup {d} ELSE raced \ {d}

(* Mutant: updated_at is what the caller passes, whose clock may be wrong. *)
RemotePutUnstamped(d) ==
  /\ clock < MaxWrites
  /\ clock' = clock + 1
  /\ \E t \in 1 .. MaxWrites : cloud' = [cloud EXCEPT ![d] = t]
  /\ raced' = Race(d)
  /\ UNCHANGED <<local, checkpoint, cycles, overlapped>>

(* Some other client writes or deletes a remote document.                  *)
RemotePut(d) ==
  /\ clock < MaxWrites
  /\ clock' = clock + 1
  /\ cloud' = [cloud EXCEPT ![d] = clock + 1]
  /\ raced' = Race(d)
  /\ UNCHANGED <<local, checkpoint, cycles, overlapped>>

RemoteDelete(d) ==
  /\ cloud[d] # 0
  /\ cloud' = [cloud EXCEPT ![d] = 0]
  /\ UNCHANGED <<clock, local, checkpoint, cycles, raced, overlapped>>

(* The local application puts or deletes its own copy.                     *)
LocalWrite(d) ==
  /\ local' = [local EXCEPT ![d] = Edited]
  /\ UNCHANGED <<clock, cloud, checkpoint, cycles, raced, overlapped>>

(* Mutant: the first change after the checkpoint is excluded.              *)
ChangedAfterNext(d, ts) ==
  \/ ts = Never
  \/ Backend = "redb" /\ cloud[d] > ts + 1

(* Query::updated_after(ts).  redb compares the document's updated_at,     *)
(* strictly.  The Firestore query compares a field named updated_at, which *)
(* put does not write (it stamps the Document, then sends only doc.data,   *)
(* and to_firestore_value never yields a timestampValue): nothing matches. *)
ChangedAfter(d, ts) ==
  \/ ts = Never
  \/ Backend = "redb" /\ cloud[d] > ts

QueryResult(k, ts) ==
  [d \in Doc |-> IF CollectionOf[d] = k /\ ChangedAfter(d, ts) THEN cloud[d] ELSE 0]

(* The cycle is over, and with it what it held.                            *)
Ended(c) ==
  /\ pull' = [pull EXCEPT ![c] = "idle"]
  /\ since' = [since EXCEPT ![c] = Never]
  /\ col' = [col EXCEPT ![c] = 1]
  /\ fetched' = [fetched EXCEPT ![c] = NoDocs]
  /\ now' = [now EXCEPT ![c] = 0]
  /\ overlapped' = overlapped \ {c}

Running(c) == {o \in Caller \ {c} : pull[o] # "idle"}

BeginPull(c) ==
  /\ pull[c] = "idle"
  /\ pull' = [pull EXCEPT ![c] = "query"]
  /\ since' = [since EXCEPT ![c] = checkpoint]
  /\ col' = [col EXCEPT ![c] = 1]
  /\ overlapped' = IF Running(c) = {} THEN overlapped ELSE overlapped \cup {c} \cup Running(c)
  /\ UNCHANGED <<stores, fetched, now, raced>>

(* What follows when rest is left of the batch: its next document, or the  *)
(* next collection, or, after the last one, the time that will be saved.   *)
Proceed(c, rest) ==
  IF rest # NoDocs
  THEN pull' = [pull EXCEPT ![c] = "put"] /\ UNCHANGED <<col, now>>
  ELSE IF col[c] < Len(Collections)
  THEN /\ pull' = [pull EXCEPT ![c] = "query"]
       /\ col' = [col EXCEPT ![c] = col[c] + 1]
       /\ UNCHANGED now
  ELSE /\ pull' = [pull EXCEPT ![c] = "save"]
       /\ now' = [now EXCEPT ![c] = clock]
       /\ UNCHANGED col

QueryCollection(c) ==
  /\ pull[c] = "query"
  /\ LET answer == QueryResult(col[c], since[c]) IN
     fetched' = [fetched EXCEPT ![c] = answer] /\ Proceed(c, answer)
  /\ UNCHANGED <<stores, since, raced, overlapped>>

(* The local copy is overwritten whatever it holds: "remote wins".         *)
PutDocument(c, d) ==
  /\ pull[c] = "put"
  /\ fetched[c][d] # 0
  /\ local' = [local EXCEPT ![d] = fetched[c][d]]
  /\ LET rest == [fetched[c] EXCEPT ![d] = 0] IN
     fetched' = [fetched EXCEPT ![c] = rest] /\ Proceed(c, rest)
  /\ UNCHANGED <<clock, cloud, checkpoint, since, raced, overlapped>>

SaveCheckpoint(c) ==
  /\ pull[c] = "save"
  /\ checkpoint' = now[c]
  /\ Ended(c)
  /\ UNCHANGED <<clock, cloud, local, raced>>

(* Mutant: a failed pull saves the checkpoint too.                         *)
AbortSaves(c) ==
  /\ pull[c] # "idle"
  /\ checkpoint' = clock
  /\ Ended(c)
  /\ UNCHANGED <<clock, cloud, local, raced>>

(* A failed query, put or save returns the error, and a crash ends every   *)
(* cycle of the process: what a cycle had put stays put.                   *)
Abort(c) ==
  /\ pull[c] # "idle"
  /\ Ended(c)
  /\ UNCHANGED <<stores, raced>>

PullNext ==
  \/ \E d \in Doc : RemotePut(d)
  \/ \E d \in Doc : RemoteDelete(d)
  \/ \E d \in Doc : LocalWrite(d)
  \/ \E c \in Caller : BeginPull(c)
  \/ \E c \in Caller : QueryCollection(c)
  \/ \E c \in Caller, d \in Doc : PutDocument(c, d)
  \/ \E c \in Caller : SaveCheckpoint(c)
  \/ \E c \in Caller : Abort(c)

PullSpec == PullInit /\ [][PullNext]_pullVars

(* The periodic callers call sync again and again, and no step of theirs   *)
(* fails, or is cut short by a crash, every time it is tried.              *)
PullFairness ==
  \A c \in Periodic :
    /\ WF_pullVars(BeginPull(c))
    /\ \A k \in 1 .. Len(Collections) : SF_pullVars(col[c] = k /\ QueryCollection(c))
    /\ \A d \in Doc : SF_pullVars(PutDocument(c, d))
    /\ SF_pullVars(SaveCheckpoint(c))

PullFairSpec == PullSpec /\ PullFairness

------------------------------------------------------------------------------
Current(d) == local[d] \in {cloud[d], Edited}

(* A pull will still look at d: it changed after the checkpoint.           *)
Pending(d) == checkpoint = Never \/ cloud[d] > checkpoint

(* The same for every document not written behind the back of a running    *)
(* cycle: failed queries and puts, crashes, half-done and overlapping      *)
(* cycles lose nothing; only a write that races a pull can be lost.        *)
MissedOnlyIfRaced ==
  \A d \in Doc \ raced : cloud[d] # 0 => Current(d) \/ Pending(d)

(* A local copy that came from a pull is replaced by an older remote       *)
(* version only by a cycle that ran together with another one, and only if *)
(* the document was written behind the back of a cycle: the older answer   *)
(* is then put last.                                                       *)
NeverRegresses ==
  [][\A d \in Doc :
       local[d] # Edited /\ local'[d] # Edited /\ local'[d] < local[d] =>
         d \in raced /\ \E c \in overlapped : fetched[c][d] = local'[d]]_pullVars

(* A document written while no pull can miss it reaches the local store,   *)
(* unless the application edits its own copy, or the remote one is deleted *)
(* or written again behind the back of a pull.                             *)
UpdatesArrive ==
  \A d \in Doc :
    (cloud[d] # 0 /\ d \notin raced) ~> (Current(d) \/ cloud[d] = 0 \/ d \in raced)

(* The inductive invariant behind MissedOnlyIfRaced: a document that is    *)
(* not up to date changed after every time that is, or will be, the        *)
(* checkpoint or a cycle's own; and every document a cycle has queried     *)
(* and that was not written since is in its batch or up to date.           *)
After(d, time) == time = Never \/ cloud[d] > time

BehindIsAhead ==
  \A d \in Doc \ raced : cloud[d] # 0 /\ ~Current(d) =>
    /\ After(d, checkpoint)
    /\ \A c \in Caller : /\ pull[c] # "idle" => After(d, since[c])
                         /\ pull[c] = "save" => After(d, now[c])

QueriedIsHandled ==
  \A c \in Caller, d \in Doc \ raced :
    cloud[d] # 0 /\ AlreadyQueried(c, d) => Current(d) \/ fetched[c][d] = cloud[d]

BatchIsOfCollection ==
  \A c \in Caller, d \in Doc : fetched[c][d] # 0 => pull[c] = "put" /\ CollectionOf[d] = col[c]

BatchIsFresh ==
  \A c \in Caller, d \in Doc \ raced : fetched[c][d] # 0 /\ cloud[d] # 0 => fetched[c][d] = cloud[d]

PullInv ==
  /\ PullTypes
  /\ BehindIsAhead
  /\ QueriedIsHandled
  /\ BatchIsOfCollection
  /\ BatchIsFresh

(* The invariant behind NeverRegresses.                                    *)
RunsAlone ==
  \A c \in Caller \ overlapped : pull[c] # "idle" => Running(c) = {}

NotOlder(d, time) == local[d] = Edited \/ local[d] <= time

CloudIsLatest ==
  \A d \in Doc : cloud[d] # 0 =>
    NotOlder(d, cloud[d]) /\ \A c \in Caller : fetched[c][d] <= cloud[d]

BatchesAgree ==
  \A d \in Doc \ raced, c \in Caller : fetched[c][d] # 0 =>
    /\ NotOlder(d, fetched[c][d])
    /\ \A o \in Caller : fetched[o][d] \in {0, fetched[c][d]}

AloneIsNewer ==
  \A c \in Caller \ overlapped, d \in Doc : fetched[c][d] # 0 => NotOlder(d, fetched[c][d])

CopyInv ==
  /\ PullTypes /\ BatchIsOfCollection /\ BatchIsFresh
  /\ RunsAlone /\ CloudIsLatest /\ BatchesAgree /\ AloneIsNewer
==============================================================================
