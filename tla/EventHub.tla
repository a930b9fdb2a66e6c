------------------------------ MODULE EventHub ------------------------------
(***************************************************************************)
(* The realtime hub of an app host (runway-app-host, realtime.rs, sse.rs,  *)
(* approvals.rs): publishers append an envelope to a bounded replay buffer *)
(* under a mutex and then, in a second step, send it on a tokio broadcast  *)
(* channel; subscribers attach to the channel first and snapshot the       *)
(* buffer second, filtered by a cursor.                                    *)
(*                                                                         *)
(* Application modules number their events, and publish them, in stream    *)
(* order; the approval routes publish with sequence 0.                     *)
(***************************************************************************)
EXTENDS Naturals, Sequences

CONSTANTS
  Event,       \* envelopes, by event_id; each is published at most once
  Approval,    \* those built by approvals.rs
  SeqOf,       \* [Event -> Nat], the sequence field
  Publisher,   \* concurrent callers of publish
  Subscriber,  \* clients
  Filter,      \* the events a run_id / job_id filter can select: sets of events
  Capacity,    \* with_capacity(capacity)
  Ring,        \* slots of the broadcast channel
  None         \* no event, no sequence

Cursor == [last : {SeqOf[e] : e \in Event} \cup {None}, wanted : Filter]

ASSUME HubAssumption ==
  /\ Approval \subseteq Event
  /\ SeqOf \in [Event -> Nat]
  /\ \A e \in Approval : SeqOf[e] = 0
  /\ Filter \subseteq SUBSET Event
  /\ Capacity \in Nat /\ Ring \in Nat \ {0}
  /\ None \notin Event /\ None \notin Nat /\ None \notin Cursor

VARIABLES
  replay,    \* the replay buffer, oldest first
  sent,      \* everything sent on the channel so far
  sending,   \* [Publisher -> the event it has buffered and not yet sent]
  phase,        \* [Subscriber -> off, attached (to the channel), on]
  cursor,    \* [Subscriber -> its EventCursor]
  pos,       \* [Subscriber -> index in sent of its receiver]
  consumed,  \* [Subscriber -> events it was given, over all connections]
  pushed,    \* history: events buffered so far
  evicted,   \* history: events dropped from the buffer
  gone,      \* history: [Subscriber -> evicted before its snapshot]
  lagged     \* history: [Subscriber -> overwritten in the channel unread]

hub == <<replay, sent, sending, pushed, evicted>>
hubVars == <<replay, sent, sending, phase, cursor, pos, consumed, pushed, evicted,
          gone, lagged>>

Elements(seq) == {seq[i] : i \in DOMAIN seq}

HubTypes ==
  /\ replay \in Seq(Event)
  /\ sent \in Seq(Event)
  /\ sending \in [Publisher -> Event \cup {None}]
  /\ phase \in [Subscriber -> {"off", "attached", "on"}]
  /\ cursor \in [Subscriber -> Cursor \cup {None}]
  /\ \A s \in Subscriber : phase[s] # "off" => cursor[s] \in Cursor
  /\ pos \in [Subscriber -> Nat \ {0}]
  /\ consumed \in [Subscriber -> SUBSET Event]
  /\ pushed \subseteq Event
  /\ evicted \subseteq Event
  /\ gone \in [Subscriber -> SUBSET Event]
  /\ lagged \in [Subscriber -> SUBSET Event]

HubInit ==
  /\ replay = << >>
  /\ sent = << >>
  /\ sending = [p \in Publisher |-> None]
  /\ phase = [s \in Subscriber |-> "off"]
  /\ cursor = [s \in Subscriber |-> None]
  /\ pos = [s \in Subscriber |-> 1]
  /\ consumed = [s \in Subscriber |-> {}]
  /\ pushed = {}
  /\ evicted = {}
  /\ gone = [s \in Subscriber |-> {}]
  /\ lagged = [s \in Subscriber |-> {}]

------------------------------------------------------------------------------
(* publish, under the lock: evict the oldest when full, append.            *)
Buffer(p, e) ==
  LET full == Len(replay) >= Capacity
      kept == IF full THEN SubSeq(replay, 2, Len(replay)) ELSE replay
  IN  /\ sending[p] = None
      /\ e \notin pushed
      /\ e \notin Approval => \A f \in pushed \ Approval : SeqOf[f] < SeqOf[e]
      /\ replay' = Append(kept, e)
      /\ evicted' = IF full /\ replay # << >> THEN evicted \cup {replay[1]} ELSE evicted
      /\ pushed' = pushed \cup {e}
      /\ sending' = [sending EXCEPT ![p] = e]
      /\ UNCHANGED <<sent, phase, cursor, pos, consumed, gone, lagged>>

(* publish, after the lock is released: send on the channel.  With no      *)
(* receiver the send fails and nobody is behind.                           *)
Send(p) ==
  /\ sending[p] # None
  /\ sent' = Append(sent, sending[p])
  /\ sending' = [sending EXCEPT ![p] = None]
  /\ UNCHANGED <<replay, phase, cursor, pos, consumed, pushed, evicted, gone, lagged>>

(* Mutant: the cursor is taken for the first sequence wanted plus one.     *)
MatchesLater(e, c) ==
  /\ c.last = None \/ SeqOf[e] > c.last + 1
  /\ e \in c.wanted

(* matches_cursor: newer than the last consumed sequence and selected by   *)
(* the run_id and job_id filters.                                          *)
Matches(e, c) ==
  /\ c.last = None \/ SeqOf[e] > c.last
  /\ e \in c.wanted

(* A client that consumed something remembers the highest sequence.        *)
IsLast(s, n) ==
  /\ \E e \in consumed[s] : SeqOf[e] = n
  /\ \A e \in consumed[s] : SeqOf[e] <= n

(* subscribe_with_cursor, first half: attach to the channel's tail.  A     *)
(* client that comes back asks for what it asked for before.               *)
Attach(s, c) ==
  /\ phase[s] = "off"
  /\ c.last = None \/ IsLast(s, c.last)
  /\ cursor[s] # None => c.wanted = cursor[s].wanted
  /\ phase' = [phase EXCEPT ![s] = "attached"]
  /\ cursor' = [cursor EXCEPT ![s] = c]
  /\ pos' = [pos EXCEPT ![s] = Len(sent) + 1]
  /\ UNCHANGED <<hub, consumed, gone, lagged>>

(* Mutant: only a client with a last sequence gets a replay.               *)
SnapshotAfterLast(s) ==
  /\ phase[s] = "attached"
  /\ phase' = [phase EXCEPT ![s] = "on"]
  /\ consumed' = [consumed EXCEPT ![s] =
                    @ \cup {e \in Elements(replay) : cursor[s].last # None /\ Matches(e, cursor[s])}]
  /\ gone' = [gone EXCEPT ![s] = evicted]
  /\ UNCHANGED <<hub, cursor, pos, lagged>>

(* subscribe_with_cursor, second half: copy the matching part of the       *)
(* buffer under the lock and hand both to the caller.                      *)
Snapshot(s) ==
  /\ phase[s] = "attached"
  /\ phase' = [phase EXCEPT ![s] = "on"]
  /\ consumed' = [consumed EXCEPT ![s] =
                    @ \cup {e \in Elements(replay) : Matches(e, cursor[s])}]
  /\ gone' = [gone EXCEPT ![s] = evicted]
  /\ UNCHANGED <<hub, cursor, pos, lagged>>

(* The receiver yields the next event, or an error that skips everything   *)
(* the channel has overwritten.                                            *)
Behind(s) == Len(sent) + 1 - pos[s]

Receive(s) ==
  /\ phase[s] = "on"
  /\ Behind(s) \in 1 .. Ring
  /\ consumed' = [consumed EXCEPT ![s] = @ \cup {sent[pos[s]]}]
  /\ pos' = [pos EXCEPT ![s] = @ + 1]
  /\ UNCHANGED <<hub, phase, cursor, gone, lagged>>

(* Mutant: the skipped events are not reported.                            *)
LaggedSilently(s) ==
  /\ phase[s] = "on"
  /\ Behind(s) > Ring
  /\ pos' = [pos EXCEPT ![s] = Len(sent) - Ring + 1]
  /\ UNCHANGED <<hub, phase, cursor, consumed, gone, lagged>>

Lagged(s) ==
  /\ phase[s] = "on"
  /\ Behind(s) > Ring
  /\ lagged' = [lagged EXCEPT ![s] =
                  @ \cup {sent[i] : i \in pos[s] .. Len(sent) - Ring}]
  /\ pos' = [pos EXCEPT ![s] = Len(sent) - Ring + 1]
  /\ UNCHANGED <<hub, phase, cursor, consumed, gone>>

Disconnect(s) ==
  /\ phase[s] = "on"
  /\ phase' = [phase EXCEPT ![s] = "off"]
  /\ UNCHANGED <<hub, cursor, pos, consumed, gone, lagged>>

HubNext ==
  \/ \E p \in Publisher, e \in Event : Buffer(p, e)
  \/ \E p \in Publisher : Send(p)
  \/ \E s \in Subscriber, c \in Cursor : Attach(s, c)
  \/ \E s \in Subscriber : Snapshot(s)
  \/ \E s \in Subscriber : Receive(s)
  \/ \E s \in Subscriber : Lagged(s)
  \/ \E s \in Subscriber : Disconnect(s)

HubSpec == HubInit /\ [][HubNext]_hubVars

(* A started call runs on, and a connected client keeps reading.           *)
HubFairness ==
  /\ \A p \in Publisher : WF_hubVars(Send(p))
  /\ \A s \in Subscriber : WF_hubVars(Snapshot(s)) /\ WF_hubVars(Receive(s)) /\ WF_hubVars(Lagged(s))

FairHubSpec == HubSpec /\ HubFairness

------------------------------------------------------------------------------
InFlight(e) == \E p \in Publisher : sending[p] = e
Waiting(s, e) == \E i \in pos[s] .. Len(sent) : sent[i] = e
Accounted(s, e) == e \in consumed[s] \/ InFlight(e) \/ Waiting(s, e)

(* "Subscribe to the live channel first so we don't miss events": an event *)
(* that matches the cursor, was still buffered at the snapshot or came     *)
(* later, and was not skipped by lag has been given to the client or is on *)
(* its way to it; none falls between the snapshot and the live stream.     *)
NoMiss ==
  \A s \in Subscriber : phase[s] = "on" =>
    \A e \in pushed \ (gone[s] \cup lagged[s]) :
      Matches(e, cursor[s]) => Accounted(s, e)

Numbered == {e \in Event \ Approval : SeqOf[e] > 0}

SentInOrder ==
  \A i, j \in DOMAIN sent :
    i < j /\ {sent[i], sent[j]} \subseteq Numbered => SeqOf[sent[i]] < SeqOf[sent[j]]

(* EventCursor is "a point in the event stream. Used for SSE catch-up": a  *)
(* client that reconnects with the last sequence it consumed gets every    *)
(* event with a sequence of its own that it has not seen and that is still *)
(* buffered, unless one send overtook another.                             *)
CatchUpComplete ==
  SentInOrder =>
    \A s \in Subscriber : phase[s] = "on" =>
      \A e \in (pushed \ (gone[s] \cup lagged[s])) \cap Numbered \cap cursor[s].wanted :
        Accounted(s, e)

(* A connected client that keeps reading is given every event published    *)
(* from then on, or is told by a lag error that it was skipped.            *)
EventuallyGiven ==
  \A s \in Subscriber, e \in Event :
    (phase[s] = "on" /\ InFlight(e)) ~> (e \in consumed[s] \cup lagged[s] \/ phase[s] = "off")

(* The inductive invariant: every event published is buffered or evicted,  *)
(* and no receiver is past the end of the channel.                         *)
BufferedOrEvicted == pushed \subseteq Elements(replay) \cup evicted
PositionInChannel == \A s \in Subscriber : pos[s] <= Len(sent) + 1

HubInv ==
  /\ HubTypes
  /\ BufferedOrEvicted
  /\ PositionInChannel
  /\ NoMiss
==============================================================================
