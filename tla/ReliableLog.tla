----------------------------- MODULE ReliableLog -----------------------------
(***************************************************************************)
(* What the event half of the sync engine promises, with no cycles,        *)
(* tables or failures in it: an event is accepted once and never changes,  *)
(* reaches the cloud at least once with the body that was accepted, and is *)
(* confirmed (marked synced) only when the cloud has it.  Events written   *)
(* by the cloud service itself appear in the cloud log directly.           *)
(***************************************************************************)
CONSTANTS DeviceId, CloudId, Body, NoBody

VARIABLES accepted,   \* [DeviceId -> Body or NoBody]: what the device logged
          delivered,  \* [all ids -> Body or NoBody]: what the cloud log holds
          confirmed   \* ids the device no longer intends to send

vars == <<accepted, delivered, confirmed>>

Init ==
  /\ accepted = [id \in DeviceId |-> NoBody]
  /\ delivered = [id \in DeviceId \cup CloudId |-> NoBody]
  /\ confirmed = {}

Accept(id, body) ==
  /\ accepted[id] = NoBody
  /\ accepted' = [accepted EXCEPT ![id] = body]
  /\ UNCHANGED <<delivered, confirmed>>

Deliver(id) ==
  /\ accepted[id] # NoBody
  /\ delivered' = [delivered EXCEPT ![id] = accepted[id]]
  /\ UNCHANGED <<accepted, confirmed>>

CloudWrite(id, body) ==
  /\ delivered[id] = NoBody
  /\ delivered' = [delivered EXCEPT ![id] = body]
  /\ UNCHANGED <<accepted, confirmed>>

Confirm(ids) ==
  /\ \A id \in ids : accepted[id] # NoBody /\ delivered[id] # NoBody
  /\ confirmed' = confirmed \cup ids
  /\ UNCHANGED <<accepted, delivered>>

Next ==
  \/ \E id \in DeviceId, body \in Body : Accept(id, body)
  \/ \E id \in DeviceId : Deliver(id)
  \/ \E id \in CloudId, body \in Body : CloudWrite(id, body)
  \/ \E ids \in SUBSET DeviceId : Confirm(ids)

Spec == Init /\ [][Next]_vars
==============================================================================
