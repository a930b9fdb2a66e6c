----------------------------- MODULE MCEventHub -----------------------------
(* Small instances of EventHub: three module events and one approval.       *)
EXTENDS EventHub, TLC

CONSTANTS e1, e2, e3, a1

MCSeqOf == e1 :> 1 @@ e2 :> 2 @@ e3 :> 3 @@ a1 :> 0
MCFilter == {Event, Event \ {e2}}
==============================================================================
