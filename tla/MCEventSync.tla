---------------------------- MODULE MCEventSync ----------------------------
(* Small instances of EventSync.                                           *)
EXTENDS EventSync, TLC

CONSTANTS e1, e2, c1

(* e1 happened before e2; both orders of trying them are covered by the    *)
(* choice of which one the application logs.                               *)
MCOccurredAt == e1 :> 1 @@ e2 :> 2
============================================================================
