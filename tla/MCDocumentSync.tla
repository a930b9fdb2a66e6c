--------------------------- MODULE MCDocumentSync ---------------------------
(* Small instances of DocumentSync: one document in each of two            *)
(* collections, so that a write can fall between the two queries, and two  *)
(* callers of sync, one on connect and one periodic.                       *)
EXTENDS DocumentSync, TLC

CONSTANTS d1, d2

MCCollections == <<"accounts", "orgs">>
MCCollectionOf == d1 :> 1 @@ d2 :> 2
==============================================================================
