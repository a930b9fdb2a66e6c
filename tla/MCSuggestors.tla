---------------------------- MODULE MCSuggestors ----------------------------
(* Two agents of llm kind, "plan" and "note", two provider agents, "plan-deep" and  *)
(* "replan", whose ids begin with or hold "plan-", and the two agents of the          *)
(* application; four write hypotheses.  The router has no provider for one role.       *)
EXTENDS Suggestors

MCKind == [plan |-> "llm", note |-> "llm", deep |-> "provider", replan |-> "provider",
           insight |-> "strategic", risk |-> "risk"]
MCAgent == DOMAIN MCKind
MCName == [a \in MCAgent |-> CASE a = "deep" -> <<"plan", "-", "deep">>
                               [] a = "replan" -> <<"re", "plan">>
                               [] OTHER -> <<a>>]
MCTarget == [a \in MCAgent |-> IF a = "note" THEN "Diagnostic" ELSE "Hypotheses"]
MCNeeds == [a \in MCAgent |-> {"Seeds", "Strategies"}]
MCPrefix == MCName
MCParser == [a \in MCAgent |-> IF a = "deep" THEN "simple" ELSE "lines"]
MCRole == [a \in MCAgent |-> IF a = "risk" THEN "DeepAnalysis" ELSE "FastAnalysis"]
MCUsable == {{}, {1, 3}}
=============================================================================
