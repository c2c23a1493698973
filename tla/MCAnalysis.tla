------------------------------ MODULE MCAnalysis ------------------------------
(***************************************************************************)
(* A call of four turns: the customer speaks in 1 and 3, the agent in 2    *)
(* (a threat) and 4 (an unproved accusation).  The rule on the accusation  *)
(* is no longer in force and no document supports it.                      *)
(***************************************************************************)
EXTENDS Analysis

MCSpeech == <<{}, {"THREAT_OR_COERCION"}, {}, {"DEBT_DENIAL"}>>

Event(type, turns, ambiguous) ==
  [type |-> type, turns |-> turns, ambiguous |-> ambiguous, quotes |-> FALSE]

(* The dispute is clear to one answer of the model and doubtful to another. *)
MCCandidates ==
  {Event("REPAYMENT_DISPUTE", {1}, FALSE), Event("REPAYMENT_DISPUTE", {1}, TRUE),
   Event("THREAT_OR_COERCION", {2}, FALSE), Event("DEBT_DENIAL", {3}, FALSE),
   [Event("THREAT_OR_COERCION", {4}, FALSE) EXCEPT !.quotes = TRUE]}

Of(dispute, threat, denial) ==
  [t \in {"REPAYMENT_DISPUTE", "THREAT_OR_COERCION", "DEBT_DENIAL"} |->
     CASE t = "REPAYMENT_DISPUTE" -> dispute [] t = "THREAT_OR_COERCION" -> threat
       [] t = "DEBT_DENIAL" -> denial]

MCRuleOf    == Of("R006", "R002", "R003")
MCRuleTypes == [r \in {"R002", "R003", "R006"} |->
                  {t \in DOMAIN MCRuleOf : MCRuleOf[t] = r}]
MCPenalty   == [r \in {"R002", "R003", "R006"} |->
                  CASE r = "R002" -> 60 [] r = "R003" -> 20 [] r = "R006" -> 50]

(* policy supports the rule on disputes, manual is a document beside it.   *)
MCDocType == [d \in {"policy", "manual", "threats"} |->
                IF d = "threats" THEN "THREAT_OR_COERCION" ELSE "REPAYMENT_DISPUTE"]
MCRelated == [d \in {"policy", "manual", "threats"} |->
                CASE d = "policy" -> {"R006"} [] d = "manual" -> {} [] d = "threats" -> {"R002"}]

MCResources == <<"crm-summary", "dispute-tickets">>
=============================================================================
