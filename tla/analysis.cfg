CONSTANTS
  Turns = {1, 2, 3, 4}
  AgentTurns = {2, 4}
  Types = {"REPAYMENT_DISPUTE", "THREAT_OR_COERCION", "DEBT_DENIAL"}
  Rules = {"R002", "R003", "R006"}
  ActiveRules = {"R002", "R006"}
  RuleTypes <- MCRuleTypes
  Penalty <- MCPenalty
  Documents = {"policy", "manual", "threats"}
  ActiveDocs = {"policy", "manual", "threats"}
  DocType <- MCDocType
  RelatedRules <- MCRelated
  Speech <- MCSpeech
  Candidates <- MCCandidates
  MaxEvents = 2
  RuleOf <- MCRuleOf
  Resources <- MCResources
  Tickets = 2
  ModelReplies = {"rate_limited", "invalid", "denied", "good"}
  ServiceReplies = {"timeout", "good"}
  MaxIterations = 3
  MaxToolCalls = 2
  NoReport = NoReport
SPECIFICATION Spec
INVARIANTS CompletedIsSound CompletedIsComplete RetryableOnlyAfterRetry LoopWithinBudget
PROPERTIES AnalysisEnds
CHECK_DEADLOCK FALSE
