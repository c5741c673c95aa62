SPECIFICATION Spec
CONSTANTS
  None = None
  NoRoute = NoRoute
  IsInstruction <- MCIsInstruction
  Removed = Removed
  EvidenceTokens <- MCEvidenceTokens
  SchemaTokens = 1
  MaxSourceAge = 14
  Writers = {"w1", "w2"}
  JobsOf <- MCJobsOf
  InitialRecords <- MCInitialRecords
  RequestOf <- MCRequestOf
  After <- MCAfter
  Registry <- MCRegistry
  Prices <- MCPrices
  Routes <- MCRoutes
  Policy <- MCPolicy
  PromptTokens = 1000
  OutputTokens = 1000
  Answers <- MCAnswers
  MaxCrashes = 1
  Mortal = {"w1", "w2"}
  MaxLost = 1
  Lossy = {"risk_portfolio"}
  MaxMinutes = 1
CHECK_DEADLOCK FALSE
INVARIANTS DecisionsRespectRisk AnswersFitTheirBundle SpendIsBounded ReportsHold
PROPERTY FutureEvidenceIsInert
