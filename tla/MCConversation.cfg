SPECIFICATION Spec
CHECK_DEADLOCK FALSE
CONSTANTS
  Nil = Nil
  Moving = {"journey", "bridge", "replay"}
  Envelope = 2
  StateEnvelope = 1
  StateLimits <- MCStateLimits
  CanonicalIdentity <- MCCanonicalIdentity
  Answers <- MCAnswers
  Submissions <- MCSubmissions
  HostLimits <- MCHostLimits
  HistoryLimits <- MCHostLimits
  ApprovalBound = TRUE
  Foreign = Foreign
  UserInputs <- MCUserInputs
  Chunks <- MCChunks
  System <- MCSystem
  MaxItems = 2
  MaxChunks = 2
  MaxMessages = 4
  Scenarios <- MCScenarios
  ResultKinds = {"result"}
  MaxCalls = 2
  MaxMsgs = 9
INVARIANTS
  ConversationTypeOK ContentSurvives  ShownTruly  
