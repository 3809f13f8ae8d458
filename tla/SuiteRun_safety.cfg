\* Two saves, one edit of another row, two requests for a run.
SPECIFICATION Spec
CONSTANTS
  Library <- MCLibrary
  SuitePayloads <- MCSuites
  Environments <- MCEnvironments
  FirstEnvironment <- MCFirst
  FirstVariables <- MCVariables
  VariableEdits <- MCEdits
  Responses <- MCResponses
  NetworkErrors = {"timeout"}
  Json <- MCJson
  AskedPaths <- MCPaths
  AskedScalars <- MCScalars
  Requests = {q1, q2}
  Confirmations = {"h1"}
  NoHost = "none"
  MaxSaves = 2
  MaxEdits = 1
SYMMETRY RequestSymmetry
INVARIANTS
  TypeOK
  SuiteIsSound
  RunIsOneSuite
  MissingIsUpstream
  OneTarget
  UsedIsExtracted
  OverrideKeepsRest
  ChecksAgree
CHECK_DEADLOCK FALSE
