\* The exceptions that a service throws, for the retrieval of an interface.
SPECIFICATION Spec
CONSTANTS
  Sources <- MCSources
  Documents <- MCDocuments
  Distance <- MCDistance
  Uuid <- MCUuid
  Limits <- MCLimits
  Selections <- MCSelections
  ModelRules <- MCModelRules
  ModelScenarios <- MCModelScenarios
  ModelCases <- MCModelCases
  MaxVectors = 0
INVARIANTS
  ServiceErrorsSelected
CHECK_DEADLOCK FALSE
