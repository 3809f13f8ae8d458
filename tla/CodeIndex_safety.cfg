\* Three sources with four documents, at most two vectors, one run.
SPECIFICATION Spec
CONSTANTS
  Sources <- MCSources
  Documents <- MCDocuments
  Distance <- MCDistance
  Uuid <- MCUuid
  Limits <- MCLimits
  Selections <- MCSelections
  ModelRules <- MCModelRules
  ModelScenarios <- MCModelScenarios
  ModelCases <- MCModelCases
  MaxVectors = 2
INVARIANTS
  TypeOK
  IndexIsSound
  ExpansionIsTwoHops
  ContextIsRanked
  DraftsAreGrounded
CHECK_DEADLOCK FALSE
