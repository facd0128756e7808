SPECIFICATION ReplaySpec
CONSTANTS
  None = None
  v1 = v1
  v2 = v2
  Entities = {0, 1, 2}
  Values = {v1, v2}
  Keys = {1, 2, 3, 4}
  MaxRevision = 4
  Steps = 3
INVARIANTS
  StateFollowsHistory
  AnswersAgree
  ReplayFollowsTrace
  ReplayNeverRaises
PROPERTIES
  CarriesOutLog
