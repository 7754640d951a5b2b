CONSTANTS
  Views = {v1, v2}
  Requests <- MCRequests
  MaxLoads = 3
  DefaultSize = "default"
  PageSizes = {"own"}
  Layout <- MCLayout
SPECIFICATION Spec
INVARIANTS
  AnswerOfOneLoad
  RenderInfoIsLayout
  LoadedAsAsked
\* All requests may have been answered.
CHECK_DEADLOCK FALSE
