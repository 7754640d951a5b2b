CONSTANTS
  MainResource = main
  SubResources = {sub}
  MaxLoads = 2
  MaxTasks = 2
  WindowLoadOption = {TRUE, FALSE}
  Observed = {TRUE, FALSE}
SPECIFICATION Spec
INVARIANTS
  AnswersInOrder
  KeptTimeoutOnlyWhenFired
  NothingLeftOver
PROPERTIES
  EveryLoadAnswered
\* The system stops after MaxLoads loads.
CHECK_DEADLOCK FALSE
