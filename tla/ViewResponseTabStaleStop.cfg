CONSTANTS
  MainResource = main
  SubResources = {sub}
  MaxLoads = 2
  MaxTasks = 2
  WindowLoadOption = {TRUE, FALSE}
  Observed = {TRUE}
SPECIFICATION Spec
INVARIANTS
  TimeoutOnlyWhenFired
\* The system stops after MaxLoads loads.
CHECK_DEADLOCK FALSE
