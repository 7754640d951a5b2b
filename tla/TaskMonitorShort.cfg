\* The same, for the limit of a task.
SPECIFICATION Spec
CONSTANTS
  Interval = 3
  Lateness = 1
  MaxTime = 14
PROPERTIES
  OnlyLongTasksTerminated
CHECK_DEADLOCK FALSE
