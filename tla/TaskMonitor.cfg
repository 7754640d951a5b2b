\* A period of three ticks, a worker that is up to one tick late.
SPECIFICATION Spec
CONSTANTS
  Interval = 3
  Lateness = 1
  MaxTime = 14
INVARIANTS
  LongScriptEnds
PROPERTIES
  TimerDestroyed
CHECK_DEADLOCK FALSE
