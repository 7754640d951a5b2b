CONSTANTS
  MaxShells = 2
  MaxPosts = 3
  MaxPeeks = 3
  MaxViews = 2
SPECIFICATION Spec
INVARIANTS
  LifecycleInv
  ViewsHaveThreads
  NetworkOfThisShell
  NothingLeft
PROPERTIES
  ReleaseReturns
\* The system stops after MaxShells shells, and when the worker joins itself.
CHECK_DEADLOCK FALSE
