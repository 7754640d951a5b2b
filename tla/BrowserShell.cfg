CONSTANTS
  Clients = {c1}
  Views = {v1, v2, v3}
  NoView = NoView
  Groups = {"main", "tab"}
  MaxRequests = 4
  InitialIncreases = 5
  ShellTypes = {0, 1, 2, Absent}
  ViewCounts = {0, 2}
  Garbage = {1}
  Absent = Absent
SPECIFICATION ShellSpec
INVARIANTS
  ShellInv
  MainGroupBounded
  OneConsumerInLine
PROPERTIES
  QueueSpec
  StartupFillsGroup
  EveryRequestLoaded
\* The system stops after ReleaseBrowser, and when MaxRequests is reached.
CHECK_DEADLOCK FALSE
