CONSTANTS
  Clients = {c1}
  Views = {v1, v2}
  NoView = NoView
  Groups = {"main", "tab"}
  MaxRequests = 2
  InitialIncreases = 5
  ShellTypes = {2}
  ViewCounts = {Absent}
  Garbage = {1}
  Absent = Absent
SPECIFICATION ShellSpec
PROPERTIES
  NoNeedToIncreaseConsumer
\* The system stops after ReleaseBrowser, and when MaxRequests is reached.
CHECK_DEADLOCK FALSE
