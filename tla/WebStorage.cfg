CONSTANTS
  Namespaces = {n1, n2}
  Areas = {a1, a2}
  Origins = {o1, o2}
  MaxInstances = 2
  MaxSessions = 2
  MaxConnections = 3
SPECIFICATION Spec
INVARIANTS
  StorageInv
  SessionsReclaimed
\* Namespaces and areas may all be left over from the last instance.
CHECK_DEADLOCK FALSE
