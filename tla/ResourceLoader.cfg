\* One load, asynchronous or synchronous: two redirects, three chunks, two cancels.
SPECIFICATION Spec
CONSTANTS
  MaxRedirects = 2
  MaxChunks = 3
  MaxCancels = 2
INVARIANTS
  SharedSafely
  ResultWhole
PROPERTIES
  StreamSpec
  ProxyReclaimed
  EveryLoadCompletes
  ResultSettled
CHECK_DEADLOCK FALSE
