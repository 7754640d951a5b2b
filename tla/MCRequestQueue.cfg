CONSTANTS
  c1 = c1
  c2 = c2
  v1 = v1
  v2 = v2
  Clients <- MCClients
  Views <- MCViews
  Groups = {"main"}
  NoView = NoView
  MaxRequests = 3
  InitialIncreases = 2
SPECIFICATION Spec
INVARIANTS
  NoLostWakeup
  InOrder
  OneAskPerView
  IInv
PROPERTIES
  DeleteReleasesReceiver
  ChannelSpec
\* The system stops after ReleaseBrowser, and when MaxRequests is reached.
CHECK_DEADLOCK FALSE
