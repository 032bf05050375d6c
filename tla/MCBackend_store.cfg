SPECIFICATION BackendSpec
CONSTANTS
  alice = alice
  bob = bob
  carol = carol
  Addr = {alice, bob, carol}
  Routes <- SharedReceiver
  Nonces = {1}
  Versions = {0}
  Statuses = {"Genesis"}
  Callers = {alice, carol}
  Ttl = 1
  HandlerTime = 1
  MaxClock = 2
  MaxListed = 2
  U16 = 2
  Undecodable = Undecodable
SYMMETRY SenderSymmetry
INVARIANTS
  BackendTypeOK
  
  SenderFetchesItsRequests
  ReceiverFetchesItsRequests
  PendingRequestsGauge
  PeersHaveTargets
PROPERTIES
  DisconnectTakesOneTarget
