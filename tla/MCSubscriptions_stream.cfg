SPECIFICATION ServiceSpec
CONSTANTS
  alice = alice
  bob = bob
  carol = carol
  sub1 = sub1
  Addr = {alice, bob}
  Routes <- OneRoute
  Nonces = {1}
  Versions = {0}
  Statuses <- StreamStatuses
  Callers = {alice, bob}
  Ttl = 1
  HandlerTime = 1
  MaxListed = 1
  MaxClock = 2
  U16 = 2
  Undecodable = Undecodable
  Clients = {sub1}
  AddressOf <- OfSender
  Capacity = 2
  MaxEvents = 3
INVARIANTS
  ServiceTypeOK
  StreamHasNoGap
  SenderIsUpToDate
PROPERTIES
  AnnouncedIsStored
  TtlNotExtended
  ImplementsStream
