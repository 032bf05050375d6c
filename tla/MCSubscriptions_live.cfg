SPECIFICATION FairService
CONSTANTS
  alice = alice
  bob = bob
  carol = carol
  sub1 = sub1
  Addr = {alice, bob, carol}
  Routes <- TwoReceivers
  Nonces = {1}
  Versions = {0}
  Statuses = {"Genesis","Reverted"}
  Callers = {alice, bob}
  Ttl = 0
  HandlerTime = 0
  MaxListed = 1
  MaxClock = 1
  U16 = 2
  Undecodable = Undecodable
  Clients = {sub1}
  AddressOf <- OfReceiver
  Capacity = 1
  MaxEvents = 3

  
PROPERTIES
  EventsAreDelivered
  AcceptedBecomesActive
