SPECIFICATION NodeSpec
CONSTANTS
  alice = alice
  alice2 = alice2
  bob = bob
  Addr = {alice, alice2, bob}
  Routes <- Send
  Nonces <- UpTo2
  Versions <- UpTo3
  Statuses = {}
  Me = alice
  Profile = {alice, alice2}
  CacheCap = 2
  RpcCap = 1
  CommandCap = 1
  UserCap = 1
  MaxNonce = 1
  MaxVersion = 3
  MaxCalls = 5
  PeerNonces = {}
  Signatures = {"valid"}
  Matches = {TRUE}
  Links = {"up"}
PROPERTIES
  InboundKeepsVersion
CHECK_DEADLOCK FALSE
