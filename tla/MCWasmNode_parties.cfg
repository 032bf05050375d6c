SPECIFICATION NodeSpec
CONSTANTS
  alice = alice
  alice2 = alice2
  bob = bob
  Addr = {alice, alice2, bob}
  Routes <- AllRoutes
  Nonces <- UpTo2
  Versions <- UpTo3
  Statuses = {}
  Me = alice
  Profile = {alice, alice2}
  CacheCap = 1
  RpcCap = 1
  CommandCap = 1
  UserCap = 1
  MaxNonce = 1
  MaxVersion = 3
  MaxCalls = 3
  PeerNonces = {2}
  Signatures = {"valid", "invalid"}
  Matches = {TRUE, FALSE}
  Links = {"up"}
INVARIANTS
  NodeTypeOK
  SubmissionsAreSigned
  
CHECK_DEADLOCK FALSE
