SPECIFICATION RelaySpec
CONSTANTS
  alice = alice
  p1 = p1
  p2 = p2
  AccountLists <- Lists
  Hashes = {"empty"}
  Unknown = "unknown"
  MaxTx = 2
  MaxUpdates = 4
  Pairs <- OnePair
  Peers = {p1}
  MaxSteps = 5
  QueueCap = 2
INVARIANTS
  MetricsTypeOK
  AllReportedIsCounted
  NothingIsCountedTwice
  FailedAreListedOnce
  CircuitsAddUp
  ReservationsAddUp
CHECK_DEADLOCK FALSE
