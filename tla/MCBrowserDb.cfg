SPECIFICATION DbSpec
CONSTANTS
  acc1 = acc1
  acc2 = acc2
  peer1 = peer1
  peer2 = peer2
  Accounts = {acc1, acc2}
  Peers = {peer1, peer2}
  Amounts = {1, 6}
  I64 = 4
  U128 = 16
  MaxNonce = 2
  MaxIssued = 3
  MaxRecords = 2
SYMMETRY DbSymmetry
INVARIANTS
  DbTypeOK
  TotalsMatchRecords
  RestartKeepsDb
  NoncesAreNew
  SavedPeersAreDistinct
