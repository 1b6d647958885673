\* Walks through both tables while two transactions insert rows.
CONSTANTS
  d1 = d1
  w1 = w1
  w2 = w2
  Clients = {d1}
  Writers = {w1, w2}
  Requests <- AllWalks
  InitAccounts = 3
  InitEntries = 2
  MaxInt = 7
  MaxAccountsPage = 3
  MaxEntriesPage = 2
  MaxTime = 2
SPECIFICATION Spec
SYMMETRY WriterSymmetry
INVARIANTS
  TypeOK
  NothingSkipped
  NothingRepeated
  PastTheEndOnlyByWrap
