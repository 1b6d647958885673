\* Every operation, two calls at a time, and three transfers in a ring.
CONSTANTS
  MaxInt = 7
  NaN = NaN
  c1 = c1
  c2 = c2
  c3 = c3
  alice = alice
  bob = bob
  carol = carol
  usd = usd
  eur = eur
  xxx = xxx
  Users <- MCUsers
  Currencies <- MCCurrencies
  Calls = {c1, c2, c3}
  Requests <- AllRequests
  Scenarios <- AllScenarios
  InitAccounts <- FourAccounts
  MaxAccountId = 5
SPECIFICATION FairSpec
INVARIANTS
  TypeOK
  DoubleEntry
  NoDanglingMovement
  TransferAuthorized
  AnswersHonest
  NoLostUpdate
  OneAccountPerCurrency
  NoDeadlock
  Reconciled
PROPERTIES
  OverdraftOnlyByRace
  LedgerSpec
  EveryCallAnswered
