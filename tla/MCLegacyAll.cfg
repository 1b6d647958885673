SPECIFICATION Spec
CONSTANTS
  c1 = c1
  c2 = c2
  c3 = c3
  alice = alice
  bob = bob
  eve = eve
  usd = usd
  eur = eur
  xxx = xxx
  NoToken = NoToken
  Calls = {c1, c2, c3}
  Users = {alice, bob, eve}
  Registered = {alice, bob}
  Currencies = {usd, eur}
  Requests <- AllRequests
  Scenarios <- AllScenarios
  InitAccounts <- TwoAccounts
  MaxAccountId = 5
  MaxInt = 7
  MaxInt32 = 127
  NaN = NaN
  AccessDuration = 1
  RefreshDuration = 2
  MaxTime = 3
INVARIANTS
  TypeOK
  AnswersHonest
PROPERTIES
  OwnersOnly
  TransfersSound
