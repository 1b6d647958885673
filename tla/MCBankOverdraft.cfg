\* Two transfers from one account.
CONSTANTS
  MaxInt = 7
  NaN = NaN
  c1 = c1
  c2 = c2
  c3 = c3
  alice = alice
  bob = bob
  carol = carol
  usd = usd
  eur = eur
  xxx = xxx
  Users <- MCUsers
  Currencies <- MCCurrencies
  Calls = {c1, c2}
  Requests <- SpendRequests
  Scenarios <- EveryScenario
  InitAccounts <- TwoAccounts
  MaxAccountId = 2
SPECIFICATION Spec
INVARIANT NoOverdraft
