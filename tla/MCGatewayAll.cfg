SPECIFICATION Spec
CONSTANTS
  c1 = c1
  c2 = c2
  c3 = c3
  alice = alice
  bob = bob
  trace = trace
  Calls = {c1, c2, c3}
  Users = {alice, bob}
  RequestIds = {trace}
  Ids = {"1", "2"}
  Requests <- AllRequests
  Scenarios <- AllScenarios
  Initial = 1
  Thereafter = 2
INVARIANTS
  TypeOK
  HandlersAuthenticated
  RoutedAsDocumented
  StatusTellsEffect
  LinesAgree
  LinesKept
