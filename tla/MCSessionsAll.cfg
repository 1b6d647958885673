\* Every request, three calls, with a refresh token that may expire on the way.
CONSTANTS
  c1 = c1
  c2 = c2
  c3 = c3
  alice = alice
  bob = bob
  carol = carol
  p = p
  q = q
  Forged = Forged
  Calls = {c1, c2, c3}
  Users = {alice, bob}
  Strangers = {carol}
  Passwords = {p, q}
  InitPassword <- Initially
  Requests <- AllRequests
  AccessDuration = 1
  RefreshDuration = 1
  MaxTime = 3
SPECIFICATION Spec
INVARIANTS
  TypeOK
  RefreshHasSession
  TokensComeFromLogins
  AccessBounded
PROPERTIES
  BlockStopsRenewal
  OnlyOwnerChangesPassword
