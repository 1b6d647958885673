\* Registrations, changes of address and calls with codes, three at a time.
CONSTANTS
  c1 = c1
  c2 = c2
  c3 = c3
  alice = alice
  bob = bob
  a = a
  b = b
  NoEmail = NoEmail
  Usernames = {alice, bob}
  Emails = {a, b}
  Calls = {c1, c2, c3}
  Requests <- AllRequests
  Scenarios <- AllScenarios
  MaxRetry = 1
  ProcessIn = 1
  CodeLifetime = 1
  Concurrency = 1
  MaxTime = 2
SPECIFICATION Spec
INVARIANTS
  TypeOK
  UniqueEmail
  RegisteredHasTask
  CodesBounded
  VerificationAtomic
  CodeUsedOnce
