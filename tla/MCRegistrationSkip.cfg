\* A registration whose commit is slower than its task.
CONSTANTS
  c1 = c1
  c2 = c2
  c3 = c3
  alice = alice
  bob = bob
  a = a
  b = b
  NoEmail = NoEmail
  Usernames = {alice, bob}
  Emails = {a, b}
  Calls = {c1, c2}
  Requests <- MailRequests
  Scenarios <- EveryScenario
  MaxRetry = 1
  ProcessIn = 1
  CodeLifetime = 2
  Concurrency = 1
  MaxTime = 2
SPECIFICATION Spec
INVARIANT SkippedOnlyIfDeleted
