\* A registration, its mails and their codes, to the end.
CONSTANTS
  c1 = c1
  c2 = c2
  c3 = c3
  alice = alice
  bob = bob
  a = a
  b = b
  NoEmail = NoEmail
  Usernames = {alice, bob}
  Emails = {a, b}
  Calls = {c1, c2, c3}
  Requests <- MailRequests
  Scenarios <- EveryScenario
  MaxRetry = 1
  ProcessIn = 1
  CodeLifetime = 1
  Concurrency = 1
  MaxTime = 1
SPECIFICATION FairSpec
PROPERTIES
  EveryCallAnswered
  EveryTaskSettles
