SPECIFICATION Spec
CONSTANTS
  Parts = {"payments", "receipts", "queue", "watchlist"}
  Users = {u1}
  Subs = {s1, s2}
  ApiPrices = {a1}
  MobilePrices = {m1, m2}
  MaxEvents = 6
  MaxFaults = 1
  Receipts = {r1, r2, r3, r4}
  Ethpool = {r2}
  Manual = {r3}
  Requests = {q1, q2}
  AppLimit = 2
  MaxErrors = 1
  MaxChanges = 3
  Senders = {n1, n2}
  Hooks = {h1}
  Discords = {d1}
  RetryLimit = 1
  MailLimit = 1
  MaxRows = 2
  MaxCalls = 1
  MaxPosts = 1
  Validators = {"v1", "v2"}
  Tabs = {1, 2}
  TaxLimit = 1
  MaxRequests = 2
  MaxFailed = 1
INVARIANTS   WatchlistIsSound
PROPERTIES SettlesAsAsked
CHECK_DEADLOCK FALSE
