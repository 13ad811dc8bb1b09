SPECIFICATION Spec
CONSTANTS
  Senders = {s1}
  Hooks = {h1}
  Discords = {}
  RetryLimit = 5
  MailLimit = 0
  MaxRows = 2
  MaxCalls = 1
  MaxPosts = 1
  MaxFaults = 0
INVARIANTS SentWasDispatched
