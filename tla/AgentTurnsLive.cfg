SPECIFICATION FairSpec
CONSTANTS
  chat = chat mail = mail spam = spam dream = dream check = check
  Paths = {chat, mail}
  Core = {} Dream = {} Proactive = {} Malformed = {}
  Routes <- MCRoutes
  MaxWrites <- WriteOnce
  BootBatches <- NoBoot
  GraceTicks = 0
  MaxFaults = 2
  MaxCliRuns = 0
INVARIANTS RedeliveryExcused Custody
PROPERTY EventuallyHandled
