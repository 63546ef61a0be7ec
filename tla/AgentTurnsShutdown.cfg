SPECIFICATION FairSpec
CONSTANTS
  chat = chat mail = mail spam = spam dream = dream check = check
  Paths = {chat}
  Core = {} Dream = {} Proactive = {} Malformed = {}
  Routes <- MCRoutes
  MaxWrites <- WriteOnce
  BootBatches <- TwoBootTurns
  GraceTicks = 1
  MaxFaults = 1
  MaxCliRuns = 0
PROPERTY ShutdownCompletes
