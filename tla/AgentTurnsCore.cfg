SPECIFICATION Spec
CONSTANTS
  chat = chat mail = mail spam = spam dream = dream check = check
  Paths = {chat, dream, check, spam}
  Core = {dream, check} Dream = {dream} Proactive = {check} Malformed = {spam}
  Routes <- MCRoutes
  MaxWrites <- WriteOnce
  BootBatches <- TwoBootTurns
  GraceTicks = 1
  MaxFaults = 0
  MaxCliRuns = 1
INVARIANTS NoneStranded BootFirst ShownIsOnDisk
