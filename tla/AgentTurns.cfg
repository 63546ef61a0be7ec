SPECIFICATION Spec
CONSTANTS
  chat = chat mail = mail spam = spam dream = dream check = check
  Paths = {chat, mail}
  Core = {} Dream = {} Proactive = {} Malformed = {}
  Routes <- MCRoutes
  MaxWrites <- WriteOnce
  BootBatches <- MixedBoot
  GraceTicks = 1
  MaxFaults = 1
  MaxCliRuns = 0
INVARIANTS TypeOK NothingLost NoneStranded RedeliveryExcused BootCountExact ShownIsOnDisk
PROPERTY MailboxSpec
