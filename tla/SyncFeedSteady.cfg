SPECIFICATION FairSpec
CONSTANTS
  axel = axel luna = luna n1 = n1 n2 = n2 bad = bad
  Agents = {axel}
  Steady = {axel}
  Ids = {n1, n2, bad} Malformed = {bad}
  SubMax = 1 WireMax = 1 MaxChanges = 2 MaxFaults = 2
INVARIANTS HubTracksAgent SteadyAgree
PROPERTY EventuallyShown
CHECK_DEADLOCK FALSE
