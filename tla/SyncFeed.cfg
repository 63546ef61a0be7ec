SPECIFICATION FairSpec
CONSTANTS
  axel = axel luna = luna n1 = n1 n2 = n2 bad = bad
  Agents = {axel, luna}
  Steady = {axel}
  Ids = {n1} Malformed = {}
  SubMax = 1 WireMax = 1 MaxChanges = 2 MaxFaults = 0
INVARIANT TypeOK
INVARIANT ReplicaMirrorsSent
INVARIANT SteadyAgree
PROPERTY EventuallyShown
CHECK_DEADLOCK FALSE
