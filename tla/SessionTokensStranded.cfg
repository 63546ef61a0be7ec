SPECIFICATION Spec
CONSTANTS
    home = home cloud = cloud
    Gateways = {home}
    MaxLogins = 1
    MaxHours = 2
    MaxFaults = 0
INVARIANT NeverStranded
CHECK_DEADLOCK FALSE
