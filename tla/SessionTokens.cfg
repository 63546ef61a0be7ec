SPECIFICATION Spec
CONSTANTS
    home = home cloud = cloud
    Gateways = {home, cloud}
    MaxLogins = 2
    MaxHours = 2
    MaxFaults = 3
INVARIANT TypeOK
INVARIANT GraceSuffices
INVARIANT NextLaunchContinues
SYMMETRY AnyGateway
CHECK_DEADLOCK FALSE
