SPECIFICATION FairSpec
CONSTANTS
    Commands = {c1, c2, c3}
    Threshold = 2
    Cooldown = 2
    MaxFailures = 3
INVARIANTS
    TypeOK
    OpenAtThreshold
PROPERTIES
    OneProbePerCooldown
    ProbedOrClosed
    Recovers
