SPECIFICATION Spec
CONSTANTS
    Commands = {c1, c2, c3}
    Threshold = 2
    Cooldown = 2
    MaxFailures = 3
PROPERTIES
    ExtendedByProbe
