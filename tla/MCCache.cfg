CONSTANTS
    Keys = {k1, k2}
    NoKey = NoKey
    Calls = {c1, c2}
    Recovery = Recovery
    Patterns <- MCPatterns
    MaxItems = 1
    Kinds = {"LRU", "LFU"}
SPECIFICATION Spec
SYMMETRY MCSymmetry
INVARIANTS TypeOK MissedIsStale IndexInStep LfuSelectsLowest
PROPERTIES ReadsAreNotMissed WriteMakesRoom OrderSpec
