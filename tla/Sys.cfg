CONSTANTS
    Kinds = {"TPC2", "BPT", "I4S", "I4", "I5", "PRO"}
    MayFail = TRUE
    MaxRefs = 3
SPECIFICATION CarefulSpec
INVARIANTS SharedInUse NoGhostPen ListensWhenOpen SetUpWhenAwake
