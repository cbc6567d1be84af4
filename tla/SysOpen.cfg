CONSTANTS
    Kinds = {"TPC2", "BPT", "I4S", "I4", "I5", "PRO"}
    MayFail = FALSE
    MaxRefs = 3
SPECIFICATION SysSpec
INVARIANTS OpenReturns
