SPECIFICATION Spec

CONSTANTS
    num_pages = 6
    num_reqs = 8
    num_reqs_per_ep = 3
    l1_pages = 4
    Bin = 1
    Runs <- MCGauntlet
    Scores = {0, 1, 2}
    ABS_THRESHOLD = 1
    DEMOTE_MARGIN = 1

INVARIANTS
    TypeOK
    CapacityKept
    
    
    EpochCountersSettle

\* The driver ends after the last run.
CHECK_DEADLOCK FALSE
