SPECIFICATION FairSpec

CONSTANTS
    Page = {p1, p2}
    FAST_TIER_CAPACITY = 1
    MAX_PROMOTIONS_PER_EPOCH = 2
    MAX_DEMOTIONS_PER_EPOCH = 1
    SLOW_NODE = 1
    HOT_EPOCHS = 0
    Scores = {0, 1, 2}
    FREQ_TOLERANCE = 1
    FILL_THRESHOLD = 1
    Margins <- MCMargins
    PolicyChoices = {"lru"}
    SampleCounts = {1}
    COLD_PURGE_THRESHOLD = 1
    Faults = {"busy", "abort"}
    MaxEpochs = 2

PROPERTIES
    DaemonStops

\* The daemon stops for good, and so does the workload.
CHECK_DEADLOCK FALSE
