SPECIFICATION FairSpec
CONSTANTS
    Plan <- MixedPlan
    Phases = 6
    CPUs = {0}
    TotalPages = 3
    HotspotPages = 1
    NewDataPages = 1
    MaxSignals = 2
INVARIANTS TypeOK WatchesItsOwn RegionsDiscovered SwitchesAsNeeded
PROPERTIES PhasesGoForward SeriesEnds
\* The script ends.
CHECK_DEADLOCK FALSE
