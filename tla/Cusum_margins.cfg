SPECIFICATION CusumSpec

CONSTANTS
    REACT_EPOCHS = 5
    TRANSITION_EPOCHS = 20
    WARM_UP = 10
    ReactMargins <- MCReactMargins
    StableChoices <- MCStableChoices
    Deviations <- MCDeviations
    HalfSigmas = {0, 1, 2}

PROPERTIES
    MarginsFollowDetections
    ReportedOnce
