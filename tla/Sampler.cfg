SPECIFICATION FairSpec

CONSTANTS
    w1 = w1
    w2 = w2
    x1 = x1
    e1 = e1
    e2 = e2
    CPU = {c1, c2}
    Page <- MCPages
    WorkloadPage <- MCWorkloadPages
    Element <- MCElements
    MaxCount = 1

INVARIANTS
    TypeOK
    EachSampleOnce
    ReportComplete
    LeftoverIsNew
    RaceLossBound

PROPERTIES
    DrainEnds
