SPECIFICATION MCSpec
CONSTANTS
    N = 6
    Threads = {t1, t2}
    Graphs <- MCGraphs
    NeighborRounds = 1
    BufferSize = 1
    WordBits = 3
    Alphas = {1, 3, 6, 12}
    Beta = 2
    ChunkSize = 3
    NumIters = 2
    Scale = 12
    Weight <- MCWeight
    Deltas = {1, 3, 8}
    FuseLimit = 2
    One = 100000
    DampNum = 17
    DampDen = 20
    MaxIters = 3
    Epsilon = 20000
    PullChunk = 3
INVARIANTS
    TypeOK ParentsOneLevelUp FrontierIsALevel PathsCounted BinsInOrder
    AnswersVerify ScoresExact FrontierSuffices
PROPERTIES UnitesTrees KernelsEnd
\* A kernel that has returned stops.
CHECK_DEADLOCK FALSE
