SPECIFICATION Spec
CONSTANTS
    Threads = {t1, t2}
    Inputs <- MCInputs
    BlockSize = 2
INVARIANTS TypeOK GraphAsGiven TrianglesExact
