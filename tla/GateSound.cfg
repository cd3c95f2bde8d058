SPECIFICATION Spec
CONSTANTS
    NoRuntimeClass = NoRuntimeClass
    AutoLabel = "auto"
    Node = {a, b}
    Shapes <- MCShapes
    RuntimeClasses <- MCRuntimeClasses
    MaxChanges = 2
SYMMETRY NodeSymmetry
INVARIANTS BlockedRightly SingleCauseBlocks
CHECK_DEADLOCK FALSE
