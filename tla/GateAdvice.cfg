SPECIFICATION Spec
CONSTANTS
    NoRuntimeClass = NoRuntimeClass
    AutoLabel = "auto"
    Node = {"a", "b"}
    Shapes <- AdviceShapes
    RuntimeClasses <- MCRuntimeClasses
    MaxChanges = 0
INVARIANT AdviceHelps
CHECK_DEADLOCK FALSE
