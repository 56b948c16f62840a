CONSTANTS
    None = None
    MaxVec = 64
    Digits = {"1", "2"}
    Values = {"a", "b", "c"}
    Shapes <- EmptyWordShapes
SPECIFICATION Spec
INVARIANT KeepsMoving
