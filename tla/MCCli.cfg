CONSTANTS
    None = None
    MaxVec = 64
    Digits = {"1", "2"}
    Values = {"a", "b", "c"}
    Shapes <- MCShapes
SPECIFICATION Spec
INVARIANTS WordsKept OneSource SectionsNest SuccessMeansSatisfied HelpWins   KeepsMoving
