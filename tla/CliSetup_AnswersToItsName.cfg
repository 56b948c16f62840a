CONSTANTS
    None = None
    Root = Root
    Subs = {s1, s2, s3}
    Options = {o1, o2}
    Names = {"fn", "Fn", "f_n"}
    Unnamed = "unnamed"
    Lower <- MCLower
    Bare <- MCBare
    Declared <- MCDeclared
    Later = {"fn"}
    MaxCalls = 5
SPECIFICATION Spec
INVARIANT AnswersToItsName
CHECK_DEADLOCK FALSE
