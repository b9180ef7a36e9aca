SPECIFICATION Spec
CONSTANTS
    c1 = c1
    c2 = c2
    v1 = v1
    v2 = v2
    Segments = {1, 2, 3, 4}
    Customers <- OneCustomer
    InitialStatic = {}
    InitialDeps <- DiamondDeps
    Evaluators <- OneEvaluator
    MaxAborts = 0
    MaxChanges = 0
INVARIANT BatchFreshWithoutCycles
