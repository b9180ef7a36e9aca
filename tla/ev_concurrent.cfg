SPECIFICATION Spec
CONSTANTS
    c1 = c1
    c2 = c2
    v1 = v1
    v2 = v2
    Segments = {1}
    Customers <- OneCustomer
    InitialStatic = {}
    InitialDeps <- OneSegmentDeps
    Evaluators <- TwoEvaluators
    MaxAborts = 0
    MaxChanges = 1
INVARIANT CorrectnessTrail
