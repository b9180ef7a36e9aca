SPECIFICATION Spec
CONSTANTS
    c1 = c1
    c2 = c2
    v1 = v1
    v2 = v2
    Segments = {1, 2, 3, 4}
    Customers <- OneCustomer
    InitialStatic = {4}
    InitialDeps <- TreeDeps
    Evaluators <- OneEvaluator
    MaxAborts = 1
    MaxChanges = 1
INVARIANTS TypeOK CorrectnessTrail DeltasPublished EveryDeltaPublished DependenciesRespected BatchFresh
PROPERTIES StaticProtected ImplementsLedger
