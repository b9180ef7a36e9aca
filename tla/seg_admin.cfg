SPECIFICATION FairSpec
CONSTANTS
    k1 = k1
    k2 = k2
    Ids = {1, 2, 3, 4}
    Slugs <- OneName
    Documents <- Rules
    Null <- Leaf
    DependencyIds <- IdsOfRules
    JsonValues <- RuleValues
    InitialKeys <- Keyed
    Clients <- TwoClients
    MaxRequests = 3
INVARIANTS TypeOK DependenciesOfRules DependenciesMentioned ConflictsAreRaces
PROPERTIES RemovedRowsRest DependenciesChecked Answered
CHECK_DEADLOCK FALSE
