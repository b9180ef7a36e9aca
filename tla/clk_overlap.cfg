SPECIFICATION ActivitySpec
CONSTANTS
    Calls = {c1, c2}
    c1 = c1
    c2 = c2
    NoCall = NoCall
    Seconds = {1, 3}
    MaxWall = 2
    MaxAdvances = 3
    Customers = {k1}
    k1 = k1
    Buyers = {b1}
    b1 = b1
    Evaluators = {v1}
    v1 = v1
    Undefined = Undefined
    Documents <- DocumentsDef
    Dates = {0}
    Amounts <- AmountsDef
    DefaultDays <- DefaultDaysDef
    DefaultTotal = 1
    MaxDeletions = 1
INVARIANTS TypeOK NothingCountedTwice StartsFromThePast ActivityTypeOK NobodyMissed NobodyInvented
PROPERTIES Answered
CHECK_DEADLOCK FALSE
