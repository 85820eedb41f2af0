CONSTANTS
    loop = loop
    o1 = o1
    o2 = o2
    o3 = o3
    o4 = o4
    NoOwner = NoOwner
    Loops <- MCLoops
    Hands <- MCNobody
    Owners <- MCOwners
    Commands <- MCCommands
    MaxPlan = 2
    MaxFaults = 2
SPECIFICATION FairSpec
INVARIANTS
    TypeOK
    TickingMeansLeased
PROPERTIES
    LockoutEnds
    HoldTakesEffect
