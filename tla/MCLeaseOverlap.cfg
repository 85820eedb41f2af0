CONSTANTS
    loop = loop
    hand = hand
    o1 = o1
    o2 = o2
    o3 = o3
    NoOwner = NoOwner
    Loops <- MCLoops
    Hands <- MCHands
    Owners <- MCOwners
    Commands <- MCNothing
    MaxPlan = 1
    MaxFaults = 0
SPECIFICATION Spec
INVARIANT OneActiveTick
