SPECIFICATION FairSpec
CONSTANTS
    Workers = {w1, w2, w3}
    Threshold = 2
    Cooldown = 2
    Never = Never
    MaxLag = 1
INVARIANTS
    TypeOK
    OutageCostIsBounded
    ExcessIsOpening
    FewClientsAreMade
PROPERTIES
    Recovers
    LetsCallsThrough
