SPECIFICATION FairSpec
CONSTANTS
    Written <- Revisions
    Absent = Absent
    Torn = Torn
    MaxRuns = 2
    Breaks = {0, 5}
    Workers = {w1, w2}
INVARIANTS
    TypeOK
    ApprovedDataIsOfficial
    EvaluationIsHonest
    IdentityNeverAhead
PROPERTIES
    ServesInTheEnd
