SPECIFICATION Spec
CONSTANTS
    Written <- Revisions
    Absent = Absent
    Torn = Torn
    MaxRuns = 2
    Breaks = {0, 5}
    Workers = {w1}
INVARIANTS
    VerifiedMeansReproducible
