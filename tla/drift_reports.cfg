SPECIFICATION Spec
CONSTANTS
    Readers = {r1}
    Live = {0, 1, 2, 3, 5}
    Samples <- SomeSamples
    Bins = 3
    Window = 3
    MinSamples = 2
    Ln <- LnTable
    MaxSeen = 4
    MaxRestarts = 1
INVARIANTS
    TypeOK
    ReportIsOfOneMoment
    BinsAreFilled
    EveryScoreIsCounted
    OwnMixIsStable
    VanishedIsSignificant
