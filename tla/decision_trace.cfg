SPECIFICATION Spec
CONSTANTS
    Intents <- AllIntents
    Sentiments <- AllSentiments
    Hours <- Limits
INVARIANTS
    TypeOK
    UnusedMeansStandalone
    AloneByItself
    DecisionIsJustified
    SourcesAreNamed
    EffectsFollowDecision
