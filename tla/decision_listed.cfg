SPECIFICATION Spec
CONSTANTS
    Intents <- AllIntents
    Sentiments <- AllSentiments
    Hours <- Limits
INVARIANTS
    LinkedMeansListed
