SPECIFICATION FairSpec
CONSTANTS
    checkout = checkout
    search = search
    outage = outage
    slowdown = slowdown
    recovery = recovery
    malformed = malformed
    nameless = nameless
    NoService = NoService
    BadService = BadService
    NoEvent = NoEvent
    Workers = {w1}
    Customers = {ann, bob, anonymous}
    Anonymous = anonymous
    Services = {checkout}
    EventIds = {outage, nameless, malformed}
    EventType <- EventTypes
    EventService <- EventServices
    MaxContactsPerService = 2
    MaxSeenEvents = 3
    MaxOutreachLog = 1
    ContactWindow = 1
    MaxTime = 2
    MaxContacts = 3
    MaxRedeliveries = 1
    MaxRestarts = 0
INVARIANTS
    AudienceIsComplete
    AudienceWroteToUs
PROPERTIES
    EventuallyAnswered
