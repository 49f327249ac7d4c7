SPECIFICATION Spec
CONSTANTS
    checkout = checkout
    search = search
    outage = outage
    slowdown = slowdown
    recovery = recovery
    malformed = malformed
    nameless = nameless
    NoService = NoService
    BadService = BadService
    NoEvent = NoEvent
    Workers = {w1, w2}
    Customers = {ann, anonymous}
    Anonymous = anonymous
    Services = {checkout}
    EventIds = {outage, recovery}
    EventType <- EventTypes
    EventService <- EventServices
    MaxContactsPerService = 1
    MaxSeenEvents = 1
    MaxOutreachLog = 1
    ContactWindow = 1
    MaxTime = 0
    MaxContacts = 2
    MaxRedeliveries = 1
    MaxRestarts = 1
INVARIANTS
    TypeOK
    OneRoundPerWorker
    RepeatsAreExplained
    NoSilentRound
    MemoryConsistent
PROPERTIES
    PromiseKept
CONSTRAINT
    FewRounds
