SPECIFICATION Spec
CONSTANTS
    checkout = checkout
    search = search
    outage = outage
    slowdown = slowdown
    recovery = recovery
    malformed = malformed
    nameless = nameless
    NoService = NoService
    BadService = BadService
    NoEvent = NoEvent
    Workers = {w1, w2}
    Customers = {ann, anonymous}
    Anonymous = anonymous
    Services = {checkout}
    EventIds = {outage}
    EventType <- EventTypes
    EventService <- EventServices
    MaxContactsPerService = 2
    MaxSeenEvents = 2
    MaxOutreachLog = 2
    ContactWindow = 1
    MaxTime = 1
    MaxContacts = 2
    MaxRedeliveries = 2
    MaxRestarts = 0
INVARIANTS
    NobodyMessagedTwice
