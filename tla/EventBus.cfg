SPECIFICATION Spec
CHECK_DEADLOCK FALSE
CONSTANTS
    Tasks = {app, loop}
    Bus = bus
    Callbacks = {plain, nested}
    Subscribing = {nested}
    All = All
    None = None
    QueueLength = 2
    MaxPublished = 3
    Keys <- MCKeys
    Events <- MCEvents
INVARIANTS
    TypeOK
    OwnedOnce
    OneNodePerKey
    NoEmptyCallback
PROPERTIES
    Implements
    EventsServed
    SubscribersServed
