CONSTANTS
    alice = alice
    bob = bob
    m1 = m1
    None = None
    Clients = {alice, bob}
    Handlers = {"h1"}
    Messages = {m1}
    Author <- TheAuthor
    RelayOrder <- TwoRelays
    Foreign = {"unmarked"}
    MaxSubscribes = 2
    MaxFailures = 1
    Leavers = {alice, bob}
    Listeners = {bob}
    Modes <- TheModes

SPECIFICATION FairSpec

CONSTRAINT OneLeaves

INVARIANTS
    RefusedByAll
    NoDowngrade

PROPERTIES
    KeepsContract
    PublishSettles

CHECK_DEADLOCK FALSE
