CONSTANTS
    alice = alice
    bob = bob
    m1 = m1
    m2 = m2
    None = None
    Clients = {alice, bob}
    Handlers = {"h1"}
    Messages = {m1, m2}
    Author <- TheAuthor
    Endpoints = {"node", "php"}
    Ttl = 0
    MaxFailures <- TheFailures
    Leavers = {bob}
    MaxSubscribes = 1

SPECIFICATION FairSpec

PROPERTIES
    KeepsContract
    RemovedOnceHeard
    SomebodyHears

CHECK_DEADLOCK FALSE
