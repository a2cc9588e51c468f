CONSTANTS
    alice = alice
    bob = bob
    carol = carol
    None = None
    Inviter = alice
    Joiners = {bob, carol}
    Changes <- InviterChanges
    Closers = {}
    Candidates = 0
    MaxLost = 0
    LinkMayBreak = FALSE
    InOrder = FALSE

SPECIFICATION FairSpec

INVARIANTS
    ExchangesStayInPair

PROPERTIES
    FirstConnection

CHECK_DEADLOCK FALSE
