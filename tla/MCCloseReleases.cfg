CONSTANTS
    alice = alice
    bob = bob
    carol = carol
    None = None
    Inviter = alice
    Joiners = {bob}
    Changes <- JoinerChanges
    Closers = {alice, bob}
    Candidates = 0
    MaxLost = 0
    LinkMayBreak = FALSE
    InOrder = TRUE

SPECIFICATION Spec

INVARIANTS
    CloseReleases

CHECK_DEADLOCK FALSE
