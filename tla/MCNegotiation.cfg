CONSTANTS
    alice = alice
    bob = bob
    carol = carol
    None = None
    Inviter = alice
    Joiners = {bob}
    Changes <- BothChange
    Closers = {alice, bob}
    Candidates = 1
    MaxLost = 1
    LinkMayBreak = TRUE
    InOrder = TRUE

SPECIFICATION FairSpec

CONSTRAINT OneDisturbance

INVARIANTS
    TypeOK
    MakingOfferHeld

PROPERTIES
    CrossedOnlyOverlapped
    RollsBackOnlyOverlapped
    ReopensOnlyWhileClosing
    NothingAfterRelease
    CloseCompletes
    ByeClosesPartner

CHECK_DEADLOCK FALSE
