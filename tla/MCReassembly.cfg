CONSTANTS
    k1 = k1
    k2 = k2
    k3 = k3
    text = text
    blob = blob
    half = half
    Fractions = {half}
    Ceiling <- Half
    Keys <- MCKeys
    Mimes <- MCMimes
    Sizes <- MCSizes
    Incoming <- MCIncoming
    MaxTotal = 3
    MessageCap = 3
    Budget = 3
    Timeout = 1
    MaxConverting = 1

SPECIFICATION FairSpec

INVARIANTS
    TypeOK
    Accounting
    WithinBudget
    TimerIffSlots
    SlotsArePartial
    HolesAreStrays

PROPERTIES
    NoSilentLoss
    OldestFirst
    StaleReclaimed

CHECK_DEADLOCK FALSE
