CONSTANTS
    mic1 = mic1
    mic2 = mic2
    remote1 = remote1
    remote2 = remote2
    get = get
    None = None
    Kinds = {"audio","video"}
    Permitted = {"audio"}
    Captures = {mic1, mic2}
    RemoteTracks = {remote1, remote2}
    Kind <- AllAudio
    Requests = {get}
    MaxPosts = 3
    MaxInFlight = 0
    MaxTexts = 1

SPECIFICATION FairSpec

INVARIANTS
    TypeOK
    InitFirst
    AnsweredOnce
    HeldIsReal
    AddonInformed

PROPERTIES
    StorageAnswered

CHECK_DEADLOCK FALSE
