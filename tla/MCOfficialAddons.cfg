CONSTANTS
    MaxKeyLength = 3
    MaxValueBytes = 1
    SizeOf <- TheSize
    Top = "top"
    Pages = {"p", "q"}
    Apps = {"whiteboard", "presence", "echo", "vault", "voice-call", "voice-meter"}
    Chars = {"a", "b", "x", "s", " "}
    VaultId <- Id
    OtherId <- LongerId
    OtherName <- Id
    Theirs = "theirs"
    Names <- TheNames
    Contents = {"v", "w"}
    Snapshot <- SnapshotKey
    MaxActs <- TheActs
    MaxReloads = 1

SPECIFICATION Spec

INVARIANTS
    ListMatchesStore
    LastStateShown
    OthersUntouched

CHECK_DEADLOCK FALSE
