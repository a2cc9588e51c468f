SPECIFICATION Spec
CONSTANTS
    Addons = {"a", "b"}
    Listed <- TheListed
    Keys = {"old", "new"}
    OldKey = "old"
    Paths = {"p"}
    OldPath = "p"
    Versions <- TheVersions
    Schema = 2
    MaxReleases = 2
    Modes = {"none", "optional", "required"}
    Works <- TheWorks
    Urls = {"official", "meta", "gone", "submissions"}
    Official = "official"
    Saved <- TheSaved
    Documents <- TheDocuments
    MaxRuns = 2
    MaxClicks = 1
INVARIANTS
    VouchedWasSigned
    RefusedOnlyAcrossReleases
    AllAccountedFor
CHECK_DEADLOCK FALSE
