SPECIFICATION Spec
CONSTANTS
    claude = claude
    codex = codex
    a1 = a1
    a2 = a2
    a3 = a3
    Panes = {"pane"}
    Tools = {claude, codex}
    Claude = claude
    NativeWaiting = {claude}
    Nobody = Nobody
    NoEvent = NoEvent
    MaxChecks = 1
    ChannelCap = 1
    MaxUnsent = 2
    MaxTurns = 2
    Writers = {"reader1", "reader2"}
    BucketCount = 3
    NotWriting = NotWriting
    MaxClock = 6
    MaxBytes = 3
    Credentials = {"key1", "key2"}
    Labels = {"phone", "laptop"}
    Browsers = {"browser1", "browser2"}
    None = None
    Unknown = Unknown
    MaxCeremonies = 1
    MaxIssued = 3
    MaxChanges = 2
    Agents = {a1, a2, a3}
    NameOf <- Names
    Codes = {"code1", "code2"}
    NoCode = NoCode
    NoRequest = NoRequest
    MaxPending = 1
    MaxFaults = 2
    Endpoints = {"phone", "laptop"}
    Putters = {"browser1", "browser2"}
    Values = {"default", "dark", "light"}
    Default = "default"
    Missing = Missing
    Torn = Torn
    NoStore = NoStore
    Untold = Untold
    MaxTroubles = 2
    Streams = {"stream"}
    MaxArrivals = 3
    RequestIDs = {"request1", "request2"}
    Payloads = {"rename", "select"}
    Horizon = 2
    TTL = 2
    MaxEntries = 1
    MaxTime = 4
CONSTRAINT FollowedExcused
INVARIANTS TypeOK WaitingIsShown SparklineIsHistory AnswersSurvive KeepsAPasskey CodePaysForPeer PreferencesShown
    AttachedHasOwner ClosedEndsTerminals RetriesAreSafe
CHECK_DEADLOCK FALSE
