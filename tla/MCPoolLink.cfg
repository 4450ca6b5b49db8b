SPECIFICATION PSpec
CONSTANTS
    Bytes <- TwoBytes
    RBUFSIZE = 4
    RECVSIZE = 2
    MaxSent = 6
    MaxConn = 2
    Writers = {"stratum", "workio"}
    LineLen = 3
    MaxLines = 3
    JobIds = {"j1", "j2"}
    Coinb1 <- JobParts1
    Coinb2 <- JobParts2
    Branches <- JobBranches
    Extranonces <- SomeExtranonces
    X2Sizes = {2, 3}
    Diffs = {1}
    UserDiff = 0
    Radix = 2
    Finders = {"m1", "m2"}
    RingSize = 2
    MaxShares = 3
    Samples = 4
    Interval = 2
    Sleeps = {2, 3}
    Windows = {3, 6}
    Batches = {1}
    MaxLooks = 6
INVARIANTS
    AnswersCovered EntriesWhole RateExact
    LinesExact BufferFits RequestsWhole ShareRebuilds DiffOfSession
PROPERTIES
    ExtranonceAdvances
CHECK_DEADLOCK FALSE
