SPECIFICATION KSpec
CONSTANTS
    Bits = 4
    R = 2
    N = 8
    Builds = {"2way", "regstate", "1way"}
    Benches = {"4way", "save", "pipe", "wide", "pipewide"}
    Seeds = {3, 6}
    MaxHashes = 2
    Sizes = {256, 512, 640, 1024, 1280}
    ShaSeeds = {3, 6, 11}
    Chunks = {0, 1, 16, 55, 64, 80, 130}
    Message <- SomeMessage
    Leftover <- SomeLeftover
    Digest <- SomeDigest
    KdfCalls <- SomeCalls
    Headers <- SomeHeaders
    Yespower <- SomeYespower
    H = 2
    HashLimbs <- EdgeLimbs
    Difficulties <- SomeDifficulties
INVARIANTS
    LanesAgree SimdIsPortable LayoutKept LanesComeBack
    RoundsAgree StreamIsPadded KeyIsPbkdf2 PathsAgree HexDecodes SharesMeetDiff
CHECK_DEADLOCK FALSE
