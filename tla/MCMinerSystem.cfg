CONSTANTS
    Jobs = {j1}
    NoJob = NoJob
    N = 1
    MaxNonce = 3
    Reserve = 1
    MaxBatch = 2
    Troubles <- TwoLinkFaults
    MaxQueue = 2
    MaxXnonce2 = 2
    Faults <- LinkFaults
SPECIFICATION MinerSpec
INVARIANT OldSharesMarked
