CONSTANTS
    Jobs = {j1}
    NoJob = NoJob
    N = 1
    MaxNonce = 3
    Reserve = 1
    MaxBatch = 2
    Troubles <- OneTimeout
    MaxQueue = 1
    MaxXnonce2 = 1
    Faults <- TimeoutOnly
SPECIFICATION MinerSpec
INVARIANT OldSharesMarked
