CONSTANTS
    N = 2
    MaxNonce = 9
    Reserve = 1
    MaxBatch = 3
    Jobs = {j1}
    NoJob = NoJob
    Data = {d1, d2}
    NoData = NoData
    Epochs = {0}
SPECIFICATION DispatchSpec
INVARIANTS
    DispatchTypeOK
    StaleScanIsRestarted
    ScanInSlice
    RoundsDisjoint
