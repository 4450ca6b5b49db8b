CONSTANTS
    Jobs = {j1, j2}
    NoJob = NoJob
    Faults <- WellFormed
SPECIFICATION SessionSpec
INVARIANT TrueMeansAuthorized
