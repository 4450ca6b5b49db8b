CONSTANTS
    Jobs = {j1, j2}
    NoJob = NoJob
    Faults <- AllFaults
SPECIFICATION FairSessionSpec
INVARIANTS
    SessionTypeOK
    FreshJobIsUsable
    SetupIsQuiet
    ListensAuthorized
PROPERTIES
    ResumesOnSession
    MiningResumes
