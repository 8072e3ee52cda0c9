CONSTANTS
    MaxVersion = 2
    PreVersions = {2}
    Requests <- MCRequests
SPECIFICATION FairSpec
INVARIANTS
    NeverStuck
    RebootIsComplete
PROPERTIES
    StagedVerified
    EventuallyCurrent
CHECK_DEADLOCK FALSE
