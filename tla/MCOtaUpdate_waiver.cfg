CONSTANTS
    MaxVersion = 2
    PreVersions = {2}
    Requests <- MCRequests
SPECIFICATION FairSpec
PROPERTY WaivedAsAsked
CHECK_DEADLOCK FALSE
