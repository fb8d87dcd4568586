SPECIFICATION FairSpec
CONSTANTS
    MaxEvents = 4
    MaxCrashes = 2
    Requests <- Everything
    WritesFail = TRUE
CHECK_DEADLOCK FALSE
INVARIANT RecordIsTrue
PROPERTIES RowKeepsStatusPromise RunComesToAnEnd
