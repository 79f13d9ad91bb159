SPECIFICATION FairSpec
CONSTANTS
    Lockers = {"stage", "init"}
    Timed = {"init"}
    Impacts = {"impact"}
    Readers = {"status"}
    Rows = {"v1", "v2"}
    Legacy = {0, 2, 11}
    MaxStarts = 3
INVARIANTS LockInv SchemaInv
PROPERTIES RowsKept Untouched Answered
CHECK_DEADLOCK FALSE
