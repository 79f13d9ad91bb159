SPECIFICATION Spec
CONSTANTS
    Lockers = {"stage", "init"}
    Timed = {"init"}
    Impacts = {"impact"}
    Readers = {"status"}
    Rows = {"v1", "v2"}
    Legacy = {0, 2, 11}
    MaxStarts = 3
INVARIANT WritableIsMigrated
CHECK_DEADLOCK FALSE
