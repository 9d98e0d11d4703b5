CONSTANTS
    Names = {f, g}
    Versions = {"short", "long"}
    SizeOf <- Sizes
    TableSizes = {1, 2}
    Wire = 8
    Overhead = 2
    MaxGrants = 2
    MaxEdits = 1
    MaxCrashes = 1
    Absent = Absent
    Stored <- LongFirst
    Items = {2}
SPECIFICATION LiveSpec
INVARIANTS JoinsUp  SlotsFreed
PROPERTIES  KeptFiles Released
CHECK_DEADLOCK FALSE
