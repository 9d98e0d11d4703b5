CONSTANTS
    Names = {a, b}
    Texts = {t}
    Blank = Blank
    Parents = {1}
    MaxCategories = 2
    MaxArticles = 2
    MaxChanges = 4
    MaxCrashes = 1
    MaxFailures = 1
    Stored <- Stores
    MaxOld = 2
    MaxPosts = 6
    MaxFaults = 2
    MaxStops = 2
SPECIFICATION StorageSpec
INVARIANT TextKept
CHECK_DEADLOCK FALSE
