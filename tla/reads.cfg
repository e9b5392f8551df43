CONSTANTS
    Callers = {"c1", "c2"}
    MaxRows = 3
    MaxFailures = 1
    Matching = {1, 3}
    ListLimits <- MCListLimits
    BackendLimits = {0, 2}
    RetryLimit = 1
    Window = 1
    Default = 2
    BulkRows = 4
    Shown = {1, 2, 4}
    BulkPageSize = 2
    FetchWindow = 3
    Paths = {"sidecar", "listing", "scope"}
    Ids = {1, 2}
    EntityPageSize = 1
    MaxChanges = 2
SPECIFICATION WatchedSpec
INVARIANTS Typed ListingHonest DeletionHonest EntitiesRight
PROPERTIES DeletionEnds
CHECK_DEADLOCK FALSE
