CONSTANTS
    c1 = c1  c2 = c2  c3 = c3  c4 = c4
    Conns = {c1, c2, c3, c4}
    MaxSlots = 2
    Nobody = Nobody
    t1 = t1  t2 = t2
    Threads = {t1, t2}
    Environments <- MCEnvironments  Bodies <- MCBodies
    Keys = {"key"}
    Static = "static"  Nothing = "nothing"
    MaxBatch = 2
    MaxFailures = 1
    NumLines = 3
    MaxMessages = 2
    None = None
SPECIFICATION WatchedFairSpec
INVARIANTS Typed SlotsConserved RunsAsItsCaller RepliesRight OutputWhole
PROPERTIES RefusedOnlyWhenFull Answered SidecarReached AnsweredOrLost
CHECK_DEADLOCK FALSE
