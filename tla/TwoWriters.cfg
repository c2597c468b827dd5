CONSTANTS
    Procs = {p1, p2}
    Nobody = Nobody
    Bodies = {0, 1}
    FreshBody = 0
    MaxGeneration = 4
    MaxTitle = 0
    KeepUnread = TRUE
    Races = {"leave"}
SPECIFICATION StoreSpec
INVARIANT PublishedIsWhole
CHECK_DEADLOCK FALSE
