CONSTANTS
    Procs = {p1}
    Nobody = Nobody
    Bodies <- SessionBodies
    FreshBody <- NothingSaid
    MaxGeneration = 4
    MaxTitle = 1
    KeepUnread = FALSE
    Races = {}
    MaxGiven = 2
    MaxInjected = 1
    MaxCalls = 2
    MaxIterations = 2
SPECIFICATION Spec
INVARIANTS
    SavedTypeOK
    PublishedIsWhole
    ReopenReadsLastStep
    
    
    
    AtRestIsSaved
PROPERTIES
    PublishedIsNotRewritten
    SavesAtOnce
