SPECIFICATION IocSpec
CONSTANTS
    Indicators = {x1, x2}
    Formats = {"json"}
    Syncs = {s1}
    MaxRows = 2
    MaxSyncs = 1
    MaxFailures = 1
 
PROPERTIES TornFeedRepaired
CHECK_DEADLOCK FALSE
