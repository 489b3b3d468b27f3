SPECIFICATION FairSpec
CONSTANTS
    Scenes <- ListenerScenes
    Topics = {t1, t2}
    Resubscribed = {t1}
    StopFails = FALSE
    NetCap = 2
    EventCap = 1
PROPERTIES LiveHeard
CHECK_DEADLOCK FALSE
