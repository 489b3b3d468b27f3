SPECIFICATION FairSpec
CONSTANTS
    Scenes <- AllScenes
    Topics = {t1, t2}
    Resubscribed = {t1}
    StopFails = TRUE
    NetCap = 2
    EventCap = 1
INVARIANTS TypeOK SubscriptionsHeld OneClientRuns NetworkNotMissed IInv
PROPERTIES NetworkFollowed
CHECK_DEADLOCK FALSE
