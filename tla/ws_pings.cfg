SPECIFICATION Spec
CONSTANTS
    A = A
    B = B
    NoId = NoId
    Scenes <- PingScenes
    Fds = {1}
    PingRetryCount = 1
    MaxSessions = 2
PROPERTIES NotBeforePings
CHECK_DEADLOCK FALSE
