SPECIFICATION FairSpec
CONSTANTS
    A = A
    B = B
    NoId = NoId
    Scenes <- AllScenes
    Fds = {1, 2}
    PingRetryCount = 1
    MaxSessions = 2
INVARIANTS TypeOK MembersAreGenuine OneEntryPerClient RegistryBounded IInv
PROPERTIES GoodCredentialsAccepted RefusalIsPrivate RequestIsPrivate AddressedToClient ImplementsMembership StaleReaped
CHECK_DEADLOCK FALSE
