SPECIFICATION FairSpec
CONSTANTS
    Servers = {s1, s2, s3}
    QueueCap = 2
    NoRequest = NoRequest
INVARIANTS IInv RequestHeld ServiceGoesOn
PROPERTIES RequestAnswered ImplementsService
