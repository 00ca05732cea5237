\* One route at a time between a page and a server that may restart, with two
\* connections.  Tracking: two samples in batches of two, two flushes that
\* may overlap, one failure.  Chat: two messages, one failure.
SPECIFICATION RealtimeSpec
CONSTANTS
    owner = owner
    provider = provider
    User = {owner, provider}
    s1 = s1
    s2 = s2
    Socket = {s1, s2}
    NoSocket = NoSocket
    Sample = {1, 2}
    BatchSize = 2
    Flusher = {1, 2}
    MaxFailures = 1
    Reader = owner
    Message = {1, 2}
    MaxTrouble = 1
INVARIANTS
    OneConnectionPerPage
    TrailIsSound
PROPERTIES
    ImplementsTrail
    ShownIsStored
    CatchUp
CHECK_DEADLOCK FALSE
