SPECIFICATION Spec
CONSTANTS
    Numerals = 20
    Ips = {8}
    Accents <- MCAccents
    Reserved = {"_svc", "_id"}
    Tiers <- MCTiers
    Scale = 10
    LongLimit = 500
    SafeMillis = 60
    KeywordIgnoreAbove = 2
    MaxIds = 2
    Clients = {c1, c2}
    Bodies <- MCBodies
    Documents <- Writable
    Starts <- MCStarts
    Queries <- MCQueries
INVARIANTS
    BucketsFound
    PruneSound
    CheckedKeepsAll
    OwnValueFound
CHECK_DEADLOCK FALSE
