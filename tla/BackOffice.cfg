SPECIFICATION BackOfficeSpec
SYMMETRY Interchangeable
CONSTANTS
    None = None
    Keep = Keep
    u1 = u1
    u2 = u2
    r1 = r1
    Items = {i1}
    Assignments = {a1, a2}
    Units = {u1, u2}
    Rooms = {r1}
    MaxQuantity = 2
    Creates <- RaceCreates
    Patches <- RacePatches
    Workers = {w1, w2}
    Clerks = {k1, k2}
    MaxAttempts = 3
    MaxNumber = 4
    Contracts = {c1, c2, c3}
    Runs = {b1, b2}
    Leases <- TwoLeases
    Callers = {w1, w2}
    Statuses = {"paid"}
    TypedNumbers = {1}
    LastMonth = 2
    MaxInvoices = 3
    MaxCalls = 3
    MaxBreaks = 1
INVARIANTS
    SlotsDistinct
    ReferencesLive
    BilledOnce
    RemindedOnce
PROPERTIES
    NoForeignRevert
    OversoldOnlyIfStale
    StatusSpoiledOnlyByOldCount
    GivesUpOnlyIfBeaten
    AnsweredBilled
