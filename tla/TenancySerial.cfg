SPECIFICATION Spec
SYMMETRY Interchangeable
CONSTANTS
    None = None
    Keep = Keep
    ann = ann
    bob = bob
    Date = {1, 2, 3}
    Tenancies = {t1, t2}
    Rooms = {r1}
    Tenants = {ann, bob}
    Workers = {w1}
    Creates <- SerialCreates
    Patches <- SerialPatches
INVARIANTS
    SyncedMoveOut
    PrimaryAgrees
    AuditCurrent
    ContractsDisjoint
    ActiveBadgeIsGuest
    PlannerMirrorsService
    BelegtIsOccupied
    OutlookMissesNothing
    MonthAgreesWithEngine
PROPERTIES
    ShrinksOnlyByMoveOut
