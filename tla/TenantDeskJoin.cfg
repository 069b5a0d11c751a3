SPECIFICATION DeskSpec
CONSTANTS
    None = None
    Keep = Keep
    ann = ann
    bob = bob
    Date = {1, 2, 3}
    Tenancies = {t1, t2}
    Rooms = {r1}
    Tenants = {ann, bob, carl}
    Residents = {ann}
    Desks = {d1}
    Workers = {}
    Creates <- NoBodies
    Patches <- NoBodies
    Drafts <- FewDrafts
    EditDates <- FewEnds
    MaxFaults = 0
PROPERTIES
    JoinsOwnContract
CHECK_DEADLOCK FALSE
