SPECIFICATION Spec
CONSTANTS
    None = None
    Keep = Keep
    ann = ann
    bob = bob
    Date = {1, 2, 3, 4}
    Tenancies = {t1, t2}
    Rooms = {r1}
    Tenants = {ann, bob}
    Workers = {w1, w2}
    Creates <- EndCreates
    Patches <- EndPatches
INVARIANTS
    ContractsDisjoint
